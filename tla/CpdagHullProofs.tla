--------------------------- MODULE CpdagHullProofs ---------------------------
(***************************************************************************)
(* Proofs about Cpdag, for every set of names: what the peeling builds is  *)
(* a consistent extension, and what it refuses has none.  Proofs about     *)
(* DConvexHull, for every set of finite DAGs: neither of the two loops     *)
(* runs out of rounds, and the set they end with is the least (strongly)   *)
(* d-convex superset of the argument, whichever shortest paths are found.  *)
(* Proofs about CpdagHull: a Cpdag and the hull of one of its extensions   *)
(* do not disturb each other, so that what is proved of each holds of both *)
(* together, and the hull is the same in all extensions of the Cpdag.      *)
(***************************************************************************)
EXTENDS CpdagHull, GraphLemmas

(***************************************************************************)
(* Consistent extensions (Cpdag).                                          *)
(***************************************************************************)

(* At most one edge between two nodes, and none from a node to itself.     *)
Simple(dir, und, nodes) ==
  /\ dir \subseteq nodes \X nodes /\ und \subseteq nodes \X nodes
  /\ \A a \in nodes : <<a, a>> \notin dir \cup und
  /\ \A a, b \in nodes : <<a, b>> \in und => <<b, a>> \in und
  /\ \A a, b \in nodes : <<a, b>> \in dir => <<b, a>> \notin dir /\ <<a, b>> \notin und

GraphInv ==
  /\ Len(names) \in Nat
  /\ names = [k \in 1..Len(names) |-> names[k]]
  /\ Simple(directed, undirected, Node)

Oriented == Elems(oriented)

(* What the edges oriented so far have to do with the graph.               *)
OrientedInv ==
  /\ oriented \in Seq(Node \X Node) /\ IsInjectiveSeq(oriented)
  /\ directed \subseteq Oriented /\ Oriented \subseteq directed \cup undirected
  /\ \A a, b \in Node : <<a, b>> \in undirected =>
       IF {a, b} \subseteq active THEN <<a, b>> \notin Oriented
       ELSE <<a, b>> \in Oriented <=> <<b, a>> \notin Oriented

(* No edge leads from a node that is peeled off to one that is not.        *)
Layered == \A a, b \in Node : <<a, b>> \in Oriented /\ b \in active => a \in active

PeeledAcyclic ==
  \A S \in SUBSET (Node \ active) : S # {} => \E i \in S : ParentsIn(Oriented)[i] \cap S = {}

(* Whoever got a new edge to c is adjacent to all other parents of c.      *)
NoNewCollider ==
  \A a, b, c \in Node :
    <<a, c>> \in Oriented \ directed /\ <<b, c>> \in Oriented /\ a # b => Adjacent(a, b)

PeelInv ==
  /\ active \subseteq Node
  /\ remaining = {e \in undirected : {e[1], e[2]} \subseteq active}
  /\ OrientedInv /\ Layered /\ PeeledAcyclic /\ NoNewCollider

IInv ==
  /\ GraphInv
  /\ pc = "build" => result = "none"
  /\ pc = "peel" => result = "none" /\ PeelInv
  /\ ExtensionIsConsistent
  /\ RefusalIsRight
------------------------------------------------------------------------------
(* SetToSeq lists every member of a finite set once.                       *)
LEMMA ListOfSet ==
  ASSUME NEW S, IsFiniteSet(S)
  PROVE  /\ SetToSeq(S) \in Seq(S)
         /\ IsInjectiveSeq(SetToSeq(S))
         /\ Elems(SetToSeq(S)) = S
<1> DEFINE n == Cardinality(S)
           f == SetToSeq(S)
<1>1. n \in Nat /\ ExistsBijection(1..n, S)
  BY FS_CardinalityType
<1>2. \E g \in [1..n -> S] : IsInjective(g)
  BY <1>1 DEF ExistsBijection, Bijection, Injection
<1>3. f \in [1..n -> S] /\ IsInjective(f)
  BY <1>2 DEF SetToSeq
<1>4. f \in Injection(1..n, S)
  BY <1>3 DEF Injection
<1>5. IsFiniteSet(1..n) /\ Cardinality(1..n) = n
  BY <1>1, FS_Interval
<1> HIDE DEF n, f
<1>6. f \in Surjection(1..n, S)
  BY <1>4, <1>5, FS_Injection DEF n
<1>7. Len(f) = n /\ f \in Seq(S)
  BY <1>1, <1>3
<1>8. IsInjectiveSeq(f)
  BY <1>3, <1>7 DEF IsInjective, IsInjectiveSeq
<1>9. Elems(f) = S
  BY <1>3, <1>6, <1>7 DEF Elems, Surjection
<1> QED
  BY <1>7, <1>8, <1>9 DEF f

(* Two lists without a common member, one after the other.                 *)
LEMMA JoinedLists ==
  ASSUME NEW S, NEW s \in Seq(S), NEW t \in Seq(S),
         IsInjectiveSeq(s), IsInjectiveSeq(t), Elems(s) \cap Elems(t) = {}
  PROVE  /\ s \o t \in Seq(S)
         /\ IsInjectiveSeq(s \o t)
         /\ Elems(s \o t) = Elems(s) \cup Elems(t)
<1>1. s \o t \in Seq(S) /\ Len(s) \in Nat /\ Len(t) \in Nat /\ Len(s \o t) = Len(s) + Len(t)
  OBVIOUS
<1>2. \A k \in 1..Len(s) : (s \o t)[k] = s[k]
  OBVIOUS
<1>3. \A k \in 1..Len(t) : (s \o t)[Len(s) + k] = t[k]
  OBVIOUS
<1>4. \A k \in 1..Len(s \o t) : k \in 1..Len(s) \/ \E j \in 1..Len(t) : k = Len(s) + j
  <2> TAKE k \in 1..Len(s \o t)
  <2>1. k \in 1..Len(s) \/ k - Len(s) \in 1..Len(t)
    BY <1>1
  <2>2. k = Len(s) + (k - Len(s))
    BY <1>1
  <2> QED
    BY <2>1, <2>2
<1>5. Elems(s \o t) = Elems(s) \cup Elems(t)
  <2>1. ASSUME NEW x \in Elems(s) \cup Elems(t)
        PROVE  x \in Elems(s \o t)
    BY <1>1, <1>2, <1>3 DEF Elems
  <2>2. ASSUME NEW x \in Elems(s \o t)
        PROVE  x \in Elems(s) \cup Elems(t)
    BY <1>2, <1>3, <1>4 DEF Elems
  <2> QED
    BY <2>1, <2>2
<1>6. ASSUME NEW j \in 1..Len(s \o t), NEW k \in 1..Len(s \o t), (s \o t)[j] = (s \o t)[k]
      PROVE  j = k
  <2>1. CASE j \in 1..Len(s) /\ k \in 1..Len(s)
    BY <1>2, <1>6, <2>1 DEF IsInjectiveSeq
  <2>2. ASSUME NEW x \in 1..Len(s), NEW y \in 1..Len(t)
        PROVE  s[x] # t[y]
    BY DEF Elems
  <2>3. CASE j \in 1..Len(s) /\ k \notin 1..Len(s)
    <3>1. PICK y \in 1..Len(t) : k = Len(s) + y
      BY <1>4, <2>3
    <3> QED
      BY <1>2, <1>3, <1>6, <2>2, <2>3, <3>1
  <2>4. CASE j \notin 1..Len(s) /\ k \in 1..Len(s)
    <3>1. PICK y \in 1..Len(t) : j = Len(s) + y
      BY <1>4, <2>4
    <3> QED
      BY <1>2, <1>3, <1>6, <2>2, <2>4, <3>1
  <2>5. CASE j \notin 1..Len(s) /\ k \notin 1..Len(s)
    <3>1. PICK x \in 1..Len(t) : j = Len(s) + x
      BY <1>4, <2>5
    <3>2. PICK y \in 1..Len(t) : k = Len(s) + y
      BY <1>4, <2>5
    <3>3. t[x] = t[y]
      BY <1>3, <1>6, <3>1, <3>2
    <3> QED
      BY <3>1, <3>2, <3>3 DEF IsInjectiveSeq
  <2> QED
    BY <2>1, <2>3, <2>4, <2>5
<1> QED
  BY <1>1, <1>5, <1>6 DEF IsInjectiveSeq

(* A graph has finitely many nodes and arrows.                             *)
LEMMA NodesAreFinite ==
  ASSUME GraphInv
  PROVE  IsFiniteSet(Node) /\ IsFiniteSet(directed)
<1>1. IsFiniteSet(Node)
  BY FS_Interval DEF GraphInv, Node
<1>2. IsFiniteSet(Node \X Node)
  BY <1>1, FS_Product
<1> QED
  BY <1>1, <1>2, FS_Subset DEF GraphInv, Simple

(* Adjacency has no direction.                                             *)
LEMMA AdjacentIsSymmetric ==
  ASSUME NEW a, NEW b, Adjacent(a, b)
  PROVE  Adjacent(b, a)
BY DEF Adjacent, BothWays
------------------------------------------------------------------------------
(* The caller's operations keep the graph simple.                          *)
LEMMA AddNodeInv ==
  ASSUME GraphInv, NEW name \in Name, AddNode(name)
  PROVE  GraphInv'
<1> DEFINE known == {names[k] : k \in 1..Len(names)} \cup {name}
<1>1. names \in Seq(known)
  BY DEF GraphInv
<1>2. /\ Len(names') = Len(names) + 1
      /\ names' = [k \in 1..Len(names') |-> names'[k]]
  <2>1. names' = Append(names, name) /\ name \in known
    BY DEF AddNode
  <2> HIDE DEF known
  <2>2. names' \in Seq(known) /\ Len(names') = Len(names) + 1
    BY <1>1, <2>1
  <2> QED
    BY <2>2
<1>3. Node \subseteq Node'
  BY <1>2 DEF GraphInv, Node
<1> HIDE DEF Node
<1>4. Simple(directed, undirected, Node')
  BY <1>3 DEF Simple, GraphInv
<1> QED
  BY <1>2, <1>4 DEF GraphInv, AddNode

(* A new arrow joins two nodes that were not adjacent.                     *)
LEMMA AddDirectedEdgeInv ==
  ASSUME GraphInv, NEW a \in Node, NEW b \in Node, AddDirectedEdge(a, b)
  PROVE  GraphInv'
<1>1. Node' = Node /\ names' = names /\ undirected' = undirected
  BY DEF AddDirectedEdge, Node
<1>2. Simple(directed', undirected, Node)
  BY DEF AddDirectedEdge, IsFree, Adjacent, BothWays, GraphInv, Simple
<1> QED
  BY <1>1, <1>2 DEF GraphInv

(* So does a new undirected edge.                                          *)
LEMMA AddUndirectedEdgeInv ==
  ASSUME GraphInv, NEW a \in Node, NEW b \in Node, AddUndirectedEdge(a, b)
  PROVE  GraphInv'
<1>1. Node' = Node /\ names' = names /\ directed' = directed
  BY DEF AddUndirectedEdge, Node
<1>2. Simple(directed, undirected', Node)
  BY DEF AddUndirectedEdge, IsFree, Adjacent, BothWays, GraphInv, Simple
<1> QED
  BY <1>1, <1>2 DEF GraphInv

(* New ids are numbered without gaps and tell the kept nodes apart.        *)
LEMMA NewIdsAreDistinct ==
  ASSUME NEW n \in Nat, NEW keep \in SUBSET (1..n)
  PROVE  /\ Cardinality(keep) \in Nat
         /\ \A i \in keep : NewId(keep, i) \in 1..Cardinality(keep)
         /\ \A i, j \in keep : NewId(keep, i) = NewId(keep, j) => i = j
<1> DEFINE UpTo(i) == {j \in keep : j <= i}
<1>1. IsFiniteSet(keep) /\ Cardinality(keep) \in Nat
  <2>1. IsFiniteSet(1..n)
    BY FS_Interval
  <2> QED
    BY <2>1, FS_Subset, FS_CardinalityType
<1>2. ASSUME NEW i \in keep
      PROVE  NewId(keep, i) \in 1..Cardinality(keep)
  <2>1. UpTo(i) \subseteq keep /\ UpTo(i) # {}
    OBVIOUS
  <2>2. /\ Cardinality(UpTo(i)) \in Nat /\ Cardinality(UpTo(i)) # 0
        /\ Cardinality(UpTo(i)) <= Cardinality(keep)
    <3> HIDE DEF UpTo
    <3> QED
      BY <1>1, <2>1, FS_Subset, FS_CardinalityType, FS_EmptySet
  <2> QED
    BY <1>1, <2>2 DEF NewId
<1>3. ASSUME NEW i \in keep, NEW j \in keep, i < j
      PROVE  NewId(keep, i) # NewId(keep, j)
  <2>1. /\ UpTo(i) \subseteq keep /\ UpTo(j) \subseteq keep
        /\ UpTo(i) \subseteq UpTo(j) /\ j \in UpTo(j) /\ j \notin UpTo(i)
    <3>1. i \in Nat /\ j \in Nat /\ \A x \in keep : x \in Nat
      OBVIOUS
    <3>2. ~(j <= i) /\ j <= j /\ \A x \in keep : x <= i => x <= j
      BY <1>3, <3>1
    <3> QED
      BY <3>2
  <2>2. /\ Cardinality(UpTo(i)) \in Nat /\ Cardinality(UpTo(j)) \in Nat
        /\ Cardinality(UpTo(i)) + 1 <= Cardinality(UpTo(j))
    <3> HIDE DEF UpTo
    <3> QED
      BY <1>1, <2>1, GrowsByOne
  <2> QED
    BY <2>2 DEF NewId
<1>4. ASSUME NEW i \in keep, NEW j \in keep, i # j
      PROVE  NewId(keep, i) # NewId(keep, j)
  <2>1. i < j \/ j < i
    BY <1>4
  <2> QED
    BY <1>3, <2>1
<1> QED
  BY <1>1, <1>2, <1>4

(* The edges between nodes that have a new name, under that name.          *)
Renamed(id, keep, edges) ==
  {<<id[e[1]], id[e[2]]>> : e \in {e \in edges : {e[1], e[2]} \subseteq keep}}

(* Giving the nodes that are kept distinct new names keeps a graph simple. *)
LEMMA RenamedIsSimple ==
  ASSUME NEW nodes, NEW dir, NEW und, Simple(dir, und, nodes),
         NEW new, NEW keep \in SUBSET nodes, NEW id \in [keep -> new],
         \A i, j \in keep : id[i] = id[j] => i = j
  PROVE  Simple(Renamed(id, keep, dir), Renamed(id, keep, und), new)
<1> DEFINE ndir == Renamed(id, keep, dir)
           nund == Renamed(id, keep, und)
<1>1. ASSUME NEW edges \in {dir, und}
      PROVE  /\ Renamed(id, keep, edges) \in SUBSET (new \X new)
             /\ \A x, y \in new : <<x, y>> \in Renamed(id, keep, edges) <=>
                  \E i, j \in keep : <<i, j>> \in edges /\ x = id[i] /\ y = id[j]
  <2>1. ASSUME NEW e \in edges
        PROVE  e = <<e[1], e[2]>>
    BY DEF Simple
  <2>2. ASSUME NEW x \in new, NEW y \in new, <<x, y>> \in Renamed(id, keep, edges)
        PROVE  \E i, j \in keep : <<i, j>> \in edges /\ x = id[i] /\ y = id[j]
    <3>1. PICK e \in edges : {e[1], e[2]} \subseteq keep /\ <<x, y>> = <<id[e[1]], id[e[2]]>>
      BY <2>2 DEF Renamed
    <3>2. x = id[e[1]] /\ y = id[e[2]]
      BY <3>1
    <3> QED
      BY <2>1, <3>1, <3>2
  <2>3. ASSUME NEW i \in keep, NEW j \in keep, <<i, j>> \in edges
        PROVE  <<id[i], id[j]>> \in Renamed(id, keep, edges)
    <3> DEFINE e == <<i, j>>
    <3>1. e \in edges /\ {e[1], e[2]} \subseteq keep /\ e[1] = i /\ e[2] = j
      BY <2>3
    <3> HIDE DEF e
    <3> QED
      BY <3>1 DEF Renamed
  <2>4. Renamed(id, keep, edges) \in SUBSET (new \X new)
    BY DEF Renamed
  <2> QED
    BY <2>2, <2>3, <2>4
<1>2. /\ ndir \in SUBSET (new \X new)
      /\ \A x, y \in new : <<x, y>> \in ndir <=>
           \E i, j \in keep : <<i, j>> \in dir /\ x = id[i] /\ y = id[j]
  BY <1>1
<1>3. /\ nund \in SUBSET (new \X new)
      /\ \A x, y \in new : <<x, y>> \in nund <=>
           \E i, j \in keep : <<i, j>> \in und /\ x = id[i] /\ y = id[j]
  BY <1>1
<1> HIDE DEF ndir, nund
<1>4. ASSUME NEW a \in new, <<a, a>> \in ndir \cup nund
      PROVE  FALSE
  <2>1. CASE <<a, a>> \in ndir
    <3>1. PICK i, j \in keep : <<i, j>> \in dir /\ a = id[i] /\ a = id[j]
      BY <1>2, <2>1
    <3>2. i = j
      BY <3>1
    <3> QED
      BY <3>1, <3>2 DEF Simple
  <2>2. CASE <<a, a>> \in nund
    <3>1. PICK i, j \in keep : <<i, j>> \in und /\ a = id[i] /\ a = id[j]
      BY <1>3, <2>2
    <3>2. i = j
      BY <3>1
    <3> QED
      BY <3>1, <3>2 DEF Simple
  <2> QED
    BY <1>4, <2>1, <2>2
<1>5. ASSUME NEW a \in new, NEW b \in new, <<a, b>> \in nund
      PROVE  <<b, a>> \in nund
  <2>1. PICK i, j \in keep : <<i, j>> \in und /\ a = id[i] /\ b = id[j]
    BY <1>3, <1>5
  <2>2. <<j, i>> \in und
    BY <2>1 DEF Simple
  <2> QED
    BY <1>3, <2>1, <2>2
<1>6. ASSUME NEW a \in new, NEW b \in new, <<a, b>> \in ndir
      PROVE  <<b, a>> \notin ndir /\ <<a, b>> \notin nund
  <2>1. PICK i, j \in keep : <<i, j>> \in dir /\ a = id[i] /\ b = id[j]
    BY <1>2, <1>6
  <2>2. <<j, i>> \notin dir /\ <<i, j>> \notin und
    BY <2>1 DEF Simple
  <2>3. ASSUME <<b, a>> \in ndir
        PROVE  FALSE
    <3>1. PICK k, l \in keep : <<k, l>> \in dir /\ b = id[k] /\ a = id[l]
      BY <1>2, <2>3
    <3>2. k = j /\ l = i
      BY <2>1, <3>1
    <3> QED
      BY <2>2, <3>1, <3>2
  <2>4. ASSUME <<a, b>> \in nund
        PROVE  FALSE
    <3>1. PICK k, l \in keep : <<k, l>> \in und /\ a = id[k] /\ b = id[l]
      BY <1>3, <2>4
    <3>2. k = i /\ l = j
      BY <2>1, <3>1
    <3> QED
      BY <2>2, <3>1, <3>2
  <2> QED
    BY <2>3, <2>4
<1> QED
  BY <1>4, <1>5, <1>6, <1>2, <1>3 DEF Simple, ndir, nund

(* The graph on some of the nodes, with new numbers, is as simple as the   *)
(* whole.                                                                  *)
LEMMA InduceInv ==
  ASSUME GraphInv, NEW keep \in SUBSET Node, Induce(keep)
  PROVE  GraphInv'
<1> DEFINE id == [i \in keep |-> NewId(keep, i)]
           n == Cardinality(keep)
<1>1. /\ n \in Nat
      /\ \A i \in keep : NewId(keep, i) \in 1..n
      /\ \A i, j \in keep : NewId(keep, i) = NewId(keep, j) => i = j
  BY NewIdsAreDistinct DEF GraphInv, Node
<1>2. \A i \in keep : id[i] = NewId(keep, i)
  OBVIOUS
<1>3. id \in [keep -> 1..n] /\ \A i, j \in keep : id[i] = id[j] => i = j
  BY <1>1
<1>4. directed' = Renamed(id, keep, directed) /\ undirected' = Renamed(id, keep, undirected)
  <2> HIDE DEF id
  <2> QED
    BY <1>2 DEF Induce, Renamed
<1>5. Len(names') = n /\ names' = [k \in 1..n |-> names'[k]]
  BY <1>1 DEF Induce
<1>6. Simple(directed', undirected', 1..n)
  <2>1. Simple(directed, undirected, Node)
    BY DEF GraphInv
  <2> HIDE DEF id, n, Node
  <2> QED
    BY <1>2, <1>3, <1>4, <2>1, RenamedIsSimple
<1> QED
  BY <1>1, <1>5, <1>6 DEF GraphInv, Node
------------------------------------------------------------------------------
(* At first only the arrows of the graph are oriented, and every node is   *)
(* active.                                                                 *)
LEMMA BeginExtensionInv ==
  ASSUME GraphInv, BeginExtension
  PROVE  PeelInv'
<1>1. Simple(directed, undirected, Node)
  BY DEF GraphInv
<1>2. /\ oriented' \in Seq(directed) /\ IsInjectiveSeq(oriented') /\ Oriented' = directed
  BY NodesAreFinite, ListOfSet DEF BeginExtension, Oriented
<1>3. /\ Node' = Node /\ active' = Node /\ remaining' = undirected
      /\ directed' = directed /\ undirected' = undirected
  BY DEF BeginExtension, graph, Node
<1>4. oriented' \in Seq(Node \X Node)
  BY <1>1, <1>2 DEF Simple
<1>5. \A e \in undirected : {e[1], e[2]} \subseteq Node
  BY <1>1 DEF Simple
<1> HIDE DEF Node, Oriented
<1>6. OrientedInv'
  <2>1. ASSUME NEW a \in Node, NEW b \in Node, <<a, b>> \in undirected
        PROVE  {a, b} \subseteq Node /\ <<a, b>> \notin directed
    BY <1>1, <2>1 DEF Simple
  <2> QED
    BY <1>2, <1>3, <1>4, <2>1 DEF OrientedInv
<1>7. Layered' /\ NoNewCollider'
  BY <1>2, <1>3 DEF Layered, NoNewCollider
<1>8. PeeledAcyclic'
  BY <1>3 DEF PeeledAcyclic
<1> QED
  BY <1>3, <1>5, <1>6, <1>7, <1>8 DEF PeelInv

(* Peeling the least candidate orients its edges inwards and keeps the     *)
(* order.                                                                  *)
LEMMA PeelStepInv ==
  ASSUME GraphInv, PeelInv, Peel
  PROVE  PeelInv'
<1> DEFINE i == Min(Candidates)
           new == {Inwards(w, i) : w \in Unoriented(i) \cap active}
<1>1. Simple(directed, undirected, Node) /\ active \subseteq Node /\ Node \subseteq Nat
  BY DEF GraphInv, PeelInv, Node
<1>2. i \in active /\ IsSink(i) /\ MakesNoCollider(i)
  <2>1. Candidates \subseteq Nat /\ Candidates # {}
    BY <1>1 DEF Candidates, Peel
  <2>2. Min(Candidates) \in Candidates
    BY <2>1, MinOfNaturals
  <2> QED
    BY <2>2 DEF Candidates
<1>3. /\ oriented' = oriented \o SetToSeq(new)
      /\ remaining' = WithoutNode(i)
      /\ active' = active \ {i}
      /\ directed' = directed /\ undirected' = undirected /\ Node' = Node
  BY DEF Peel, graph, Node
<1> HIDE DEF i
<1>4. \A w : w \in Unoriented(i) <=> w \in active /\ <<i, w>> \in undirected
  <2>1. remaining = {e \in undirected : {e[1], e[2]} \subseteq active}
    BY DEF PeelInv
  <2>2. ASSUME NEW w
        PROVE  <<i, w>> \in remaining <=> w \in active /\ <<i, w>> \in undirected
    BY <1>2, <2>1
  <2> QED
    BY <1>1, <2>2 DEF Unoriented
<1>5. /\ new \subseteq Node \X Node /\ new \subseteq undirected
      /\ \A a, b \in Node : <<a, b>> \in new <=> b = i /\ a \in active /\ <<i, a>> \in undirected
  <2>1. ASSUME NEW e \in new
        PROVE  \E w \in active : <<i, w>> \in undirected /\ e = <<w, i>>
    BY <1>4 DEF Inwards
  <2>2. ASSUME NEW w \in active, <<i, w>> \in undirected
        PROVE  <<w, i>> \in new
    BY <1>4, <2>2 DEF Inwards
  <2> HIDE DEF new
  <2>3. ASSUME NEW e \in new
        PROVE  e \in Node \X Node /\ e \in undirected
    <3>1. PICK w \in active : <<i, w>> \in undirected /\ e = <<w, i>>
      BY <2>1
    <3> QED
      BY <1>1, <1>2, <3>1 DEF Simple
  <2>4. ASSUME NEW a \in Node, NEW b \in Node, <<a, b>> \in new
        PROVE  b = i /\ a \in active /\ <<i, a>> \in undirected
    <3>1. PICK w \in active : <<i, w>> \in undirected /\ <<a, b>> = <<w, i>>
      BY <2>1, <2>4
    <3> QED
      BY <3>1
  <2> QED
    BY <2>2, <2>3, <2>4
<1> HIDE DEF new
<1>6. ASSUME NEW a \in active, NEW b \in active, <<a, b>> \in undirected
      PROVE  <<a, b>> \notin Oriented
  <2>1. a \in Node /\ b \in Node /\ {a, b} \subseteq active
    BY <1>1
  <2>2. OrientedInv
    BY DEF PeelInv
  <2> QED
    BY <1>6, <2>1, <2>2 DEF OrientedInv
<1>7. new \cap Oriented = {}
  <2>1. \A e \in new : e = <<e[1], e[2]>> /\ e[1] \in active /\ e[2] \in active
    <3> TAKE e \in new
    <3>1. e = <<e[1], e[2]>> /\ e[1] \in Node /\ e[2] \in Node
      BY <1>5
    <3> QED
      BY <1>2, <1>5, <3>1
  <2> QED
    BY <1>5, <1>6, <2>1
<1>8. /\ oriented' \in Seq(Node \X Node) /\ IsInjectiveSeq(oriented')
      /\ Oriented' = Oriented \cup new
  <2>1. IsFiniteSet(new)
    <3>1. IsFiniteSet(Node \X Node)
      BY NodesAreFinite, FS_Product
    <3> QED
      BY <1>5, <3>1, FS_Subset
  <2>2. /\ SetToSeq(new) \in Seq(new) /\ IsInjectiveSeq(SetToSeq(new)) /\ Elems(SetToSeq(new)) = new
    BY <2>1, ListOfSet
  <2>3. SetToSeq(new) \in Seq(Node \X Node)
    BY <1>5, <2>2
  <2>4. oriented \in Seq(Node \X Node) /\ IsInjectiveSeq(oriented)
    BY DEF PeelInv, OrientedInv
  <2> HIDE DEF Node
  <2> QED
    BY <1>3, <1>7, <2>2, <2>3, <2>4, JoinedLists DEF Oriented
<1>9. ASSUME NEW a \in Node, <<a, i>> \in Oriented
      PROVE  a \in active /\ <<a, i>> \in directed
  <2>1. a \in active
    BY <1>1, <1>2, <1>9 DEF PeelInv, Layered
  <2>2. <<a, i>> \notin undirected
    BY <1>2, <1>6, <1>9, <2>1
  <2> QED
    BY <1>9, <2>1, <2>2 DEF PeelInv, OrientedInv
<1>10. <<i, i>> \notin directed \cup undirected
  BY <1>1, <1>2 DEF Simple
<1> HIDE DEF Node, Oriented
<1>11. OrientedInv'
  <2>1. OrientedInv
    BY DEF PeelInv
  <2>2. directed \subseteq Oriented' /\ Oriented' \subseteq directed \cup undirected
    BY <1>5, <1>8, <2>1 DEF OrientedInv
  <2>3. ASSUME NEW a \in Node, NEW b \in Node, <<a, b>> \in undirected
        PROVE  IF {a, b} \subseteq active \ {i} THEN <<a, b>> \notin Oriented'
               ELSE <<a, b>> \in Oriented' <=> <<b, a>> \notin Oriented'
    <3>1. <<b, a>> \in undirected
      BY <1>1, <2>3 DEF Simple
    <3>2. CASE ~({a, b} \subseteq active)
      <4>1. <<a, b>> \notin new /\ <<b, a>> \notin new
        BY <1>2, <1>5, <3>2
      <4>2. <<a, b>> \in Oriented <=> <<b, a>> \notin Oriented
        BY <2>1, <2>3, <3>2 DEF OrientedInv
      <4> QED
        BY <1>8, <3>2, <4>1, <4>2
    <3>3. CASE {a, b} \subseteq active \ {i}
      BY <1>5, <1>6, <1>8, <2>3, <3>3
    <3>4. CASE {a, b} \subseteq active /\ i \in {a, b}
      <4>1. <<a, b>> \notin Oriented /\ <<b, a>> \notin Oriented
        BY <1>6, <2>3, <3>1, <3>4
      <4>2. a # b
        BY <1>1, <2>3 DEF Simple
      <4>3. <<a, b>> \in new <=> <<b, a>> \notin new
        <5>1. CASE b = i
          BY <1>5, <3>1, <3>4, <4>2, <5>1
        <5>2. CASE a = i
          BY <1>5, <2>3, <3>4, <4>2, <5>2
        <5> QED
          BY <3>4, <5>1, <5>2
      <4> QED
        BY <1>8, <3>4, <4>1, <4>3
    <3> QED
      BY <3>2, <3>3, <3>4
  <2> QED
    BY <1>3, <1>8, <2>2, <2>3 DEF OrientedInv
<1>12. Layered'
  <2>1. ASSUME NEW a \in Node, NEW b \in active \ {i}, <<a, b>> \in Oriented'
        PROVE  a \in active \ {i}
    <3>1. <<a, b>> \in Oriented /\ b \in Node
      BY <1>1, <1>5, <1>8, <2>1
    <3>2. a \in active
      BY <3>1 DEF PeelInv, Layered
    <3>3. ASSUME a = i
          PROVE  FALSE
      <4>1. <<i, b>> \in directed
        BY <1>2, <1>6, <3>1, <3>3 DEF PeelInv, OrientedInv
      <4> QED
        BY <1>2, <4>1 DEF IsSink
    <3> QED
      BY <3>2, <3>3
  <2> QED
    BY <1>1, <1>3, <2>1 DEF Layered
<1>13. PeeledAcyclic'
  <2> SUFFICES ASSUME NEW S \in SUBSET (Node \ (active \ {i})), S # {}
               PROVE  \E j \in S : \A w \in S : <<w, j>> \notin Oriented'
    BY <1>3 DEF PeeledAcyclic, ParentsIn
  <2>1. CASE i \in S
    <3>1. ASSUME NEW w \in S, <<w, i>> \in Oriented'
          PROVE  FALSE
      <4>1. w \in Node /\ (w \in active => w = i)
        OBVIOUS
      <4>2. <<w, i>> \in Oriented \/ <<w, i>> \in new
        BY <1>8, <3>1
      <4>3. w \in active /\ <<w, i>> \in directed \cup undirected
        BY <1>5, <1>9, <4>1, <4>2
      <4> QED
        BY <1>10, <4>1, <4>3
    <3> QED
      BY <2>1, <3>1
  <2>2. CASE i \notin S
    <3>1. S \in SUBSET (Node \ active)
      BY <2>2
    <3>2. PICK j \in S : ParentsIn(Oriented)[j] \cap S = {}
      BY <3>1 DEF PeelInv, PeeledAcyclic
    <3>3. \A w \in S : <<w, j>> \notin Oriented
      BY <3>1, <3>2 DEF ParentsIn
    <3>4. \A w \in S : <<w, j>> \notin new
      BY <1>5, <2>2
    <3> QED
      BY <1>8, <3>3, <3>4
  <2> QED
    BY <2>1, <2>2
<1>14. NoNewCollider'
  <2>1. ASSUME NEW a \in Node, NEW b \in Node, NEW c \in Node,
               <<a, c>> \in Oriented' \ directed, <<b, c>> \in Oriented', a # b
        PROVE  Adjacent(a, b)
    <3>1. CASE c # i
      <4>1. <<a, c>> \in Oriented \ directed /\ <<b, c>> \in Oriented
        BY <1>5, <1>8, <2>1, <3>1
      <4> QED
        BY <2>1, <4>1 DEF PeelInv, NoNewCollider
    <3>2. CASE c = i
      <4>1. a \in Unoriented(i)
        BY <1>4, <1>5, <1>8, <1>9, <2>1, <3>2
      <4>2. b \in ActiveParents(i) \/ b \in Unoriented(i)
        BY <1>4, <1>5, <1>8, <1>9, <2>1, <3>2 DEF ActiveParents
      <4> QED
        BY <1>2, <2>1, <4>1, <4>2 DEF MakesNoCollider
    <3> QED
      BY <3>1, <3>2
  <2>2. \A a, b : Adjacent(a, b)' <=> Adjacent(a, b)
    BY <1>3 DEF Adjacent
  <2> QED
    BY <1>3, <2>1, <2>2 DEF NoNewCollider
<1>15. remaining' = {e \in undirected : {e[1], e[2]} \subseteq active'}
  BY <1>3 DEF PeelInv, WithoutNode
<1> QED
  BY <1>1, <1>3, <1>11, <1>12, <1>13, <1>14, <1>15 DEF PeelInv
------------------------------------------------------------------------------
(* When nothing is left to peel off, the edges are a consistent extension. *)
LEMMA PeeledOffIsExtension ==
  ASSUME GraphInv, PeelInv, active = {}
  PROVE  IsInjectiveSeq(oriented) /\ IsExtension(Oriented)
<1>1. Simple(directed, undirected, Node) /\ OrientedInv
  BY DEF GraphInv, PeelInv
<1>2. /\ IsInjectiveSeq(oriented)
      /\ directed \subseteq Oriented /\ Oriented \subseteq directed \cup undirected
  BY <1>1 DEF OrientedInv
<1>3. ASSUME NEW e \in undirected
      PROVE  (e \in Oriented) # (<<e[2], e[1]>> \in Oriented)
  <2>1. e = <<e[1], e[2]>> /\ e[1] \in Node /\ e[2] \in Node
    BY <1>1 DEF Simple
  <2> QED
    BY <1>1, <2>1 DEF OrientedInv
<1>4. Acyclic(ParentsIn(Oriented))
  BY DEF PeelInv, PeeledAcyclic, Acyclic, ParentsIn
<1>5. Colliders(directed) \subseteq Colliders(Oriented)
  BY <1>2 DEF Colliders
<1>6. ASSUME NEW t \in Colliders(Oriented)
      PROVE  t \in Colliders(directed)
  <2>1. /\ t \in Node \X Node \X Node
        /\ <<t[1], t[3]>> \in Oriented /\ <<t[2], t[3]>> \in Oriented
        /\ t[1] # t[2] /\ ~Adjacent(t[1], t[2])
    BY DEF Colliders
  <2>2. <<t[1], t[3]>> \in directed
    BY <2>1 DEF PeelInv, NoNewCollider
  <2>3. <<t[2], t[3]>> \in directed
    BY <2>1, AdjacentIsSymmetric DEF PeelInv, NoNewCollider
  <2> QED
    BY <2>1, <2>2, <2>3 DEF Colliders
<1> QED
  BY <1>2, <1>3, <1>4, <1>5, <1>6 DEF IsExtension

(* Whatever consistent extension the graph has, its last node among those  *)
(* not yet peeled off is a candidate.                                      *)
LEMMA ExtensionHasCandidate ==
  ASSUME GraphInv, PeelInv, active # {},
         NEW some \in SUBSET undirected, IsExtension(directed \cup some)
  PROVE  Candidates # {}
<1> DEFINE edges == directed \cup some
           g == ParentsIn(edges)
<1>1. /\ Simple(directed, undirected, Node) /\ active \subseteq Node
      /\ remaining = {e \in undirected : {e[1], e[2]} \subseteq active}
  BY DEF GraphInv, PeelInv
<1>2. DOMAIN g = Node /\ Acyclic(g)
  BY DEF ParentsIn, IsExtension
<1>3. PICK i \in active : \A c \in active : i \notin g[c]
  <2>1. IsFiniteSet(DOMAIN g) /\ active \in SUBSET DOMAIN g
    BY <1>1, <1>2, NodesAreFinite
  <2> HIDE DEF g
  <2> QED
    BY <1>2, <2>1, SinkExists
<1>4. \A c \in active : <<i, c>> \notin edges
  BY <1>1, <1>3 DEF ParentsIn
<1>5. IsSink(i)
  BY <1>4 DEF IsSink
<1>6. ASSUME NEW w \in Unoriented(i)
      PROVE  w \in Node /\ <<i, w>> \in undirected /\ <<w, i>> \in undirected /\ <<w, i>> \in edges
  <2>1. w \in Node /\ <<i, w>> \in undirected /\ w \in active
    BY <1>1 DEF Unoriented
  <2>2. <<w, i>> \in undirected
    BY <1>1, <2>1 DEF Simple
  <2>3. <<i, w>> \notin edges
    BY <1>4, <2>1
  <2>4. <<w, i>> \in edges
    <3> DEFINE e == <<i, w>>
    <3>1. e \in undirected /\ e[1] = i /\ e[2] = w
      BY <2>1
    <3>2. (e \in edges) # (<<e[2], e[1]>> \in edges)
      BY <3>1 DEF IsExtension
    <3> QED
      BY <2>3, <3>1, <3>2
  <2> QED
    BY <2>1, <2>2, <2>4
<1>7. ASSUME NEW w \in Unoriented(i), NEW y \in (ActiveParents(i) \cup Unoriented(i)) \ {w}
      PROVE  Adjacent(w, y)
  <2>1. y \in Node /\ <<y, i>> \in edges
    BY <1>1, <1>6 DEF ActiveParents
  <2>2. w \in Node /\ <<w, i>> \in edges /\ <<w, i>> \in undirected
    BY <1>6
  <2>3. <<w, i>> \notin directed
    BY <1>1, <2>2 DEF Simple
  <2>4. ASSUME ~Adjacent(w, y)
        PROVE  FALSE
    <3> DEFINE t == <<w, y, i>>
    <3>1. t \in Node \X Node \X Node /\ t[1] = w /\ t[2] = y /\ t[3] = i
      BY <1>1, <2>1, <2>2
    <3> HIDE DEF t
    <3>2. t \in Colliders(edges)
      BY <2>1, <2>2, <2>4, <3>1 DEF Colliders
    <3>3. t \in Colliders(directed)
      BY <3>2 DEF IsExtension
    <3> QED
      BY <2>3, <3>1, <3>3 DEF Colliders
  <2> QED
    BY <2>4
<1>8. MakesNoCollider(i)
  BY <1>7 DEF MakesNoCollider
<1> QED
  BY <1>5, <1>8 DEF Candidates

(* A directed cycle stays one whatever edges are added.                    *)
LEMMA CycleHasNoExtension ==
  ASSUME ~Acyclic(ParentsIn(directed)), NEW some \in SUBSET undirected
  PROVE  ~IsExtension(directed \cup some)
<1> DEFINE all == ParentsIn(directed \cup some)
<1>1. \A i \in Node : ParentsIn(directed)[i] \subseteq all[i]
  BY DEF ParentsIn
<1>2. DOMAIN ParentsIn(directed) = Node /\ DOMAIN all = Node
  BY DEF ParentsIn
<1>3. ~Acyclic(all)
  <2> HIDE DEF all
  <2> QED
    BY <1>1, <1>2 DEF Acyclic
<1> QED
  BY <1>3 DEF IsExtension
------------------------------------------------------------------------------
(* The empty graph satisfies the invariant.                                *)
LEMMA InitInv == Init => IInv
<1> SUFFICES ASSUME Init
             PROVE  IInv
  OBVIOUS
<1>1. GraphInv
  BY DEF Init, GraphInv, Simple, Node
<1> QED
  BY <1>1 DEF Init, IInv, ExtensionIsConsistent, RefusalIsRight

(* While no result is there, the two properties ask for nothing.           *)
LEMMA StillWorking ==
  ASSUME GraphInv', pc' \in {"build", "peel"}, result' = "none", pc' = "peel" => PeelInv'
  PROVE  IInv'
BY DEF IInv, ExtensionIsConsistent, RefusalIsRight

(* Every operation on the graph and every round of the extension keeps it. *)
LEMMA NextInv ==
  ASSUME IInv, [Next]_vars
  PROVE  IInv'
<1>1. ASSUME NEW name \in Name, AddNode(name)
      PROVE  IInv'
  BY <1>1, AddNodeInv, StillWorking DEF IInv, AddNode
<1>2. ASSUME NEW a \in Node, NEW b \in Node, AddDirectedEdge(a, b)
      PROVE  IInv'
  BY <1>2, AddDirectedEdgeInv, StillWorking DEF IInv, AddDirectedEdge
<1>3. ASSUME NEW a \in Node, NEW b \in Node, AddUndirectedEdge(a, b)
      PROVE  IInv'
  BY <1>3, AddUndirectedEdgeInv, StillWorking DEF IInv, AddUndirectedEdge
<1>4. ASSUME NEW keep \in SUBSET Node, Induce(keep)
      PROVE  IInv'
  BY <1>4, InduceInv, StillWorking DEF IInv, Induce
<1>5. CASE BeginExtension
  <2>1. GraphInv'
    BY <1>5 DEF BeginExtension, graph, IInv, GraphInv, Node
  <2> QED
    BY <1>5, <2>1, BeginExtensionInv, StillWorking DEF IInv, BeginExtension
<1>6. CASE Peel
  <2>1. GraphInv'
    BY <1>6 DEF Peel, graph, IInv, GraphInv, Node
  <2> QED
    BY <1>6, <2>1, PeelStepInv, StillWorking DEF IInv, Peel
<1>7. ASSUME UNCHANGED <<graph, work>>
      PROVE  /\ GraphInv' <=> GraphInv
             /\ Candidates' = Candidates
             /\ IsInjectiveSeq(oriented)' <=> IsInjectiveSeq(oriented)
             /\ IsExtension(Elems(oriented))' <=> IsExtension(Elems(oriented))
             /\ \A some : IsExtension(directed \cup some)' <=> IsExtension(directed \cup some)
  BY <1>7 DEF graph, work, GraphInv, Node, Candidates, IsSink, MakesNoCollider, Unoriented,
              ActiveParents, Adjacent, IsExtension, Colliders, ParentsIn
<1>8. CASE ExtendNothing
  BY <1>7, <1>8 DEF ExtendNothing, Return, IInv, ExtensionIsConsistent, RefusalIsRight
<1>9. CASE RefuseCycle
  <2>1. \A some \in SUBSET undirected : ~IsExtension(directed \cup some)
    BY <1>9, CycleHasNoExtension DEF RefuseCycle
  <2> QED
    BY <1>7, <1>9, <2>1 DEF RefuseCycle, Return, graph, IInv, ExtensionIsConsistent, RefusalIsRight
<1>10. CASE Stuck
  <2>1. \A some \in SUBSET undirected : ~IsExtension(directed \cup some)
    BY <1>10, ExtensionHasCandidate DEF Stuck, IInv
  <2> QED
    BY <1>7, <1>10, <2>1 DEF Stuck, Return, graph, IInv, ExtensionIsConsistent, RefusalIsRight
<1>11. CASE Build
  <2>1. GraphInv /\ PeelInv /\ active = {}
    BY <1>11 DEF Build, IInv
  <2>2. IsInjectiveSeq(oriented) /\ IsExtension(Elems(oriented))
    BY <2>1, PeeledOffIsExtension DEF Oriented
  <2>3. result' = "ok"
    BY <1>11, <2>2 DEF Build, Return, IsExtension
  <2> QED
    BY <1>7, <1>11, <2>2, <2>3 DEF Build, Return, IInv, ExtensionIsConsistent, RefusalIsRight
<1>12. CASE UNCHANGED vars
  <2>1. UNCHANGED <<graph, work>> /\ pc' = pc /\ result' = result
    BY <1>12 DEF vars
  <2>2. PeelInv' <=> PeelInv
    BY <2>1 DEF graph, work, PeelInv, OrientedInv, Layered, PeeledAcyclic, NoNewCollider,
                Oriented, Node, ParentsIn, Adjacent
  <2>3. ExtensionIsConsistent' <=> ExtensionIsConsistent
    BY <1>7, <2>1 DEF ExtensionIsConsistent
  <2>4. RefusalIsRight' <=> RefusalIsRight
    BY <1>7, <2>1 DEF graph, RefusalIsRight
  <2> QED
    BY <1>7, <2>1, <2>2, <2>3, <2>4 DEF IInv
<1> QED
  BY <1>1, <1>2, <1>3, <1>4, <1>5, <1>6, <1>8, <1>9, <1>10, <1>11, <1>12 DEF Next

(* It holds in every behaviour.                                            *)
LEMMA Invariant == Spec => []IInv
BY InitInv, NextInv, PTL DEF Spec

(* Peeling off sinks in whatever graph: adding the oriented edges to a new *)
(* Dag and validating it never fails, and the Dag is a consistent          *)
(* extension.                                                              *)
THEOREM PeelingIsConsistent == Spec => []ExtensionIsConsistent
<1>1. IInv => ExtensionIsConsistent
  BY DEF IInv
<1> QED
  BY <1>1, Invariant, PTL

(* A graph is refused only if no orientation of it is a consistent         *)
(* extension: taking the first sink each time never spoils it.             *)
THEOREM RefusalIsJustified == Spec => []RefusalIsRight
<1>1. IInv => RefusalIsRight
  BY DEF IInv
<1> QED
  BY <1>1, Invariant, PTL
------------------------------------------------------------------------------
(***************************************************************************)
(* Walks and d-convexity.                                                  *)
(*                                                                         *)
(* The hulls are held to a definition by inducing paths, computed on moral *)
(* graphs, and have to agree on all extensions of a Cpdag.  Walks lie in   *)
(* between: an inducing path can be read as a walk on which every vertex   *)
(* of the set is met by two arrowheads, and the other way round a shortest *)
(* walk of this kind is an inducing path.                                  *)
(***************************************************************************)

(* A finite DAG.                                                           *)
IsDag(g) == IsFiniteSet(DOMAIN g) /\ g \in Dags(DOMAIN g)

(* AncestorsOrSelf is a recursion over the lengths of paths.               *)
LEMMA AncestorSteps ==
  ASSUME NEW g, IsFiniteSet(DOMAIN g), g \in ParentMaps(DOMAIN g),
         NEW seeds \in SUBSET DOMAIN g
  PROVE  \E after :
           /\ after \in [0..Cardinality(DOMAIN g) -> SUBSET DOMAIN g]
           /\ after[0] = seeds
           /\ \A k \in 1..Cardinality(DOMAIN g) :
                after[k] = after[k - 1] \cup UNION {g[v] : v \in after[k - 1]}
           /\ AncestorsOrSelf(g, seeds) = after[Cardinality(DOMAIN g)]
<1> DEFINE n == Cardinality(DOMAIN g)
           V == SUBSET DOMAIN g
           More(x) == x \cup UNION {g[v] : v \in x}
           step == [k \in 1..n |-> [x \in V |-> More(x)]]
           eq(f) == f = [k \in 0..n |-> IF k = 0 THEN seeds ELSE More(f[k - 1])]
           sol == CHOOSE f : eq(f)
<1>1. n \in Nat
  BY FS_CardinalityType
<1>2. \A x \in V : More(x) \in V
  BY DEF ParentMaps
<1>3. IsStep(n, V, step)
  <2> HIDE DEF More, V
  <2> QED
    BY <1>2 DEF IsStep
<1>4. PICK after : Follows(n, V, seeds, step, after)
  <2> HIDE DEF step, n
  <2> QED
    BY <1>1, <1>3, RecursionExists
<1>5. /\ after \in [0..n -> V] /\ after[0] = seeds
      /\ \A k \in 1..n : after[k] = More(after[k - 1])
  <2>1. \A k \in 1..n : k - 1 \in 0..n
    BY <1>1
  <2> HIDE DEF More, V, n
  <2> QED
    BY <1>4, <2>1 DEF Follows, step
<1>6. eq(after)
  <2>1. \A k \in 0..n : after[k] = IF k = 0 THEN seeds ELSE More(after[k - 1])
    <3> HIDE DEF More
    <3> QED
      BY <1>1, <1>5
  <2> HIDE DEF More
  <2> QED
    BY <1>5, <2>1
<1>7. eq(sol)
  <2> HIDE DEF eq
  <2> QED
    BY <1>6
<1>8. AncestorsOrSelf(g, seeds) = sol[n]
  BY DEF AncestorsOrSelf
<1>9. sol = [k \in 0..n |-> sol[k]] /\ InStep(n, sol, after)
  <2>1. sol[0] = seeds /\ \A k \in 1..n : sol[k] = More(sol[k - 1])
    <3> HIDE DEF More, sol
    <3>1. sol = [k \in 0..n |-> IF k = 0 THEN seeds ELSE More(sol[k - 1])]
      BY <1>7
    <3> QED
      BY <1>1, <3>1
  <2>2. sol = [k \in 0..n |-> sol[k]]
    <3> HIDE DEF More, sol
    <3>1. sol = [k \in 0..n |-> IF k = 0 THEN seeds ELSE More(sol[k - 1])]
      BY <1>7
    <3> QED
      BY <3>1
  <2> HIDE DEF sol, More
  <2> QED
    BY <1>5, <2>1, <2>2 DEF InStep
<1>10. sol[n] = after[n]
  <2> HIDE DEF sol, n
  <2> QED
    BY <1>1, <1>9, RecursionIsUnique
<1> HIDE DEF sol
<1> QED
  BY <1>5, <1>8, <1>10

(* Ancestors are closed under parents, and the least such set.             *)
LEMMA AncestorsAre ==
  ASSUME NEW g, IsFiniteSet(DOMAIN g), g \in ParentMaps(DOMAIN g),
         NEW seeds \in SUBSET DOMAIN g
  PROVE  /\ seeds \subseteq AncestorsOrSelf(g, seeds)
         /\ AncestorsOrSelf(g, seeds) \subseteq DOMAIN g
         /\ \A v \in AncestorsOrSelf(g, seeds) : g[v] \subseteq AncestorsOrSelf(g, seeds)
         /\ \A C \in SUBSET DOMAIN g :
              seeds \subseteq C /\ (\A v \in C : g[v] \subseteq C)
                => AncestorsOrSelf(g, seeds) \subseteq C
<1> DEFINE n == Cardinality(DOMAIN g)
<1>1. n \in Nat
  BY FS_CardinalityType
<1>2. PICK after :
           /\ after \in [0..n -> SUBSET DOMAIN g]
           /\ after[0] = seeds
           /\ \A k \in 1..n : after[k] = after[k - 1] \cup UNION {g[v] : v \in after[k - 1]}
           /\ AncestorsOrSelf(g, seeds) = after[n]
  BY AncestorSteps
<1> HIDE DEF n
<1> DEFINE Closed(k) == \A v \in after[k] : g[v] \subseteq after[k]
           Good(k) == seeds \subseteq after[k] /\ (Closed(k) \/ Cardinality(after[k]) > k)
<1>3. \A k \in 0..n :
        IsFiniteSet(after[k]) /\ after[k] \subseteq DOMAIN g /\ Cardinality(after[k]) \in Nat
  BY <1>2, FS_Subset, FS_CardinalityType
<1>4. \A k \in 0..n : Good(k)
  <2> DEFINE Bad == {k \in 0..n : ~Good(k)}
  <2> SUFFICES ASSUME Bad # {}
               PROVE  FALSE
    OBVIOUS
  <2>1. PICK k \in Bad : \A j \in Bad : k <= j
    <3>1. Bad \in SUBSET Nat
      OBVIOUS
    <3> HIDE DEF Bad
    <3> QED
      BY <3>1, MinOfNaturals
  <2>2. k \in 0..n /\ ~Good(k)
    OBVIOUS
  <2>3. Good(0)
    <3>1. CASE seeds = {}
      BY <1>2, <3>1
    <3>2. CASE seeds # {}
      <4>1. Cardinality(after[0]) # 0
        BY <1>2, <1>3, <1>1, <3>2, FS_EmptySet
      <4>2. 0 \in 0..n
        BY <1>1
      <4>3. Cardinality(after[0]) > 0
        BY <1>3, <4>1, <4>2
      <4> QED
        BY <1>2, <4>3
    <3> QED
      BY <3>1, <3>2
  <2>4. k \in 1..n /\ k - 1 \in 0..n /\ k - 1 \notin Bad
    <3>1. k # 0
      BY <2>2, <2>3
    <3>2. k \in 1..n /\ k - 1 \in 0..n /\ ~(k <= k - 1)
      BY <1>1, <2>2, <3>1
    <3> HIDE DEF Bad
    <3> QED
      BY <2>1, <3>2
  <2>5. Good(k - 1)
    BY <2>4
  <2>6. after[k] = after[k - 1] \cup UNION {g[v] : v \in after[k - 1]}
    BY <1>2, <2>4
  <2>7. CASE after[k] = after[k - 1]
    <3>1. \A v \in after[k] : g[v] \subseteq after[k]
      BY <2>6, <2>7
    <3> QED
      BY <2>2, <2>5, <2>7, <3>1
  <2>8. CASE after[k] # after[k - 1]
    <3>1. ~Closed(k - 1)
      BY <2>6, <2>8
    <3>2. Cardinality(after[k - 1]) > k - 1 /\ seeds \subseteq after[k]
      BY <2>5, <2>6, <3>1
    <3>3. after[k - 1] \subseteq after[k]
      BY <2>6
    <3>4. Cardinality(after[k - 1]) + 1 <= Cardinality(after[k])
      <4>1. after[k] \in SUBSET DOMAIN g /\ after[k - 1] \in SUBSET DOMAIN g
        BY <1>3, <2>2, <2>4
      <4> QED
        BY <2>8, <3>3, <4>1, GrowsByOne
    <3>5. Cardinality(after[k]) > k
      BY <1>3, <2>2, <2>4, <3>2, <3>4
    <3> QED
      BY <2>2, <3>2, <3>5
  <2> QED
    BY <2>7, <2>8
<1>5. Closed(n)
  <2>1. n \in 0..n
    BY <1>1
  <2>2. Cardinality(after[n]) <= n
    BY <1>3, <2>1, FS_Subset DEF n
  <2>3. Good(n)
    BY <1>4, <2>1
  <2> QED
    BY <1>1, <1>3, <2>1, <2>2, <2>3
<1>6. ASSUME NEW C \in SUBSET DOMAIN g, seeds \subseteq C, \A v \in C : g[v] \subseteq C
      PROVE  after[n] \subseteq C
  <2> DEFINE Bad == {k \in 0..n : ~(after[k] \subseteq C)}
  <2> SUFFICES ASSUME Bad # {}
               PROVE  FALSE
    <3>1. n \in 0..n
      BY <1>1
    <3> QED
      BY <3>1
  <2>1. PICK k \in Bad : \A j \in Bad : k <= j
    <3>1. Bad \in SUBSET Nat
      OBVIOUS
    <3> HIDE DEF Bad
    <3> QED
      BY <3>1, MinOfNaturals
  <2>2. k \in 1..n /\ k - 1 \in 0..n /\ k - 1 \notin Bad
    <3>1. k \in 0..n /\ k # 0
      BY <1>2, <1>6
    <3>2. k \in 1..n /\ k - 1 \in 0..n /\ ~(k <= k - 1)
      BY <1>1, <3>1
    <3> HIDE DEF Bad
    <3> QED
      BY <2>1, <3>2
  <2>3. after[k] = after[k - 1] \cup UNION {g[v] : v \in after[k - 1]} /\ after[k - 1] \subseteq C
    BY <1>2, <2>2
  <2>4. after[k] \subseteq C
    BY <1>6, <2>3
  <2> QED
    BY <2>4
<1>7. n \in 0..n
  BY <1>1
<1>8. seeds \subseteq after[n]
  BY <1>4, <1>7
<1> QED
  BY <1>2, <1>3, <1>5, <1>6, <1>7, <1>8

(* A walk in g of n edges, in either direction, on which the vertices of T *)
(* are met by two arrowheads.  If into is "arrow" the first edge has an    *)
(* arrowhead at the first vertex, if onto is "arrow" the last edge has one *)
(* at the last vertex; with another value they say nothing.                *)
IsWalk(g, T, q, n, into, onto) ==
  /\ \A j \in 1..n : Linked(g, q[j - 1], q[j])
  /\ \A j \in 1..(n - 1) : q[j] \in T => q[j - 1] \in g[q[j]] /\ q[j + 1] \in g[q[j]]
  /\ into = "arrow" => q[1] \in g[q[0]]
  /\ onto = "arrow" => q[n - 1] \in g[q[n]]

Walks(g, T, A, x, y, into, onto) ==
  \E n \in Nat \ {0} : \E q \in [0..n -> A] :
    q[0] = x /\ q[n] = y /\ IsWalk(g, T, q, n, into, onto)

(* An edge is a walk.                                                      *)
LEMMA EdgeIsWalk ==
  ASSUME NEW g, NEW T, NEW A, NEW x \in A, NEW y \in A, Linked(g, x, y),
         NEW into, NEW onto,
         into = "arrow" => y \in g[x], onto = "arrow" => x \in g[y]
  PROVE  Walks(g, T, A, x, y, into, onto)
<1> DEFINE q == [k \in 0..1 |-> IF k = 0 THEN x ELSE y]
<1>1. q \in [0..1 -> A] /\ q[0] = x /\ q[1] = y
  OBVIOUS
<1>2. \A j \in 1..1 : j = 1
  OBVIOUS
<1>3. IsWalk(g, T, q, 1, into, onto)
  <2>1. 1 - 1 = 0 /\ (\A j \in 1..(1 - 1) : FALSE)
    OBVIOUS
  <2> HIDE DEF q
  <2> QED
    BY <1>1, <1>2, <2>1 DEF IsWalk
<1> HIDE DEF q
<1>4. 1 \in Nat \ {0}
  OBVIOUS
<1> QED
  BY <1>1, <1>3, <1>4 DEF Walks

(* A walk can be taken backwards.                                          *)
LEMMA WalkBack ==
  ASSUME NEW g, NEW T, NEW A, NEW x, NEW y,
         NEW into, NEW onto, Walks(g, T, A, x, y, into, onto)
  PROVE  Walks(g, T, A, y, x, onto, into)
<1>1. PICK n \in Nat \ {0} : \E q \in [0..n -> A] :
        q[0] = x /\ q[n] = y /\ IsWalk(g, T, q, n, into, onto)
  BY DEF Walks
<1>2. PICK q \in [0..n -> A] : q[0] = x /\ q[n] = y /\ IsWalk(g, T, q, n, into, onto)
  BY <1>1
<1> DEFINE r == [k \in 0..n |-> q[n - k]]
<1>3. r \in [0..n -> A] /\ r[0] = y /\ r[n] = x
  <2>1. \A k \in 0..n : n - k \in 0..n
    OBVIOUS
  <2>2. n \in 0..n /\ 0 \in 0..n /\ n - 0 = n /\ n - n = 0
    OBVIOUS
  <2> QED
    BY <1>2, <2>1, <2>2
<1>4. \A k \in 0..n : r[k] = q[n - k]
  OBVIOUS
<1> HIDE DEF r
<1>5. ASSUME NEW j \in 1..n
      PROVE  Linked(g, r[j - 1], r[j])
  <2>1. j - 1 \in 0..n /\ j \in 0..n /\ n - j + 1 \in 1..n
        /\ n - (j - 1) = n - j + 1 /\ (n - j + 1) - 1 = n - j
    OBVIOUS
  <2>2. Linked(g, q[(n - j + 1) - 1], q[n - j + 1])
    BY <1>2, <2>1 DEF IsWalk
  <2> QED
    BY <1>4, <2>1, <2>2 DEF Linked
<1>6. ASSUME NEW j \in 1..(n - 1), r[j] \in T
      PROVE  r[j - 1] \in g[r[j]] /\ r[j + 1] \in g[r[j]]
  <2>1. /\ j - 1 \in 0..n /\ j \in 0..n /\ j + 1 \in 0..n /\ n - j \in 1..(n - 1)
        /\ n - (j - 1) = (n - j) + 1 /\ n - (j + 1) = (n - j) - 1
    OBVIOUS
  <2> QED
    BY <1>2, <1>4, <1>6, <2>1 DEF IsWalk
<1>7. 1 \in 0..n /\ n - 1 \in 0..n /\ n - (n - 1) = 1 /\ n - n = 0 /\ n \in 0..n /\ 0 \in 0..n
  OBVIOUS
<1>8. IsWalk(g, T, r, n, onto, into)
  BY <1>2, <1>3, <1>4, <1>5, <1>6, <1>7 DEF IsWalk
<1> QED
  BY <1>3, <1>8 DEF Walks

(* Two walks that meet in a vertex make one, if the vertex is not in T or  *)
(* both have an arrowhead at it.                                           *)
LEMMA WalksJoin ==
  ASSUME NEW g, NEW T, NEW A, NEW x, NEW y, NEW z,
         NEW into, NEW onto, NEW to, NEW from,
         Walks(g, T, A, x, y, into, to), Walks(g, T, A, y, z, from, onto),
         y \in T => to = "arrow" /\ from = "arrow"
  PROVE  Walks(g, T, A, x, z, into, onto)
<1>1. /\ \E m \in Nat \ {0} : \E p \in [0..m -> A] :
           p[0] = x /\ p[m] = y /\ IsWalk(g, T, p, m, into, to)
      /\ \E n \in Nat \ {0} : \E q \in [0..n -> A] :
           q[0] = y /\ q[n] = z /\ IsWalk(g, T, q, n, from, onto)
  BY DEF Walks
<1>2. PICK m \in Nat \ {0} : \E p \in [0..m -> A] :
        p[0] = x /\ p[m] = y /\ IsWalk(g, T, p, m, into, to)
  BY <1>1
<1>3. PICK n \in Nat \ {0} : \E q \in [0..n -> A] :
        q[0] = y /\ q[n] = z /\ IsWalk(g, T, q, n, from, onto)
  BY <1>1
<1>4. PICK p \in [0..m -> A] : p[0] = x /\ p[m] = y /\ IsWalk(g, T, p, m, into, to)
  BY <1>2
<1>5. PICK q \in [0..n -> A] : q[0] = y /\ q[n] = z /\ IsWalk(g, T, q, n, from, onto)
  BY <1>3
<1> DEFINE r == [k \in 0..(m + n) |-> IF k <= m THEN p[k] ELSE q[k - m]]
<1>6. m + n \in Nat \ {0} /\ 0 \in 0..n
  OBVIOUS
<1>7. /\ \A k \in 0..m : r[k] = p[k]
      /\ \A k \in 0..n : r[m + k] = q[k]
  <2>1. \A k \in 0..m : k \in 0..(m + n) /\ k <= m
    OBVIOUS
  <2>2. ASSUME NEW k \in 0..n
        PROVE  r[m + k] = q[k]
    <3>1. CASE k = 0
      <4>1. m + k = m /\ m \in 0..(m + n)
        BY <3>1
      <4> QED
        BY <1>4, <1>5, <3>1, <4>1
    <3>2. CASE k # 0
      <4>1. m + k \in 0..(m + n) /\ ~(m + k <= m) /\ (m + k) - m = k
        BY <3>2
      <4> QED
        BY <4>1
    <3> QED
      BY <3>1, <3>2
  <2> QED
    BY <2>1, <2>2
<1>8. r \in [0..(m + n) -> A]
  <2>1. ASSUME NEW k \in 0..(m + n)
        PROVE  k \in 0..m \/ (~(k <= m) /\ k - m \in 0..n)
    OBVIOUS
  <2>2. \A k \in 0..(m + n) : (IF k <= m THEN p[k] ELSE q[k - m]) \in A
    BY <2>1
  <2> QED
    BY <2>2
<1> HIDE DEF r
<1>9. r[0] = x /\ r[m + n] = z
  <2>1. 0 \in 0..m /\ n \in 0..n
    OBVIOUS
  <2> QED
    BY <1>4, <1>5, <1>7, <2>1
<1>10. ASSUME NEW j \in 1..(m + n)
      PROVE  Linked(g, r[j - 1], r[j])
  <2>1. CASE j <= m
    <3>1. j - 1 \in 0..m /\ j \in 0..m /\ j \in 1..m
      BY <2>1
    <3> QED
      BY <1>4, <1>7, <3>1 DEF IsWalk
  <2>2. CASE ~(j <= m)
    <3>1. /\ j - m \in 1..n /\ (j - m) - 1 \in 0..n /\ j - m \in 0..n
          /\ m + (j - m) = j /\ m + ((j - m) - 1) = j - 1
      BY <2>2
    <3>2. r[j] = q[j - m] /\ r[j - 1] = q[(j - m) - 1]
      BY <1>7, <3>1
    <3> QED
      BY <1>5, <3>1, <3>2 DEF IsWalk
  <2> QED
    BY <2>1, <2>2
<1>11. ASSUME NEW j \in 1..(m + n - 1), r[j] \in T
      PROVE  r[j - 1] \in g[r[j]] /\ r[j + 1] \in g[r[j]]
  <2>1. CASE j < m
    <3>1. j - 1 \in 0..m /\ j \in 0..m /\ j + 1 \in 0..m /\ j \in 1..(m - 1)
      BY <2>1
    <3> QED
      BY <1>4, <1>7, <1>11, <3>1 DEF IsWalk
  <2>2. CASE j = m
    <3>1. m - 1 \in 0..m /\ m \in 0..m /\ 1 \in 0..n /\ 0 \in 0..n
      OBVIOUS
    <3>2. r[j] = y /\ r[j - 1] = p[m - 1] /\ r[j + 1] = q[1]
      BY <1>4, <1>7, <2>2, <3>1
    <3> QED
      BY <1>4, <1>5, <1>11, <3>2 DEF IsWalk
  <2>3. CASE j > m
    <3>1. /\ j - m \in 1..(n - 1) /\ (j - m) - 1 \in 0..n /\ j - m \in 0..n /\ (j - m) + 1 \in 0..n
          /\ m + (j - m) = j /\ m + ((j - m) - 1) = j - 1 /\ m + ((j - m) + 1) = j + 1
      BY <2>3
    <3>2. r[j] = q[j - m] /\ r[j - 1] = q[(j - m) - 1] /\ r[j + 1] = q[(j - m) + 1]
      BY <1>7, <3>1
    <3> QED
      BY <1>5, <1>11, <3>1, <3>2 DEF IsWalk
  <2> QED
    BY <2>1, <2>2, <2>3
<1>12. into = "arrow" => r[1] \in g[r[0]]
  <2>1. 0 \in 0..m /\ 1 \in 0..m
    OBVIOUS
  <2>2. r[0] = p[0] /\ r[1] = p[1]
    BY <1>7, <2>1
  <2> QED
    BY <1>4, <2>2 DEF IsWalk
<1>13. onto = "arrow" => r[(m + n) - 1] \in g[r[m + n]]
  <2>1. n \in 0..n /\ n - 1 \in 0..n /\ m + (n - 1) = (m + n) - 1
    OBVIOUS
  <2>2. r[m + n] = q[n] /\ r[(m + n) - 1] = q[n - 1]
    BY <1>7, <2>1
  <2> QED
    BY <1>5, <2>2 DEF IsWalk
<1>14. IsWalk(g, T, r, m + n, into, onto)
  <2> DEFINE l == m + n
  <2>1. \A j \in 1..l : Linked(g, r[j - 1], r[j])
    BY <1>10
  <2>2. \A j \in 1..(l - 1) : r[j] \in T => r[j - 1] \in g[r[j]] /\ r[j + 1] \in g[r[j]]
    BY <1>11
  <2>3. onto = "arrow" => r[l - 1] \in g[r[l]]
    BY <1>13
  <2> HIDE DEF l
  <2>4. IsWalk(g, T, r, l, into, onto)
    BY <1>12, <2>1, <2>2, <2>3 DEF IsWalk
  <2> QED
    BY <2>4 DEF l
<1> QED
  BY <1>6, <1>8, <1>9, <1>14 DEF Walks

(* A walk is one among more vertices, and with less said of its ends.      *)
LEMMA WalkWidens ==
  ASSUME NEW g, NEW T, NEW A, NEW B, A \subseteq B, NEW x, NEW y,
         NEW into, NEW onto, NEW from, NEW to,
         Walks(g, T, A, x, y, into, onto),
         from = "arrow" => into = "arrow", to = "arrow" => onto = "arrow"
  PROVE  Walks(g, T, B, x, y, from, to)
<1>1. PICK n \in Nat \ {0} : \E q \in [0..n -> A] :
        q[0] = x /\ q[n] = y /\ IsWalk(g, T, q, n, into, onto)
  BY DEF Walks
<1>2. PICK q \in [0..n -> A] : q[0] = x /\ q[n] = y /\ IsWalk(g, T, q, n, into, onto)
  BY <1>1
<1>3. q \in [0..n -> B] /\ IsWalk(g, T, q, n, from, to)
  BY <1>2 DEF IsWalk
<1> QED
  BY <1>2, <1>3 DEF Walks

(* q is a walk from x to y of n edges.                                     *)
WalkOf(g, T, A, x, y, n, q) ==
  /\ q \in [0..n -> A]
  /\ q[0] = x /\ q[n] = y
  /\ IsWalk(g, T, q, n, "any", "any")

(* The vertices between two linked vertices of a walk can be left out, if  *)
(* the two still are what the walk demands of them.                        *)
LEMMA Shortcut ==
  ASSUME NEW g, NEW T, NEW A, NEW x, NEW y, NEW n \in Nat \ {0}, NEW q, WalkOf(g, T, A, x, y, n, q),
         NEW i \in Nat, NEW j \in Nat, i < j, j <= n, NEW l \in Nat, l + j = n + i + 1,
         Linked(g, q[i], q[j]),
         i # 0 /\ q[i] \in T => q[i - 1] \in g[q[i]] /\ q[j] \in g[q[i]],
         j # n /\ q[j] \in T => q[i] \in g[q[j]] /\ q[j + 1] \in g[q[j]]
  PROVE  l \in Nat \ {0} /\ \E r : WalkOf(g, T, A, x, y, l, r)
<1> DEFINE d == j - i - 1
<1>1. d \in Nat /\ j = i + 1 + d /\ l = n - d
  OBVIOUS
<1> HIDE DEF d
<1> DEFINE r == [k \in 0..l |-> IF k <= i THEN q[k] ELSE q[k + d]]
<1>2. l \in Nat \ {0} /\ i \in 0..l /\ i + 1 \in 0..l /\ 0 \in 0..l /\ l \in 0..l
  BY <1>1
<1>3. /\ \A k \in 0..i : k \in 0..l /\ k \in 0..n /\ k <= i
      /\ \A k \in (i + 1)..l : k \in 0..l /\ k + d \in 0..n /\ ~(k <= i)
      /\ \A k \in 0..l : k \in 0..i \/ k \in (i + 1)..l
  BY <1>1
<1>4. q \in [0..n -> A]
  BY DEF WalkOf
<1>5. /\ \A k \in 0..i : r[k] = q[k]
      /\ \A k \in (i + 1)..l : r[k] = q[k + d]
  BY <1>3
<1>6. r \in [0..l -> A]
  <2>1. \A k \in 0..l : (IF k <= i THEN q[k] ELSE q[k + d]) \in A
    BY <1>3, <1>4
  <2> QED
    BY <2>1
<1> HIDE DEF r
<1>7. r[0] = x /\ r[l] = y
  <2>1. 0 \in 0..i /\ l \in (i + 1)..l /\ l + d = n
    BY <1>1
  <2> QED
    BY <1>5, <2>1 DEF WalkOf
<1>8. r[i] = q[i] /\ r[i + 1] = q[j]
  <2>1. i \in 0..i /\ i + 1 \in (i + 1)..l /\ (i + 1) + d = j
    BY <1>1
  <2> QED
    BY <1>5, <2>1
<1>9. ASSUME NEW k \in 1..l
      PROVE  Linked(g, r[k - 1], r[k])
  <2>1. CASE k <= i
    <3>1. k - 1 \in 0..i /\ k \in 0..i /\ k \in 1..n
      BY <1>1, <2>1
    <3> QED
      BY <1>5, <3>1 DEF WalkOf, IsWalk
  <2>2. CASE k = i + 1
    <3>1. k - 1 = i
      BY <1>1, <2>2
    <3> QED
      BY <1>8, <2>2, <3>1
  <2>3. CASE k > i + 1
    <3>1. k - 1 \in (i + 1)..l /\ k \in (i + 1)..l /\ k + d \in 1..n /\ (k + d) - 1 = (k - 1) + d
      BY <1>1, <2>3
    <3> QED
      BY <1>5, <3>1 DEF WalkOf, IsWalk
  <2> QED
    BY <2>1, <2>2, <2>3
<1>10. ASSUME NEW k \in 1..(l - 1), r[k] \in T
      PROVE  r[k - 1] \in g[r[k]] /\ r[k + 1] \in g[r[k]]
  <2>1. CASE k < i
    <3>1. k - 1 \in 0..i /\ k \in 0..i /\ k + 1 \in 0..i
                                    /\ k \in 1..(n - 1)
      BY <2>1
    <3> QED
      BY <1>5, <1>10, <3>1 DEF WalkOf, IsWalk
  <2>2. CASE k = i
    <3>1. i - 1 \in 0..i /\ i # 0
      BY <1>1, <2>2
    <3> QED
      BY <1>5, <1>8, <1>10, <2>2, <3>1
  <2>3. CASE k = i + 1
    <3>1. k - 1 = i /\ k + 1 \in (i + 1)..l /\ (k + 1) + d = j + 1 /\ j # n
      BY <1>1, <2>3
    <3> QED
      BY <1>5, <1>8, <1>10, <2>3, <3>1
  <2>4. CASE k > i + 1
    <3>1. /\ k - 1 \in (i + 1)..l /\ k \in (i + 1)..l /\ k + 1 \in (i + 1)..l
          /\ k + d \in 1..(n - 1)
          /\ (k + d) - 1 = (k - 1) + d /\ (k + d) + 1 = (k + 1) + d
      BY <1>1, <2>4
    <3>2. r[k - 1] = q[(k + d) - 1] /\ r[k] = q[k + d] /\ r[k + 1] = q[(k + d) + 1]
      BY <1>5, <3>1
    <3> QED
      BY <1>10, <3>1, <3>2 DEF WalkOf, IsWalk
  <2> QED
    BY <2>1, <2>2, <2>3, <2>4
<1>11. IsWalk(g, T, r, l, "any", "any")
  BY <1>9, <1>10 DEF IsWalk
<1> QED
  BY <1>2, <1>6, <1>7, <1>11 DEF WalkOf

(* The shortest walk between two different vertices.                       *)
LEMMA ShortestWalk ==
  ASSUME NEW g, NEW T, NEW A, NEW x, NEW y, x # y, Walks(g, T, A, x, y, "any", "any")
  PROVE  \E n \in Nat \ {0} : \E q :
           /\ WalkOf(g, T, A, x, y, n, q)
           /\ \A m \in Nat \ {0} : \A r : WalkOf(g, T, A, x, y, m, r) => n <= m
           /\ \A i, j \in 0..n : q[i] = q[j] => i = j
<1> DEFINE L == {n \in Nat \ {0} : \E q : WalkOf(g, T, A, x, y, n, q)}
<1>1. L \in SUBSET Nat /\ L # {}
  BY DEF Walks, WalkOf
<1>2. PICK n \in L : \A m \in L : n <= m
  <2> HIDE DEF L
  <2> QED
    BY <1>1, MinOfNaturals
<1>3. n \in Nat \ {0}
  OBVIOUS
<1>4. PICK q : WalkOf(g, T, A, x, y, n, q)
  OBVIOUS
<1>5. ASSUME NEW m \in Nat \ {0}, NEW r, WalkOf(g, T, A, x, y, m, r)
      PROVE  n <= m
  <2>1. m \in L
    BY <1>5
  <2> HIDE DEF L
  <2> QED
    BY <1>2, <2>1
<1> HIDE DEF L
<1>6. ASSUME NEW i \in 0..n, NEW j \in 0..n, i < j, q[i] = q[j]
      PROVE  FALSE
  <2>1. CASE j = n
    <3>1. i # 0
      BY <1>4, <1>6, <2>1 DEF WalkOf
    <3> DEFINE r == [k \in 0..i |-> q[k]]
    <3>2. \A k \in 0..i : k \in 0..n /\ r[k] = q[k]
      BY <1>3
    <3>3. r \in [0..i -> A]
      BY <1>4, <3>2 DEF WalkOf
    <3> HIDE DEF r
    <3>4. /\ \A k \in 1..i : k \in 0..i /\ k - 1 \in 0..i /\ k \in 1..n
          /\ \A k \in 1..(i - 1) : k \in 0..i /\ k - 1 \in 0..i /\ k + 1 \in 0..i
                                    /\ k \in 1..(n - 1)
          /\ 0 \in 0..i /\ i \in 0..i
      BY <1>3
    <3>5. IsWalk(g, T, r, i, "any", "any")
      BY <1>4, <3>2, <3>4 DEF WalkOf, IsWalk
    <3>6. WalkOf(g, T, A, x, y, i, r)
      BY <1>4, <1>6, <2>1, <3>2, <3>3, <3>4, <3>5 DEF WalkOf
    <3>7. i \in Nat \ {0} /\ ~(n <= i)
      BY <1>3, <1>6, <2>1, <3>1
    <3> QED
      BY <1>5, <3>6, <3>7
  <2>2. CASE j # n
    <3> DEFINE j1 == j + 1
               l == n - (j - i)
    <3>1. /\ i \in Nat /\ j1 \in Nat /\ i < j1 /\ j1 <= n /\ j1 \in 1..n /\ j1 - 1 = j
          /\ l \in Nat /\ l + j1 = n + i + 1 /\ ~(n <= l)
      BY <1>3, <1>6, <2>2
    <3>2. Linked(g, q[i], q[j1])
      BY <1>4, <1>6, <3>1 DEF WalkOf, IsWalk
    <3>3. ASSUME i # 0, q[i] \in T
          PROVE  q[i - 1] \in g[q[i]] /\ q[j1] \in g[q[i]]
      <4>1. i \in 1..(n - 1) /\ j \in 1..(n - 1)
        BY <1>3, <1>6, <2>2, <3>3
      <4> QED
        BY <1>4, <1>6, <3>3, <4>1 DEF WalkOf, IsWalk
    <3>4. ASSUME j1 # n, q[j1] \in T
          PROVE  q[i] \in g[q[j1]] /\ q[j1 + 1] \in g[q[j1]]
      <4>1. j1 \in 1..(n - 1)
        BY <1>3, <3>1, <3>4
      <4> QED
        BY <1>4, <1>6, <3>1, <3>4, <4>1 DEF WalkOf, IsWalk
    <3>5. i # 0 /\ q[i] \in T => q[i - 1] \in g[q[i]] /\ q[j1] \in g[q[i]]
      BY <3>3
    <3>6. j1 # n /\ q[j1] \in T => q[i] \in g[q[j1]] /\ q[j1 + 1] \in g[q[j1]]
      BY <3>4
    <3> HIDE DEF j1, l
    <3>7. l \in Nat \ {0} /\ \E r : WalkOf(g, T, A, x, y, l, r)
      BY <1>3, <1>4, <3>1, <3>2, <3>5, <3>6, Shortcut
    <3> QED
      BY <1>5, <3>1, <3>7
  <2> QED
    BY <2>1, <2>2
<1>7. ASSUME NEW i \in 0..n, NEW j \in 0..n, q[i] = q[j]
      PROVE  i = j
  <2>1. i < j \/ j < i \/ i = j
    BY <1>3
  <2> QED
    BY <1>6, <1>7, <2>1
<1> QED
  BY <1>3, <1>4, <1>5, <1>7

(* No vertex of a DAG is a parent of itself, or parent and child of        *)
(* another, or on a triangle that is a cycle.                              *)
LEMMA DagBasics ==
  ASSUME NEW g, IsDag(g)
  PROVE  /\ IsFiniteSet(DOMAIN g) /\ g \in ParentMaps(DOMAIN g) /\ Acyclic(g)
         /\ \A v \in DOMAIN g : g[v] \subseteq DOMAIN g
         /\ \A v \in DOMAIN g : v \notin g[v]
         /\ \A x, y \in DOMAIN g : x \in g[y] => y \notin g[x]
         /\ \A x, y, z \in DOMAIN g : x \in g[y] /\ y \in g[z] => z \notin g[x]
<1>1. IsFiniteSet(DOMAIN g) /\ g \in ParentMaps(DOMAIN g) /\ Acyclic(g)
  BY DEF IsDag, Dags
<1>2. \A v \in DOMAIN g : g[v] \subseteq DOMAIN g
  BY <1>1 DEF ParentMaps
<1>3. ASSUME NEW x \in DOMAIN g, NEW y \in DOMAIN g, NEW z \in DOMAIN g,
             x \in g[y], y \in g[z], z \in g[x]
      PROVE  FALSE
  <2>1. {x, y, z} \in SUBSET DOMAIN g /\ {x, y, z} # {}
    OBVIOUS
  <2>2. PICK i \in {x, y, z} : g[i] \cap {x, y, z} = {}
    BY <1>1, <2>1 DEF Acyclic
  <2> QED
    BY <1>3, <2>2
<1>4. ASSUME NEW x \in DOMAIN g, NEW y \in DOMAIN g, x \in g[y], y \in g[x]
      PROVE  FALSE
  <2>1. {x, y} \in SUBSET DOMAIN g /\ {x, y} # {}
    OBVIOUS
  <2>2. PICK i \in {x, y} : g[i] \cap {x, y} = {}
    BY <1>1, <2>1 DEF Acyclic
  <2> QED
    BY <1>4, <2>2
<1>5. \A v \in DOMAIN g : v \notin g[v]
  BY <1>4
<1> QED
  BY <1>1, <1>2, <1>3, <1>4, <1>5

(* The ancestors of some vertices.                                         *)
LEMMA AncestorFacts ==
  ASSUME NEW g, IsDag(g), NEW seeds \in SUBSET DOMAIN g
  PROVE  /\ seeds \subseteq AncestorsOrSelf(g, seeds)
         /\ AncestorsOrSelf(g, seeds) \subseteq DOMAIN g
         /\ \A v \in AncestorsOrSelf(g, seeds) : g[v] \subseteq AncestorsOrSelf(g, seeds)
         /\ \A C \in SUBSET DOMAIN g :
              seeds \subseteq C /\ (\A v \in C : g[v] \subseteq C)
                => AncestorsOrSelf(g, seeds) \subseteq C
BY DagBasics, AncestorsAre

(* The ancestors of ancestors are ancestors.                               *)
LEMMA AncestorsOfAncestors ==
  ASSUME NEW g, IsDag(g), NEW X \in SUBSET DOMAIN g, NEW Y \in SUBSET AncestorsOrSelf(g, X)
  PROVE  Y \in SUBSET DOMAIN g /\ AncestorsOrSelf(g, Y) \subseteq AncestorsOrSelf(g, X)
<1>1. AncestorsOrSelf(g, X) \in SUBSET DOMAIN g /\ Y \in SUBSET DOMAIN g
  BY AncestorFacts
<1> QED
  BY <1>1, AncestorFacts

(* An ancestor of some vertices that is none of them has a child that is   *)
(* also one of their ancestors.                                            *)
LEMMA AncestorHasChild ==
  ASSUME NEW g, IsDag(g), NEW X \in SUBSET DOMAIN g, NEW v \in AncestorsOrSelf(g, X) \ X
  PROVE  \E c \in AncestorsOrSelf(g, X) : v \in g[c]
<1> DEFINE U == AncestorsOrSelf(g, X)
           C == U \ {v}
<1> SUFFICES ASSUME \A c \in U : v \notin g[c]
             PROVE  FALSE
  OBVIOUS
<1>1. X \subseteq U /\ U \subseteq DOMAIN g /\ \A x \in U : g[x] \subseteq U
  BY AncestorFacts
<1>2. C \in SUBSET DOMAIN g /\ X \subseteq C /\ \A x \in C : g[x] \subseteq C
  BY <1>1
<1>3. U \subseteq C
  <2> HIDE DEF C
  <2> QED
    BY <1>2, AncestorFacts
<1> QED
  BY <1>3

(* No common child of two vertices is an ancestor of one of them.          *)
LEMMA NoChildAbove ==
  ASSUME NEW g, IsDag(g), NEW a \in DOMAIN g, NEW b \in DOMAIN g,
         NEW c \in AncestorsOrSelf(g, {a, b}), a \in g[c], b \in g[c]
  PROVE  FALSE
<1> DEFINE U == AncestorsOrSelf(g, {a, b})
           W == {v \in U : c \in AncestorsOrSelf(g, {v})}
<1>1. {a, b} \in SUBSET DOMAIN g /\ U \subseteq DOMAIN g
  BY AncestorFacts
<1>2. c \in W
  <2>1. {c} \in SUBSET DOMAIN g
    BY <1>1
  <2> QED
    BY <2>1, AncestorFacts
<1>3. PICK v \in W : \A d \in W : v \notin g[d]
  <2>1. W \in SUBSET DOMAIN g /\ W # {}
    BY <1>1, <1>2
  <2> HIDE DEF W
  <2> QED
    BY <2>1, DagBasics, SinkExists
<1>4. v # a /\ v # b
  BY <1>2, <1>3
<1>5. PICK d \in U : v \in g[d]
  BY <1>1, <1>4, AncestorHasChild
<1>6. c \in AncestorsOrSelf(g, {d})
  <2>1. {d} \in SUBSET DOMAIN g
    BY <1>1
  <2>2. {v} \in SUBSET AncestorsOrSelf(g, {d})
    BY <1>5, <2>1, AncestorFacts
  <2> QED
    BY <2>1, <2>2, AncestorsOfAncestors
<1> QED
  BY <1>3, <1>5, <1>6

(* A sequence between two vertices.                                        *)
LEMMA BetweenTwo ==
  ASSUME NEW k \in Nat, NEW D, NEW s \in [1..k -> D], NEW a, NEW b, NEW w, w = <<a>> \o s \o <<b>>
  PROVE  /\ Len(s) = k /\ Len(w) = k + 2
         /\ w[1] = a /\ w[k + 2] = b
         /\ \A j \in 1..k : w[j + 1] = s[j]
<1>1. s \in Seq(D) /\ Len(s) = k
  OBVIOUS
<1> DEFINE V == D \cup {a, b}
<1>2. s \in Seq(V) /\ <<a>> \in Seq(V) /\ <<b>> \in Seq(V)
  BY <1>1
<1>3. Len(<<a>>) = 1 /\ Len(<<b>>) = 1 /\ <<a>>[1] = a /\ <<b>>[1] = b
  OBVIOUS
<1> DEFINE u == <<a>> \o s
<1>4. u \in Seq(V) /\ Len(u) = k + 1 /\ u[1] = a /\ \A j \in 1..k : u[j + 1] = s[j]
  BY <1>1, <1>2, <1>3
<1>5. w = u \o <<b>>
  OBVIOUS
<1> HIDE DEF u, V
<1>6. /\ Len(w) = k + 2 /\ w[k + 2] = b /\ \A j \in 1..(k + 1) : w[j] = u[j]
  BY <1>2, <1>3, <1>4, <1>5
<1>7. 1 \in 1..(k + 1) /\ \A j \in 1..k : j + 1 \in 1..(k + 1)
  OBVIOUS
<1> QED
  BY <1>1, <1>4, <1>6, <1>7

(* There is such a walk among the ancestors of the two.                    *)
Reaches(g, T, x, y, into, onto) ==
  Walks(g, T, AncestorsOrSelf(g, {x, y}), x, y, into, onto)

(* d-convexity in terms of walks.                                          *)
WalkConvex(g, T) ==
  \A x, y \in T : x # y /\ Reaches(g, T, x, y, "any", "any") => Linked(g, x, y)

(* All vertices of an inducing path are ancestors of its ends.             *)
LEMMA InducingPathIsWalk ==
  ASSUME NEW g, IsDag(g), NEW T \in SUBSET DOMAIN g, NEW a \in T, NEW b \in T,
         InducingPath(g, T, a, b)
  PROVE  Reaches(g, T, a, b, "any", "any")
<1> DEFINE U == AncestorsOrSelf(g, {a, b})
           V == DOMAIN g
           Collider(q, j) == {q[j - 1], q[j + 1]} \subseteq g[q[j]]
<1>1. \E k \in 1..Cardinality(V) - 2 : \E s \in [1..k -> V \ {a, b}] :
        LET q == <<a>> \o s \o <<b>>
        IN  /\ \A j \in 1..Len(q) - 1 : Linked(g, q[j], q[j + 1])
            /\ \A j \in 2..Len(q) - 1 :
                 /\ q[j] \in T => Collider(q, j)
                 /\ Collider(q, j) => q[j] \in U
  BY DEF InducingPath
<1>2. Cardinality(V) \in Nat
  BY DagBasics, FS_CardinalityType
<1>3. PICK k \in 1..Cardinality(V) - 2 : \E s \in [1..k -> V \ {a, b}] :
        LET q == <<a>> \o s \o <<b>>
        IN  /\ \A j \in 1..Len(q) - 1 : Linked(g, q[j], q[j + 1])
            /\ \A j \in 2..Len(q) - 1 :
                 /\ q[j] \in T => Collider(q, j)
                 /\ Collider(q, j) => q[j] \in U
  BY <1>1
<1>4. PICK s \in [1..k -> V \ {a, b}] :
        LET q == <<a>> \o s \o <<b>>
        IN  /\ \A j \in 1..Len(q) - 1 : Linked(g, q[j], q[j + 1])
            /\ \A j \in 2..Len(q) - 1 :
                 /\ q[j] \in T => Collider(q, j)
                 /\ Collider(q, j) => q[j] \in U
  BY <1>3
<1> DEFINE w == <<a>> \o s \o <<b>>
<1>5. k \in Nat /\ k >= 1
  BY <1>2
<1>6. /\ Len(w) = k + 2 /\ w[1] = a /\ w[k + 2] = b
      /\ \A j \in 1..k : w[j + 1] = s[j]
  <2>1. w = <<a>> \o s \o <<b>>
    OBVIOUS
  <2> HIDE DEF w
  <2> QED
    BY <1>5, <2>1, BetweenTwo
<1>7. /\ \A j \in 1..(k + 1) : Linked(g, w[j], w[j + 1])
      /\ \A j \in 2..(k + 1) : (w[j] \in T => Collider(w, j)) /\ (Collider(w, j) => w[j] \in U)
  <2>1. Len(w) - 1 = k + 1
    BY <1>5, <1>6
  <2>2. /\ \A j \in 1..Len(w) - 1 : Linked(g, w[j], w[j + 1])
        /\ \A j \in 2..Len(w) - 1 : (w[j] \in T => Collider(w, j)) /\ (Collider(w, j) => w[j] \in U)
    BY <1>4
  <2> HIDE DEF w, Collider, U
  <2> QED
    BY <2>1, <2>2
<1> HIDE DEF w
<1>8. a \in U /\ b \in U /\ U \subseteq V /\ \A v \in U : g[v] \subseteq U
  <2>1. {a, b} \in SUBSET V
    OBVIOUS
  <2> QED
    BY <2>1, AncestorFacts
<1>9. ASSUME NEW j \in 1..(k + 2)
      PROVE  w[j] \in V
  <2>1. j = 1 \/ j = k + 2 \/ (j - 1 \in 1..k /\ j = (j - 1) + 1)
    BY <1>5
  <2>2. a \in V /\ b \in V
    OBVIOUS
  <2> QED
    BY <1>6, <2>1, <2>2
<1>10. \A j \in 1..(k + 2) : w[j] \in U
  <2> DEFINE W == {w[j] : j \in {j \in 1..(k + 2) : w[j] \notin U}}
  <2> SUFFICES ASSUME W # {}
               PROVE  FALSE
    OBVIOUS
  <2>1. W \in SUBSET V
    BY <1>9
  <2>2. PICK v \in W : \A d \in W : v \notin g[d]
    <3> HIDE DEF W
    <3> QED
      BY <2>1, DagBasics, SinkExists
  <2>3. PICK j \in 1..(k + 2) : v = w[j] /\ w[j] \notin U
    OBVIOUS
  <2>4. /\ j \in 2..(k + 1) /\ j \in 1..(k + 1) /\ j - 1 \in 1..(k + 1) /\ (j - 1) + 1 = j
        /\ j - 1 \in 1..(k + 2) /\ j + 1 \in 1..(k + 2)
    <3>1. j # 1 /\ j # k + 2
      BY <1>6, <1>8, <2>3
    <3> QED
      BY <1>5, <3>1
  <2>5. Linked(g, w[j - 1], w[j]) /\ Linked(g, w[j], w[j + 1])
    BY <1>7, <2>4
  <2>6. ~Collider(w, j)
    BY <1>7, <2>3, <2>4
  <2>7. ASSUME NEW i \in 1..(k + 2), v \in g[w[i]]
        PROVE  FALSE
    <3>1. w[i] \notin W
      BY <2>2, <2>7
    <3>2. w[i] \in U
      BY <3>1
    <3> QED
      BY <1>8, <2>3, <2>7, <3>2
  <2> QED
    BY <2>3, <2>4, <2>5, <2>6, <2>7 DEF Linked
<1> DEFINE q == [j \in 0..(k + 1) |-> w[j + 1]]
           n == k + 1
<1>11. q \in [0..n -> U] /\ q[0] = a /\ q[n] = b /\ \A j \in 0..n : q[j] = w[j + 1]
  <2>1. /\ 0 \in 0..(k + 1) /\ k + 1 \in 0..(k + 1) /\ 0 + 1 = 1 /\ (k + 1) + 1 = k + 2
        /\ \A j \in 0..(k + 1) : j + 1 \in 1..(k + 2)
    BY <1>5
  <2> HIDE DEF U
  <2> QED
    BY <1>6, <1>10, <2>1
<1>12. n \in Nat \ {0} /\ n = k + 1
  BY <1>5
<1> HIDE DEF q, n
<1>13. ASSUME NEW j \in 1..n
       PROVE  Linked(g, q[j - 1], q[j])
  <2>1. j - 1 \in 0..n /\ j \in 0..n /\ (j - 1) + 1 = j /\ j \in 1..(k + 1)
    BY <1>12
  <2> QED
    BY <1>7, <1>11, <2>1
<1>14. ASSUME NEW j \in 1..(n - 1), q[j] \in T
       PROVE  q[j - 1] \in g[q[j]] /\ q[j + 1] \in g[q[j]]
  <2> DEFINE i == j + 1
  <2>1. /\ j - 1 \in 0..n /\ j \in 0..n /\ j + 1 \in 0..n /\ i \in 2..(k + 1)
        /\ (j - 1) + 1 = i - 1 /\ (j + 1) + 1 = i + 1
    BY <1>5, <1>12
  <2>2. q[j - 1] = w[i - 1] /\ q[j] = w[i] /\ q[j + 1] = w[i + 1]
    BY <1>11, <2>1
  <2> HIDE DEF i
  <2>3. Collider(w, i)
    BY <1>7, <1>14, <2>1, <2>2
  <2> QED
    BY <2>2, <2>3
<1>15. IsWalk(g, T, q, n, "any", "any")
  BY <1>13, <1>14 DEF IsWalk
<1> QED
  BY <1>11, <1>12, <1>15 DEF Reaches, Walks

(* The shortest walk between two members that are not linked is an         *)
(* inducing path.                                                          *)
LEMMA WalkIsInducingPath ==
  ASSUME NEW g, IsDag(g), NEW T \in SUBSET DOMAIN g, NEW a \in T, NEW b \in T, a # b,
         ~Linked(g, a, b), Reaches(g, T, a, b, "any", "any")
  PROVE  InducingPath(g, T, a, b)
<1> DEFINE U == AncestorsOrSelf(g, {a, b})
           V == DOMAIN g
<1>1. a \in U /\ b \in U /\ U \subseteq V
  <2>1. {a, b} \in SUBSET V
    OBVIOUS
  <2> QED
    BY <2>1, AncestorFacts
<1> HIDE DEF U
<1>2. PICK n \in Nat \ {0} : \E q :
           /\ WalkOf(g, T, U, a, b, n, q)
           /\ \A m \in Nat \ {0} : \A r : WalkOf(g, T, U, a, b, m, r) => n <= m
           /\ \A i, j \in 0..n : q[i] = q[j] => i = j
  <2>1. Walks(g, T, U, a, b, "any", "any")
    BY DEF Reaches, U
  <2> QED
    BY <2>1, ShortestWalk
<1>3. PICK q : WalkOf(g, T, U, a, b, n, q) /\ \A i, j \in 0..n : q[i] = q[j] => i = j
  BY <1>2
<1>4. n # 1
  <2>1. ASSUME n = 1
        PROVE  FALSE
    <3>1. Linked(g, q[0], q[1]) /\ q[0] = a /\ q[1] = b
      <4>1. 1 \in 1..n /\ 1 - 1 = 0
        BY <2>1
      <4> QED
        BY <1>3, <2>1, <4>1 DEF WalkOf, IsWalk
    <3> QED
      BY <3>1
  <2> QED
    BY <2>1
<1> DEFINE k == n - 1
           s == [j \in 1..k |-> q[j]]
           w == <<a>> \o s \o <<b>>
<1>5. k \in Nat /\ k >= 1 /\ n = k + 1
  BY <1>4
<1>6. /\ \A j \in 1..k : q[j] \in V \ {a, b}
      /\ q \in [0..n -> U]
  <2>1. q \in [0..n -> U] /\ q[0] = a /\ q[n] = b
    BY <1>3 DEF WalkOf
  <2>2. \A j \in 1..k : j \in 0..n /\ j # 0 /\ j # n /\ 0 \in 0..n /\ n \in 0..n
    BY <1>5
  <2> QED
    BY <1>1, <1>3, <2>1, <2>2
<1>7. s \in [1..k -> V \ {a, b}] /\ \A j \in 1..k : s[j] = q[j]
  BY <1>6
<1>8. /\ Len(s) = k /\ Len(w) = k + 2 /\ w[1] = a /\ w[k + 2] = b
      /\ \A j \in 1..k : w[j + 1] = s[j]
  <2>1. w = <<a>> \o s \o <<b>>
    OBVIOUS
  <2> HIDE DEF w, s, k
  <2> QED
    BY <1>5, <1>7, <2>1, BetweenTwo
<1> HIDE DEF k, s, w
<1>9. IsInjectiveSeq(s)
  <2>1. \A j \in 1..k : j \in 0..n
    BY <1>5
  <2> QED
    BY <1>3, <1>7, <1>8, <2>1 DEF IsInjectiveSeq
<1>10. k \in 1..Cardinality(V) - 2
  <2>1. s \in Seq(V \ {a, b})
    BY <1>5, <1>7
  <2>2. IsFiniteSet(Elems(s)) /\ Cardinality(Elems(s)) = k
    BY <1>8, <1>9, <2>1, InjectiveSeqCardinality
  <2>3. Elems(s) \subseteq V \ {a, b}
    BY <1>7, <1>8 DEF Elems
  <2>4. /\ IsFiniteSet(V) /\ IsFiniteSet(V \ {a}) /\ IsFiniteSet((V \ {a}) \ {b})
        /\ Cardinality(V) \in Nat /\ Cardinality(V \ {a}) = Cardinality(V) - 1
        /\ Cardinality((V \ {a}) \ {b}) = Cardinality(V \ {a}) - 1
    <3>1. IsFiniteSet(V) /\ a \in V /\ b \in V \ {a}
      BY DagBasics
    <3> HIDE DEF V
    <3> QED
      BY <3>1, FS_RemoveElement, FS_CardinalityType
  <2>5. V \ {a, b} = (V \ {a}) \ {b}
    OBVIOUS
  <2>6. k <= Cardinality((V \ {a}) \ {b})
    <3>1. Elems(s) \subseteq (V \ {a}) \ {b}
      BY <2>3, <2>5
    <3> QED
      BY <2>2, <2>4, <3>1, FS_Subset
  <2> QED
    BY <1>5, <2>4, <2>6
<1>11. \A j \in 0..n : w[j + 1] = q[j]
  <2> TAKE j \in 0..n
  <2>1. CASE j = 0
    BY <1>3, <1>8, <2>1 DEF WalkOf
  <2>2. CASE j = n
    <3>1. j + 1 = k + 2
      BY <1>5, <2>2
    <3> QED
      BY <1>3, <1>8, <2>2, <3>1 DEF WalkOf
  <2>3. CASE j # 0 /\ j # n
    <3>1. j \in 1..k
      BY <1>5, <2>3
    <3> QED
      BY <1>7, <1>8, <3>1
  <2> QED
    BY <2>1, <2>2, <2>3
<1>12. ASSUME NEW j \in 1..Len(w) - 1
       PROVE  Linked(g, w[j], w[j + 1])
  <2>1. j \in 1..n /\ j - 1 \in 0..n /\ j \in 0..n /\ (j - 1) + 1 = j
    BY <1>5, <1>8
  <2>2. w[j] = q[j - 1] /\ w[j + 1] = q[j]
    BY <1>11, <2>1
  <2> QED
    BY <1>3, <2>1, <2>2 DEF WalkOf, IsWalk
<1>13. ASSUME NEW j \in 2..Len(w) - 1
       PROVE  /\ w[j] \in T => {w[j - 1], w[j + 1]} \subseteq g[w[j]]
              /\ w[j] \in U
  <2> DEFINE i == j - 1
  <2>1. /\ i \in 1..(n - 1) /\ i - 1 \in 0..n /\ i \in 0..n /\ i + 1 \in 0..n
        /\ (i - 1) + 1 = j - 1 /\ i + 1 = j /\ (i + 1) + 1 = j + 1
    BY <1>5, <1>8
  <2>2. w[j - 1] = q[i - 1] /\ w[j] = q[i] /\ w[j + 1] = q[i + 1]
    BY <1>11, <2>1
  <2> HIDE DEF i
  <2>3. q[i] \in T => q[i - 1] \in g[q[i]] /\ q[i + 1] \in g[q[i]]
    BY <1>3, <2>1 DEF WalkOf, IsWalk
  <2> QED
    BY <1>6, <2>1, <2>2, <2>3
<1> QED
  BY <1>7, <1>9, <1>10, <1>12, <1>13 DEF InducingPath, U, V, w

(* A set is d-convex if and only if no two members that are not linked     *)
(* have a walk between them.                                               *)
THEOREM DConvexIsWalkConvex ==
  ASSUME NEW g, IsDag(g), DOMAIN g \in SUBSET Nat, NEW T \in SUBSET DOMAIN g
  PROVE  DConvex(g, T) <=> WalkConvex(g, T)
<1>1. ASSUME WalkConvex(g, T)
      PROVE  DConvex(g, T)
  <2>1. ASSUME NEW a \in T, NEW b \in T, a < b, ~Linked(g, a, b), InducingPath(g, T, a, b)
        PROVE  FALSE
    <3>1. a # b
      BY <2>1
    <3> QED
      BY <1>1, <2>1, <3>1, InducingPathIsWalk DEF WalkConvex
  <2> QED
    BY <2>1 DEF DConvex
<1>2. ASSUME DConvex(g, T)
      PROVE  WalkConvex(g, T)
  <2>1. ASSUME NEW a \in T, NEW b \in T, a < b, Reaches(g, T, a, b, "any", "any")
        PROVE  Linked(g, a, b)
    <3>1. a # b
      BY <2>1
    <3> QED
      BY <1>2, <2>1, <3>1, WalkIsInducingPath DEF DConvex
  <2>2. ASSUME NEW a \in T, NEW b \in T, a # b, Reaches(g, T, a, b, "any", "any")
        PROVE  Linked(g, a, b)
    <3>1. CASE a < b
      BY <2>1, <2>2, <3>1
    <3>2. CASE b < a
      <4>1. {a, b} = {b, a}
        OBVIOUS
      <4>2. Reaches(g, T, b, a, "any", "any")
        BY <2>2, <4>1, WalkBack DEF Reaches
      <4> QED
        BY <2>1, <3>2, <4>2 DEF Linked
    <3> QED
      BY <2>2, <3>1, <3>2
  <2> QED
    BY <2>2 DEF WalkConvex
<1> QED
  BY <1>1, <1>2
------------------------------------------------------------------------------
(***************************************************************************)
(* Walks and the moral graph.                                              *)
(*                                                                         *)
(* Where a walk leaves the set, the stretch outside of it is bridged by a  *)
(* path in the moral graph of the ancestors of its ends, and such a path   *)
(* that leaves the set between two members that are not linked is one the  *)
(* closure has to absorb.                                                  *)
(***************************************************************************)

(* From v, which is not in T, a walk leads to the member t of T among the  *)
(* ancestors of t, with an arrowhead there.                                *)
Falls(g, T, v, t) ==
  /\ v \notin T /\ t \in T
  /\ Walks(g, T, AncestorsOrSelf(g, {t}), v, t, "any", "arrow")

(* The ends of a walk are among its vertices.                              *)
LEMMA WalkEnds ==
  ASSUME NEW g, NEW T, NEW A, NEW x, NEW y, NEW into, NEW onto,
         Walks(g, T, A, x, y, into, onto)
  PROVE  x \in A /\ y \in A
<1>1. PICK n \in Nat \ {0} : \E q \in [0..n -> A] :
        q[0] = x /\ q[n] = y /\ IsWalk(g, T, q, n, into, onto)
  BY DEF Walks
<1>2. PICK q \in [0..n -> A] : q[0] = x /\ q[n] = y
  BY <1>1
<1> QED
  BY <1>2

(* A parent outside T falls on a child in T.                               *)
LEMMA FallsOnChild ==
  ASSUME NEW g, IsDag(g), NEW T \in SUBSET DOMAIN g, NEW v \in DOMAIN g \ T,
         NEW t \in T, v \in g[t]
  PROVE  Falls(g, T, v, t)
<1> DEFINE U == AncestorsOrSelf(g, {t})
<1>1. t \in U /\ v \in U
  <2>1. {t} \in SUBSET DOMAIN g
    OBVIOUS
  <2> QED
    BY <2>1, AncestorFacts
<1>2. Linked(g, v, t)
  BY DEF Linked
<1> HIDE DEF U
<1>3. Walks(g, T, U, v, t, "any", "arrow")
  BY <1>1, <1>2, EdgeIsWalk
<1> QED
  BY <1>3 DEF Falls, U

(* A parent outside T falls wherever its child falls.                      *)
LEMMA FallsWithChild ==
  ASSUME NEW g, IsDag(g), NEW T \in SUBSET DOMAIN g, NEW x \in DOMAIN g \ T, NEW v \in DOMAIN g,
         x \in g[v], NEW t, Falls(g, T, v, t)
  PROVE  Falls(g, T, x, t)
<1> DEFINE U == AncestorsOrSelf(g, {t})
<1>1. {t} \in SUBSET DOMAIN g /\ v \notin T /\ t \in T
  BY DEF Falls
<1>2. Walks(g, T, U, v, t, "any", "arrow")
  BY DEF Falls
<1>3. v \in U
  BY <1>2, WalkEnds
<1>4. x \in U
  BY <1>1, <1>3, AncestorFacts
<1>5. Linked(g, x, v)
  BY DEF Linked
<1> HIDE DEF U
<1>6. Walks(g, T, U, x, v, "any", "any")
  BY <1>3, <1>4, <1>5, EdgeIsWalk
<1>7. Walks(g, T, U, x, t, "any", "arrow")
  BY <1>1, <1>2, <1>6, WalksJoin
<1> QED
  BY <1>1, <1>7 DEF Falls, U

(* Every ancestor of members of T falls on one of their ancestors.         *)
LEMMA Falling ==
  ASSUME NEW g, IsDag(g), NEW T \in SUBSET DOMAIN g, NEW p \in SUBSET T,
         NEW v \in AncestorsOrSelf(g, p) \ T
  PROVE  \E t \in T \cap AncestorsOrSelf(g, p) : Falls(g, T, v, t)
<1> DEFINE A == AncestorsOrSelf(g, p)
           B == {x \in A \ T : \A t \in T \cap A : ~Falls(g, T, x, t)}
<1>1. p \in SUBSET DOMAIN g /\ A \subseteq DOMAIN g
  BY AncestorFacts
<1> SUFFICES ASSUME B # {}
             PROVE  FALSE
  OBVIOUS
<1>2. PICK x \in B : \A c \in B : x \notin g[c]
  <2>1. B \in SUBSET DOMAIN g
    BY <1>1
  <2> HIDE DEF B
  <2> QED
    BY <2>1, DagBasics, SinkExists
<1>3. PICK c \in A : x \in g[c]
  BY <1>1, AncestorHasChild
<1>4. x \in DOMAIN g \ T /\ c \in DOMAIN g
  BY <1>1
<1>5. CASE c \in T
  BY <1>3, <1>4, <1>5, FallsOnChild
<1>6. CASE c \notin T
  <2>1. PICK t \in T \cap A : Falls(g, T, c, t)
    BY <1>2, <1>3, <1>6
  <2> QED
    BY <1>3, <1>4, <2>1, FallsWithChild
<1> QED
  BY <1>5, <1>6

(* Two members of T that a vertex falls on have a walk between them, with  *)
(* arrowheads at both.                                                     *)
LEMMA Trek ==
  ASSUME NEW g, IsDag(g), NEW T \in SUBSET DOMAIN g, NEW v, NEW t, NEW u,
         Falls(g, T, v, t), Falls(g, T, v, u)
  PROVE  Reaches(g, T, t, u, "arrow", "arrow")
<1> DEFINE U == AncestorsOrSelf(g, {t, u})
           Ut == AncestorsOrSelf(g, {t})
           Uu == AncestorsOrSelf(g, {u})
<1>1. {t, u} \in SUBSET DOMAIN g /\ v \notin T
  BY DEF Falls
<1>2. {t} \in SUBSET U /\ {u} \in SUBSET U
  BY <1>1, AncestorFacts
<1>3. Ut \subseteq U /\ Uu \subseteq U
  BY <1>1, <1>2, AncestorsOfAncestors
<1>4. Walks(g, T, Ut, v, t, "any", "arrow") /\ Walks(g, T, Uu, v, u, "any", "arrow")
  BY DEF Falls
<1> HIDE DEF U, Ut, Uu
<1>5. Walks(g, T, Ut, t, v, "arrow", "any")
  BY <1>4, WalkBack
<1>6. Walks(g, T, U, t, v, "arrow", "any") /\ Walks(g, T, U, v, u, "any", "arrow")
  BY <1>3, <1>4, <1>5, WalkWidens
<1>7. Walks(g, T, U, t, u, "arrow", "arrow")
  BY <1>1, <1>6, WalksJoin
<1> QED
  BY <1>7 DEF Reaches, U

(* A parent of a vertex has a walk to wherever that falls.                 *)
LEMMA ParentReaches ==
  ASSUME NEW g, IsDag(g), NEW T \in SUBSET DOMAIN g, NEW y \in DOMAIN g, NEW v \in DOMAIN g,
         y \in g[v], NEW t, Falls(g, T, v, t)
  PROVE  Reaches(g, T, y, t, "any", "arrow")
<1> DEFINE U == AncestorsOrSelf(g, {t})
           W == AncestorsOrSelf(g, {y, t})
<1>1. {t} \in SUBSET DOMAIN g /\ {y, t} \in SUBSET DOMAIN g /\ v \notin T
  BY DEF Falls
<1>2. Walks(g, T, U, v, t, "any", "arrow")
  BY DEF Falls
<1>3. v \in U
  BY <1>2, WalkEnds
<1>4. y \in U
  BY <1>1, <1>3, AncestorFacts
<1>5. Linked(g, y, v)
  BY DEF Linked
<1>6. U \subseteq W
  <2>1. {t} \in SUBSET W
    BY <1>1, AncestorFacts
  <2> QED
    BY <1>1, <2>1, AncestorsOfAncestors
<1> HIDE DEF U, W
<1>7. Walks(g, T, U, y, v, "any", "any")
  BY <1>3, <1>4, <1>5, EdgeIsWalk
<1>8. Walks(g, T, U, y, t, "any", "arrow")
  BY <1>1, <1>2, <1>7, WalksJoin
<1>9. Walks(g, T, W, y, t, "any", "arrow")
  BY <1>6, <1>8, WalkWidens
<1> QED
  BY <1>9 DEF Reaches, W

(* A parent of a member of T has a walk to it.                             *)
LEMMA ParentOfMember ==
  ASSUME NEW g, IsDag(g), NEW T \in SUBSET DOMAIN g, NEW y \in DOMAIN g, NEW t \in T, y \in g[t]
  PROVE  Reaches(g, T, y, t, "any", "arrow")
<1>1. {y, t} \in SUBSET DOMAIN g
  OBVIOUS
<1>2. y \in AncestorsOrSelf(g, {y, t}) /\ t \in AncestorsOrSelf(g, {y, t})
  BY <1>1, AncestorFacts
<1>3. Linked(g, y, t)
  BY DEF Linked
<1> QED
  BY <1>2, <1>3, EdgeIsWalk DEF Reaches
------------------------------------------------------------------------------
(* What walks through a d-convex set T make of two of its members: there   *)
(* is a walk between them, or they have a common child in T.               *)
Joined(g, T, A, u, w, onto) ==
  \/ Reaches(g, T, u, w, "any", onto)
  \/ \E c \in T \cap A : u \in g[c] /\ w \in g[c] /\ Reaches(g, T, c, w, "arrow", onto)

(* Less can be said of the ends of a walk.                                 *)
LEMMA ReachesLess ==
  ASSUME NEW g, NEW T, NEW x, NEW y,
         NEW into, NEW onto, NEW from, NEW to,
         Reaches(g, T, x, y, into, onto),
         from = "arrow" => into = "arrow", to = "arrow" => onto = "arrow"
  PROVE  Reaches(g, T, x, y, from, to)
<1> DEFINE A == AncestorsOrSelf(g, {x, y})
<1>1. Walks(g, T, A, x, y, into, onto) /\ A \subseteq A
  BY DEF Reaches
<1> HIDE DEF A
<1>2. Walks(g, T, A, x, y, from, to)
  BY <1>1, WalkWidens
<1> QED
  BY <1>2 DEF Reaches, A

(* Two walks that meet in an ancestor of their other ends, with two        *)
(* arrowheads there.                                                       *)
LEMMA ReachesThrough ==
  ASSUME NEW g, IsDag(g), NEW T, NEW u \in DOMAIN g, NEW w \in DOMAIN g,
         NEW t \in AncestorsOrSelf(g, {u, w}),
         NEW into, NEW onto,
         Reaches(g, T, u, t, into, "arrow"), Reaches(g, T, t, w, "arrow", onto)
  PROVE  Reaches(g, T, u, w, into, onto)
<1> DEFINE A == AncestorsOrSelf(g, {u, w})
           B == AncestorsOrSelf(g, {u, t})
           C == AncestorsOrSelf(g, {t, w})
<1>1. {u, w} \in SUBSET DOMAIN g
  OBVIOUS
<1>2. {u, t} \in SUBSET A /\ {t, w} \in SUBSET A
  BY <1>1, AncestorFacts
<1>3. B \subseteq A /\ C \subseteq A
  BY <1>1, <1>2, AncestorsOfAncestors
<1>4. Walks(g, T, B, u, t, into, "arrow") /\ Walks(g, T, C, t, w, "arrow", onto)
  BY DEF Reaches
<1> HIDE DEF A, B, C
<1>5. Walks(g, T, A, u, t, into, "arrow") /\ Walks(g, T, A, t, w, "arrow", onto)
  BY <1>3, <1>4, WalkWidens
<1>6. Walks(g, T, A, u, w, into, onto)
  BY <1>5, WalksJoin
<1> QED
  BY <1>6 DEF Reaches, A

(* Two walks that meet with two arrowheads in a member of T: if it is not  *)
(* an ancestor of the ends then it is linked to both, and their child.     *)
LEMMA JoinedAtMember ==
  ASSUME NEW g, IsDag(g), NEW T \in SUBSET DOMAIN g, WalkConvex(g, T), NEW A,
         NEW u \in T, NEW w \in T, NEW t \in T \cap A, NEW onto,
         Reaches(g, T, u, t, "any", "arrow"), Reaches(g, T, t, w, "arrow", onto)
  PROVE  Joined(g, T, A, u, w, onto)
<1>1. CASE u = t
  <2>1. Reaches(g, T, u, w, "any", onto)
    BY <1>1, ReachesLess
  <2> QED
    BY <2>1 DEF Joined
<1>2. CASE w = t
  <2>1. Reaches(g, T, u, w, "any", onto)
    BY <1>2, ReachesLess
  <2> QED
    BY <2>1 DEF Joined
<1>3. CASE t \in AncestorsOrSelf(g, {u, w})
  <2>1. Reaches(g, T, u, w, "any", onto)
    BY <1>3, ReachesThrough
  <2> QED
    BY <2>1 DEF Joined
<1>4. CASE u # t /\ w # t /\ t \notin AncestorsOrSelf(g, {u, w})
  <2>1. Reaches(g, T, u, t, "any", "any") /\ Reaches(g, T, t, w, "any", "any")
    BY ReachesLess
  <2>2. Linked(g, u, t) /\ Linked(g, t, w)
    BY <1>4, <2>1 DEF WalkConvex
  <2>3. t \notin g[u] /\ t \notin g[w]
    <3>1. {u, w} \in SUBSET DOMAIN g
      OBVIOUS
    <3> QED
      BY <1>4, <3>1, AncestorFacts
  <2> QED
    BY <2>2, <2>3 DEF Linked, Joined
<1> QED
  BY <1>1, <1>2, <1>3, <1>4

(* The same with a common child in between.                                *)
LEMMA JoinedOnwards ==
  ASSUME NEW g, IsDag(g), NEW T \in SUBSET DOMAIN g, WalkConvex(g, T), NEW A,
         NEW u \in T, NEW w \in T, NEW t \in T \cap A, NEW onto,
         Joined(g, T, A, u, t, "arrow"), Reaches(g, T, t, w, "arrow", onto)
  PROVE  Joined(g, T, A, u, w, onto)
<1>1. CASE Reaches(g, T, u, t, "any", "arrow")
  BY <1>1, JoinedAtMember
<1>2. ASSUME NEW c \in T \cap A, u \in g[c], t \in g[c], Reaches(g, T, c, t, "arrow", "arrow")
      PROVE  Joined(g, T, A, u, w, onto)
  <2>1. {c, w} \in SUBSET DOMAIN g /\ c \in DOMAIN g /\ w \in DOMAIN g /\ u \in DOMAIN g
    OBVIOUS
  <2>2. t \in AncestorsOrSelf(g, {c, w})
    BY <1>2, <2>1, AncestorFacts
  <2>3. Reaches(g, T, c, w, "arrow", onto)
    BY <1>2, <2>1, <2>2, ReachesThrough
  <2>4. Reaches(g, T, u, c, "any", "arrow")
    BY <1>2, <2>1, ParentOfMember
  <2> QED
    BY <2>3, <2>4, JoinedAtMember
<1> QED
  BY <1>1, <1>2 DEF Joined

(* Members that are joined are equal or neighbours in the moral graph.     *)
LEMMA JoinedAreMoral ==
  ASSUME NEW g, NEW T, WalkConvex(g, T), NEW A,
         NEW u \in T \cap A, NEW w \in T \cap A, NEW onto, Joined(g, T, A, u, w, onto)
  PROVE  u = w \/ Moral(g, A, u, w)
<1>1. CASE Reaches(g, T, u, w, "any", onto)
  <2>1. Reaches(g, T, u, w, "any", "any")
    BY <1>1, ReachesLess
  <2> QED
    BY <2>1 DEF WalkConvex, Moral
<1>2. CASE \E c \in T \cap A : u \in g[c] /\ w \in g[c]
  BY <1>2 DEF Moral
<1> QED
  BY <1>1, <1>2 DEF Joined

(* From a member y of T to a neighbour outside T in the moral graph: that  *)
(* falls on y, or on another member that y has a walk to.                  *)
LEMMA LeavingMembers ==
  ASSUME NEW g, IsDag(g), NEW T \in SUBSET DOMAIN g, NEW p \in SUBSET T,
         NEW A, A = AncestorsOrSelf(g, p),
         NEW y \in T \cap A, NEW v \in A \ T, Moral(g, A, y, v)
  PROVE  \/ Falls(g, T, v, y)
         \/ \E t \in T \cap A : Falls(g, T, v, t) /\ Reaches(g, T, y, t, "any", "arrow")
<1>1. p \in SUBSET DOMAIN g /\ A \subseteq DOMAIN g
  BY AncestorFacts
<1>2. y \in DOMAIN g /\ v \in DOMAIN g \ T
  BY <1>1
<1>3. CASE v \in g[y]
  BY <1>2, <1>3, FallsOnChild
<1>4. CASE y \in g[v]
  <2>1. PICK t \in T \cap A : Falls(g, T, v, t)
    BY Falling
  <2> QED
    BY <1>2, <1>4, <2>1, ParentReaches
<1>5. ASSUME NEW c \in A, y \in g[c], v \in g[c]
      PROVE  \E t \in T \cap A : Falls(g, T, v, t) /\ Reaches(g, T, y, t, "any", "arrow")
  <2>1. c \in DOMAIN g
    BY <1>1
  <2>2. CASE c \in T
    BY <1>2, <1>5, <2>2, FallsOnChild, ParentOfMember
  <2>3. CASE c \notin T
    <3>1. PICK t \in T \cap A : Falls(g, T, c, t)
      BY <2>3, Falling
    <3>2. Falls(g, T, v, t)
      BY <1>2, <1>5, <2>1, <3>1, FallsWithChild
    <3>3. Reaches(g, T, y, t, "any", "arrow")
      BY <1>2, <1>5, <2>1, <3>1, ParentReaches
    <3> QED
      BY <3>2, <3>3
  <2> QED
    BY <2>2, <2>3
<1> QED
  BY <1>3, <1>4, <1>5 DEF Moral, Linked

(* Neighbours outside T in the moral graph fall on a member in common.     *)
LEMMA FallingTogether ==
  ASSUME NEW g, IsDag(g), NEW T \in SUBSET DOMAIN g, NEW p \in SUBSET T,
         NEW A, A = AncestorsOrSelf(g, p),
         NEW u \in A \ T, NEW v \in A \ T, Moral(g, A, u, v)
  PROVE  \E t \in T \cap A : Falls(g, T, u, t) /\ Falls(g, T, v, t)
<1>1. p \in SUBSET DOMAIN g /\ A \subseteq DOMAIN g
  BY AncestorFacts
<1>2. u \in DOMAIN g \ T /\ v \in DOMAIN g \ T
  BY <1>1
<1>3. CASE u \in g[v]
  <2>1. PICK t \in T \cap A : Falls(g, T, v, t)
    BY Falling
  <2> QED
    BY <1>2, <1>3, <2>1, FallsWithChild
<1>4. CASE v \in g[u]
  <2>1. PICK t \in T \cap A : Falls(g, T, u, t)
    BY Falling
  <2> QED
    BY <1>2, <1>4, <2>1, FallsWithChild
<1>5. ASSUME NEW c \in A, u \in g[c], v \in g[c]
      PROVE  \E t \in T \cap A : Falls(g, T, u, t) /\ Falls(g, T, v, t)
  <2>1. c \in DOMAIN g
    BY <1>1
  <2>2. CASE c \in T
    BY <1>2, <1>5, <2>2, FallsOnChild
  <2>3. CASE c \notin T
    <3>1. PICK t \in T \cap A : Falls(g, T, c, t)
      BY <2>3, Falling
    <3>2. Falls(g, T, u, t) /\ Falls(g, T, v, t)
      BY <1>2, <1>5, <2>1, <3>1, FallsWithChild
    <3> QED
      BY <3>2
  <2> QED
    BY <2>2, <2>3
<1> QED
  BY <1>3, <1>4, <1>5 DEF Moral, Linked

(* Where a path of the moral graph leaves a d-convex set and comes back,   *)
(* the member it leaves is the one it comes to or a neighbour of it.       *)
LEMMA StretchIsBridged ==
  ASSUME NEW g, IsDag(g), NEW T \in SUBSET DOMAIN g, WalkConvex(g, T), NEW p \in SUBSET T,
         NEW A, A = AncestorsOrSelf(g, p),
         NEW i \in Nat, NEW l \in Nat, i + 1 < l, NEW q,
         \A j \in (i + 1)..l : Moral(g, A, q[j - 1], q[j]),
         \A j \in (i + 1)..(l - 1) : q[j] \notin T,
         q[i] \in T, q[l] \in T
  PROVE  q[i] = q[l] \/ Moral(g, A, q[i], q[l])
<1> DEFINE Done(j) == \A t \in T \cap A : Falls(g, T, q[j], t) => Joined(g, T, A, q[i], t, "arrow")
           Bad == {j \in (i + 1)..(l - 1) : ~Done(j)}
<1>1. \A j \in i..l : q[j] \in A
  <2> TAKE j \in i..l
  <2>1. j \in (i + 1)..l \/ (j + 1 \in (i + 1)..l /\ (j + 1) - 1 = j)
    OBVIOUS
  <2> QED
    BY <2>1 DEF Moral
<1>2. /\ i + 1 \in (i + 1)..l /\ i + 1 \in (i + 1)..(l - 1) /\ (i + 1) - 1 = i
      /\ l \in (i + 1)..l /\ l - 1 \in (i + 1)..(l - 1) /\ l - 1 \in i..l
      /\ i \in i..l /\ i + 1 \in i..l /\ l \in i..l
  OBVIOUS
<1>3. q[i] \in T \cap A /\ q[l] \in T \cap A
  BY <1>1, <1>2
<1>4. Bad = {}
  <2> SUFFICES ASSUME Bad # {}
               PROVE  FALSE
    OBVIOUS
  <2>1. PICK j \in Bad : \A k \in Bad : j <= k
    <3>1. Bad \in SUBSET Nat
      OBVIOUS
    <3> HIDE DEF Bad
    <3> QED
      BY <3>1, MinOfNaturals
  <2>2. PICK t \in T \cap A : Falls(g, T, q[j], t) /\ ~Joined(g, T, A, q[i], t, "arrow")
    OBVIOUS
  <2>3. j \in (i + 1)..(l - 1) /\ j \in i..l /\ j \in (i + 1)..l
    OBVIOUS
  <2>4. q[j] \in A \ T /\ Moral(g, A, q[j - 1], q[j])
    BY <1>1, <2>3
  <2>5. CASE j = i + 1
    <3>1. Moral(g, A, q[i], q[j])
      BY <1>2, <2>4, <2>5
    <3>2. CASE Falls(g, T, q[j], q[i])
      <4>1. Reaches(g, T, q[i], t, "arrow", "arrow")
        BY <2>2, <3>2, Trek
      <4>2. Reaches(g, T, q[i], t, "any", "arrow")
        BY <4>1, ReachesLess
      <4> QED
        BY <2>2, <4>2 DEF Joined
    <3>3. ASSUME NEW u \in T \cap A, Falls(g, T, q[j], u), Reaches(g, T, q[i], u, "any", "arrow")
          PROVE  FALSE
      <4>1. Reaches(g, T, u, t, "arrow", "arrow")
        BY <2>2, <3>3, Trek
      <4> QED
        BY <1>3, <2>2, <3>3, <4>1, JoinedAtMember
    <3> QED
      BY <1>3, <2>4, <3>1, <3>2, <3>3, LeavingMembers
  <2>6. CASE j # i + 1
    <3>1. j - 1 \in (i + 1)..(l - 1) /\ j - 1 \in i..l /\ ~(j <= j - 1)
      BY <2>3, <2>6
    <3>2. q[j - 1] \in A \ T
      BY <1>1, <3>1
    <3>3. PICK u \in T \cap A : Falls(g, T, q[j - 1], u) /\ Falls(g, T, q[j], u)
      BY <2>4, <3>2, FallingTogether
    <3>4. Done(j - 1)
      <4>1. j - 1 \notin Bad
        <5> HIDE DEF Bad
        <5> QED
          BY <2>1, <3>1
      <4> QED
        BY <3>1, <4>1
    <3>5. Joined(g, T, A, q[i], u, "arrow")
      BY <3>3, <3>4
    <3>6. Reaches(g, T, u, t, "arrow", "arrow")
      BY <2>2, <3>3, Trek
    <3> QED
      BY <1>3, <2>2, <3>5, <3>6, JoinedOnwards
  <2> QED
    BY <2>5, <2>6
<1>5. Done(l - 1) /\ q[l - 1] \in A \ T /\ Moral(g, A, q[l - 1], q[l])
  BY <1>1, <1>2, <1>4
<1> HIDE DEF Bad
<1>6. Moral(g, A, q[l], q[l - 1])
  BY <1>5 DEF Moral, Linked
<1>7. CASE Falls(g, T, q[l - 1], q[l])
  BY <1>3, <1>5, <1>7, JoinedAreMoral
<1>8. ASSUME NEW u \in T \cap A, Falls(g, T, q[l - 1], u), Reaches(g, T, q[l], u, "any", "arrow")
      PROVE  q[i] = q[l] \/ Moral(g, A, q[i], q[l])
  <2>1. Joined(g, T, A, q[i], u, "arrow")
    BY <1>5, <1>8
  <2>2. {q[l], u} = {u, q[l]}
    OBVIOUS
  <2>3. Reaches(g, T, u, q[l], "arrow", "any")
    BY <1>8, <2>2, WalkBack DEF Reaches
  <2>4. Joined(g, T, A, q[i], q[l], "any")
    BY <1>3, <2>1, <2>3, JoinedOnwards
  <2> QED
    BY <1>3, <2>4, JoinedAreMoral
<1> QED
  BY <1>3, <1>5, <1>6, <1>7, <1>8, LeavingMembers

(* A path in the moral graph of A from x to y with k vertices of inner in  *)
(* between.                                                                *)
IsMoralPath(g, A, inner, x, y, k, q) ==
  /\ q[0] = x /\ q[k + 1] = y
  /\ \A j \in 1..k : q[j] \in inner
  /\ \A j \in 1..(k + 1) : Moral(g, A, q[j - 1], q[j])

(* No path between the two is shorter.                                     *)
IsShortest(g, A, inner, x, y, k, q) ==
  /\ IsMoralPath(g, A, inner, x, y, k, q)
  /\ \A l \in Nat : \A r : IsMoralPath(g, A, inner, x, y, l, r) => k <= l

(* The inner vertices of such a path.                                      *)
IsShortestSet(g, A, inner, x, y, set) ==
  \E k \in Nat : \E q : IsShortest(g, A, inner, x, y, k, q) /\ set = {q[j] : j \in 1..k}

(* A path whose ends are different gets shorter if a part of it is cut out *)
(* between two vertices that are neighbours or the same.                   *)
LEMMA MoralShortcut ==
  ASSUME NEW g, NEW A, NEW inner, NEW x, NEW y, x # y, NEW k \in Nat, NEW q,
         IsMoralPath(g, A, inner, x, y, k, q),
         NEW i \in Nat, NEW j \in Nat, j <= k + 1,
         (i < j /\ q[i] = q[j]) \/ (i + 1 < j /\ Moral(g, A, q[i], q[j]))
  PROVE  \E l \in Nat : l < k /\ \E r : IsMoralPath(g, A, inner, x, y, l, r)
<1>1. ASSUME NEW b \in Nat, b <= k + 1, i + 1 < b, Moral(g, A, q[i], q[b])
      PROVE  \E l \in Nat : l < k /\ \E r : IsMoralPath(g, A, inner, x, y, l, r)
  <2> DEFINE d == b - i - 1
             l == k - d
             r == [m \in 0..(l + 1) |-> IF m <= i THEN q[m] ELSE q[m + d]]
  <2>1. d \in Nat /\ b = i + 1 + d /\ l \in Nat /\ l < k /\ l + d = k
    BY <1>1
  <2> HIDE DEF d, l
  <2>2. \A m \in 0..(l + 1) : r[m] = IF m <= i THEN q[m] ELSE q[m + d]
    OBVIOUS
  <2> HIDE DEF r
  <2>3. r[0] = x /\ r[l + 1] = y
    <3>1. 0 \in 0..(l + 1) /\ l + 1 \in 0..(l + 1) /\ 0 <= i /\ ~(l + 1 <= i) /\ (l + 1) + d = k + 1
      BY <1>1, <2>1
    <3> QED
      BY <2>2, <3>1 DEF IsMoralPath
  <2>4. ASSUME NEW m \in 1..l
        PROVE  r[m] \in inner
    <3>1. m \in 0..(l + 1) /\ m \in 1..k /\ m + d \in 1..k
      BY <2>1
    <3> QED
      BY <2>2, <3>1 DEF IsMoralPath
  <2>5. ASSUME NEW m \in 1..(l + 1)
        PROVE  Moral(g, A, r[m - 1], r[m])
    <3>1. CASE m <= i
      <4>1. m - 1 \in 0..(l + 1) /\ m \in 0..(l + 1) /\ m \in 1..(k + 1) /\ m - 1 <= i
        BY <2>1, <3>1
      <4> QED
        BY <2>2, <3>1, <4>1 DEF IsMoralPath
    <3>2. CASE m = i + 1
      <4>1. m - 1 \in 0..(l + 1) /\ m \in 0..(l + 1) /\ m - 1 = i /\ ~(m <= i) /\ m + d = b /\ i <= i
        BY <2>1, <3>2
      <4> QED
        BY <1>1, <2>2, <4>1
    <3>3. CASE m > i + 1
      <4>1. /\ m - 1 \in 0..(l + 1) /\ m \in 0..(l + 1) /\ ~(m - 1 <= i) /\ ~(m <= i)
            /\ m + d \in 1..(k + 1) /\ (m - 1) + d = (m + d) - 1
        BY <2>1, <3>3
      <4> QED
        BY <2>2, <4>1 DEF IsMoralPath
    <3> QED
      BY <3>1, <3>2, <3>3
  <2>6. IsMoralPath(g, A, inner, x, y, l, r)
    BY <2>3, <2>4, <2>5 DEF IsMoralPath
  <2> QED
    BY <2>1, <2>6
<1>2. CASE i + 1 < j /\ Moral(g, A, q[i], q[j])
  BY <1>1, <1>2
<1>3. CASE i < j /\ q[i] = q[j] /\ j # k + 1
  <2>1. j + 1 \in Nat /\ j + 1 <= k + 1 /\ i + 1 < j + 1 /\ j + 1 \in 1..(k + 1) /\ (j + 1) - 1 = j
    BY <1>3
  <2>2. Moral(g, A, q[i], q[j + 1])
    BY <1>3, <2>1 DEF IsMoralPath
  <2> QED
    BY <1>1, <2>1, <2>2
<1>4. CASE i < j /\ q[i] = q[j] /\ j = k + 1
  <2> DEFINE l == i - 1
  <2>1. i # 0
    BY <1>4 DEF IsMoralPath
  <2>2. l \in Nat /\ l < k /\ l + 1 = i
    BY <1>4, <2>1
  <2> HIDE DEF l
  <2>3. \A m \in 1..l : m \in 1..k
    BY <2>2
  <2>4. \A m \in 1..(l + 1) : m \in 1..(k + 1)
    BY <2>2
  <2>5. IsMoralPath(g, A, inner, x, y, l, q)
    BY <1>4, <2>2, <2>3, <2>4 DEF IsMoralPath
  <2> QED
    BY <2>2, <2>5
<1> QED
  BY <1>2, <1>3, <1>4

(* The vertices of a shortest path are different from each other.          *)
LEMMA ShortestIsSimple ==
  ASSUME NEW g, NEW A, NEW inner, NEW x, NEW y, x # y, NEW k \in Nat, NEW q,
         IsShortest(g, A, inner, x, y, k, q)
  PROVE  \A i, j \in 0..(k + 1) : q[i] = q[j] => i = j
<1>1. ASSUME NEW i \in 0..(k + 1), NEW j \in 0..(k + 1), i < j, q[i] = q[j]
      PROVE  FALSE
  <2>1. i \in Nat /\ j \in Nat /\ j <= k + 1
    OBVIOUS
  <2>2. PICK l \in Nat : l < k /\ \E r : IsMoralPath(g, A, inner, x, y, l, r)
    BY <1>1, <2>1, MoralShortcut DEF IsShortest
  <2>3. k <= l
    BY <2>2 DEF IsShortest
  <2> QED
    BY <2>2, <2>3
<1>2. ASSUME NEW i \in 0..(k + 1), NEW j \in 0..(k + 1), q[i] = q[j]
      PROVE  i = j
  <2>1. i < j \/ j < i \/ i = j
    OBVIOUS
  <2> QED
    BY <1>1, <1>2, <2>1
<1> QED
  BY <1>2

(* The sequences of k inner vertices that ShortestPaths looks at.          *)
PathsOf(g, A, inner, x, y, k) ==
  {s \in [1..k -> inner] :
     \A j \in 1..Len(s) + 1 : LET q == <<x>> \o s \o <<y>> IN Moral(g, A, q[j], q[j + 1])}

(* They are the paths of the moral graph.                                  *)
LEMMA PathsAreMoral ==
  ASSUME NEW g, NEW A, NEW inner, NEW x, NEW y, NEW k \in Nat
  PROVE  /\ \A s \in PathsOf(g, A, inner, x, y, k) : \E q :
              IsMoralPath(g, A, inner, x, y, k, q) /\ Elems(s) = {q[j] : j \in 1..k}
         /\ \A q : IsMoralPath(g, A, inner, x, y, k, q) =>
              [j \in 1..k |-> q[j]] \in PathsOf(g, A, inner, x, y, k)
<1>1. ASSUME NEW s \in [1..k -> inner]
      PROVE  LET w == <<x>> \o s \o <<y>>
             IN  /\ Len(s) = k /\ w[1] = x /\ w[k + 2] = y
                 /\ \A j \in 1..k : w[j + 1] = s[j]
  <2> DEFINE w == <<x>> \o s \o <<y>>
  <2>1. w = <<x>> \o s \o <<y>>
    OBVIOUS
  <2> HIDE DEF w
  <2>2. /\ Len(s) = k /\ w[1] = x /\ w[k + 2] = y
        /\ \A j \in 1..k : w[j + 1] = s[j]
    BY <2>1, BetweenTwo
  <2> QED
    BY <2>2 DEF w
<1>2. ASSUME NEW s \in PathsOf(g, A, inner, x, y, k)
      PROVE  \E q : IsMoralPath(g, A, inner, x, y, k, q) /\ Elems(s) = {q[j] : j \in 1..k}
  <2> DEFINE w == <<x>> \o s \o <<y>>
             q == [j \in 0..(k + 1) |-> w[j + 1]]
  <2>1. s \in [1..k -> inner]
    BY DEF PathsOf
  <2>2. /\ Len(s) = k /\ w[1] = x /\ w[k + 2] = y
        /\ \A j \in 1..k : w[j + 1] = s[j]
    BY <1>1, <2>1
  <2>3. \A j \in 1..(k + 1) : Moral(g, A, w[j], w[j + 1])
    BY <2>2 DEF PathsOf
  <2> HIDE DEF w
  <2>4. \A j \in 0..(k + 1) : q[j] = w[j + 1]
    OBVIOUS
  <2> HIDE DEF q
  <2>5. q[0] = x /\ q[k + 1] = y
    <3>1. 0 \in 0..(k + 1) /\ k + 1 \in 0..(k + 1) /\ 0 + 1 = 1 /\ (k + 1) + 1 = k + 2
      OBVIOUS
    <3> QED
      BY <2>2, <2>4, <3>1
  <2>6. \A j \in 1..k : q[j] = s[j]
    <3>1. \A j \in 1..k : j \in 0..(k + 1)
      OBVIOUS
    <3> QED
      BY <2>2, <2>4, <3>1
  <2>7. \A j \in 1..(k + 1) : Moral(g, A, q[j - 1], q[j])
    <3>1. \A j \in 1..(k + 1) : j \in 0..(k + 1) /\ j - 1 \in 0..(k + 1) /\ (j - 1) + 1 = j
      OBVIOUS
    <3> QED
      BY <2>3, <2>4, <3>1
  <2>8. \A j \in 1..k : q[j] \in inner
    BY <2>1, <2>6
  <2>9. Elems(s) = {q[j] : j \in 1..k}
    BY <2>2, <2>6 DEF Elems
  <2> QED
    BY <2>5, <2>7, <2>8, <2>9 DEF IsMoralPath
<1>3. ASSUME NEW q, IsMoralPath(g, A, inner, x, y, k, q)
      PROVE  [j \in 1..k |-> q[j]] \in PathsOf(g, A, inner, x, y, k)
  <2> DEFINE s == [j \in 1..k |-> q[j]]
             w == <<x>> \o s \o <<y>>
  <2>1. s \in [1..k -> inner]
    BY <1>3 DEF IsMoralPath
  <2>2. /\ Len(s) = k /\ w[1] = x /\ w[k + 2] = y
        /\ \A j \in 1..k : w[j + 1] = s[j]
    <3> HIDE DEF s
    <3> QED
      BY <1>1, <2>1
  <2>3. \A j \in 1..k : s[j] = q[j]
    OBVIOUS
  <2> HIDE DEF w, s
  <2>4. ASSUME NEW j \in 0..(k + 1)
        PROVE  w[j + 1] = q[j]
    <3>1. j = 0 \/ (j = k + 1 /\ j + 1 = k + 2) \/ j \in 1..k
      OBVIOUS
    <3> QED
      BY <1>3, <2>2, <2>3, <3>1 DEF IsMoralPath
  <2>5. ASSUME NEW j \in 1..Len(s) + 1
        PROVE  Moral(g, A, w[j], w[j + 1])
    <3>1. j \in 1..(k + 1) /\ j - 1 \in 0..(k + 1) /\ j \in 0..(k + 1) /\ (j - 1) + 1 = j
      BY <2>2
    <3> QED
      BY <1>3, <2>4, <3>1 DEF IsMoralPath
  <2> QED
    BY <2>1, <2>5 DEF PathsOf, w, s
<1> QED
  BY <1>2, <1>3

(* ShortestPaths returns the shortest ones, and returns one whenever there *)
(* is a path at all.                                                       *)
LEMMA ShortestPathsAre ==
  ASSUME NEW g, IsDag(g), NEW p \in SUBSET DOMAIN g, NEW m \in SUBSET DOMAIN g,
         NEW A, A = AncestorsOrSelf(g, p), Min(p) # Max(p)
  PROVE  /\ \A set \in ShortestPaths(g, m, p) : IsShortestSet(g, A, m \cap A, Min(p), Max(p), set)
         /\ \A k \in Nat : \A q : IsMoralPath(g, A, m \cap A, Min(p), Max(p), k, q)
              => ShortestPaths(g, m, p) # {}
<1> DEFINE inner == m \cap A
           x == Min(p)
           y == Max(p)
           P(k) == PathsOf(g, A, inner, x, y, k)
           lengths == {k \in 0..Cardinality(inner) : P(k) # {}}
<1>1. ShortestPaths(g, m, p) = IF lengths = {} THEN {} ELSE {Elems(s) : s \in P(Min(lengths))}
  BY DEF ShortestPaths, PathsOf
<1>2. IsFiniteSet(inner) /\ Cardinality(inner) \in Nat
  <2>1. IsFiniteSet(DOMAIN g) /\ inner \in SUBSET DOMAIN g
    BY DagBasics
  <2> QED
    BY <2>1, FS_Subset, FS_CardinalityType
<1>3. x # y
  OBVIOUS
<1> HIDE DEF inner, x, y
<1>4. lengths # {} => Min(lengths) \in lengths /\ \A k \in lengths : Min(lengths) <= k
  <2>1. lengths \in SUBSET Nat
    OBVIOUS
  <2> HIDE DEF lengths
  <2> QED
    BY <2>1, MinOfNaturals
<1>5. ASSUME NEW k \in Nat, NEW q, IsMoralPath(g, A, inner, x, y, k, q)
      PROVE  P(k) # {}
  BY <1>5, PathsAreMoral
<1>6. ASSUME NEW set \in ShortestPaths(g, m, p)
      PROVE  IsShortestSet(g, A, inner, x, y, set)
  <2>1. lengths # {}
    BY <1>1, <1>6
  <2> DEFINE k == Min(lengths)
  <2>2. k \in 0..Cardinality(inner) /\ \A l \in lengths : k <= l
    BY <1>4, <2>1
  <2>3. PICK s \in P(k) : set = Elems(s)
    BY <1>1, <1>6, <2>1
  <2> HIDE DEF k
  <2>4. k \in Nat
    BY <2>2
  <2>5. PICK q : IsMoralPath(g, A, inner, x, y, k, q) /\ Elems(s) = {q[j] : j \in 1..k}
    BY <2>3, <2>4, PathsAreMoral
  <2>6. ASSUME NEW l \in Nat, NEW r, IsMoralPath(g, A, inner, x, y, l, r)
        PROVE  k <= l
    <3>1. CASE l \in 0..Cardinality(inner)
      <4>1. l \in lengths
        BY <1>5, <2>6, <3>1
      <4> HIDE DEF lengths
      <4> QED
        BY <2>2, <4>1
    <3>2. CASE l \notin 0..Cardinality(inner)
      BY <1>2, <2>2, <3>2
    <3> QED
      BY <3>1, <3>2
  <2> QED
    BY <2>3, <2>4, <2>5, <2>6 DEF IsShortest, IsShortestSet
<1>7. ASSUME NEW k0 \in Nat, NEW q0, IsMoralPath(g, A, inner, x, y, k0, q0)
      PROVE  ShortestPaths(g, m, p) # {}
  <2> DEFINE L == {k \in Nat : \E q : IsMoralPath(g, A, inner, x, y, k, q)}
  <2>1. PICK k \in L : \A l \in L : k <= l
    <3>1. L \in SUBSET Nat /\ L # {}
      BY <1>7
    <3> HIDE DEF L
    <3> QED
      BY <3>1, MinOfNaturals
  <2>2. k \in Nat /\ \E q : IsMoralPath(g, A, inner, x, y, k, q)
    OBVIOUS
  <2>3. PICK q : IsMoralPath(g, A, inner, x, y, k, q)
    BY <2>2
  <2>4. ASSUME NEW l \in Nat, NEW r, IsMoralPath(g, A, inner, x, y, l, r)
        PROVE  k <= l
    <3>1. l \in L
      BY <2>4
    <3> HIDE DEF L
    <3> QED
      BY <2>1, <3>1
  <2>5. IsShortest(g, A, inner, x, y, k, q)
    BY <2>3, <2>4 DEF IsShortest
  <2> HIDE DEF L
  <2>6. \A i, j \in 0..(k + 1) : q[i] = q[j] => i = j
    BY <1>3, <2>2, <2>3, <2>5, ShortestIsSimple
  <2> DEFINE s == [j \in 1..k |-> q[j]]
  <2>7. s \in [1..k -> inner] /\ \A j \in 1..k : s[j] = q[j]
    BY <2>3 DEF IsMoralPath
  <2>8. s \in P(k)
    BY <2>2, <2>3, PathsAreMoral
  <2> HIDE DEF s
  <2>9. s \in Seq(inner) /\ Len(s) = k
    BY <2>2, <2>7
  <2>10. IsInjectiveSeq(s)
    <3>1. \A j \in 1..k : j \in 0..(k + 1)
      BY <2>2
    <3> QED
      BY <2>6, <2>7, <2>9, <3>1 DEF IsInjectiveSeq
  <2>11. Cardinality(Elems(s)) = k /\ Elems(s) \subseteq inner
    BY <2>7, <2>9, <2>10, InjectiveSeqCardinality DEF Elems
  <2>12. k <= Cardinality(inner)
    BY <1>2, <2>11, FS_Subset
  <2>13. k \in lengths
    BY <1>2, <2>2, <2>8, <2>12
  <2>14. P(Min(lengths)) # {}
    BY <1>4, <2>13
  <2> HIDE DEF lengths, P
  <2> QED
    BY <1>1, <2>13, <2>14
<1> QED
  BY <1>6, <1>7 DEF inner, x, y

(* A target pair, by number.                                               *)
LEMMA TargetPairFacts ==
  ASSUME NEW g, DOMAIN g \in SUBSET Nat, NEW set \in SUBSET DOMAIN g, NEW p \in TargetPairs(g, set)
  PROVE  /\ p \subseteq set
         /\ Min(p) \in p /\ Max(p) \in p /\ Min(p) # Max(p)
         /\ p = {Min(p), Max(p)} /\ ~Linked(g, Min(p), Max(p))
<1>1. p \subseteq set
  BY DEF TargetPairs
<1>2. PICK a, b \in p : p = {a, b} /\ a # b /\ ~Linked(g, a, b)
  BY DEF TargetPairs
<1>3. a \in Nat /\ b \in Nat
  BY <1>1
<1>4. /\ Min({a, b}) = a \/ Min({a, b}) = b
      /\ Min({a, b}) <= a /\ Min({a, b}) <= b
      /\ Max({a, b}) = a \/ Max({a, b}) = b
      /\ Max({a, b}) >= a /\ Max({a, b}) >= b
  BY <1>3, MinMaxOfTwo
<1>5. (Min(p) = a /\ Max(p) = b) \/ (Min(p) = b /\ Max(p) = a)
  BY <1>2, <1>3, <1>4
<1> QED
  BY <1>1, <1>2, <1>5 DEF Linked

(* No shortest path between two members leads out of a d-convex set.       *)
LEMMA PathsStayInside ==
  ASSUME NEW g, IsDag(g), DOMAIN g \in SUBSET Nat,
         NEW T \in SUBSET DOMAIN g, WalkConvex(g, T), NEW set \in SUBSET T,
         NEW p \in TargetPairs(g, set), NEW path \in ShortestPaths(g, DOMAIN g \ set, p)
  PROVE  p \subseteq T /\ path \subseteq T
<1> DEFINE A == AncestorsOrSelf(g, p)
           m == DOMAIN g \ set
           x == Min(p)
           y == Max(p)
<1>1. /\ p \subseteq set /\ x \in p /\ y \in p /\ x # y
      /\ p \in SUBSET T /\ p \in SUBSET DOMAIN g /\ m \in SUBSET DOMAIN g /\ set \in SUBSET DOMAIN g
  BY TargetPairFacts
<1>2. IsShortestSet(g, A, m \cap A, x, y, path)
  BY <1>1, ShortestPathsAre
<1>3. PICK k \in Nat : \E q : IsShortest(g, A, m \cap A, x, y, k, q) /\ path = {q[j] : j \in 1..k}
  BY <1>2 DEF IsShortestSet
<1>4. PICK q : IsShortest(g, A, m \cap A, x, y, k, q) /\ path = {q[j] : j \in 1..k}
  BY <1>3
<1>5. ASSUME NEW j \in 1..k, q[j] \notin T
      PROVE  FALSE
  <2> DEFINE Before == {i \in 0..(j - 1) : q[i] \in T}
             After == {i \in (j + 1)..(k + 1) : q[i] \in T}
  <2>1. q[0] \in T /\ q[k + 1] \in T
    BY <1>1, <1>4 DEF IsShortest, IsMoralPath
  <2>2. PICK i \in Before : \A e \in Before : e <= i
    <3>1. IsFiniteSet(0..(j - 1)) /\ Before \in SUBSET (0..(j - 1))
      BY FS_Interval
    <3>2. 0 \in Before
      BY <2>1
    <3>3. Before \in SUBSET Nat
      OBVIOUS
    <3> HIDE DEF Before
    <3>4. Max(Before) \in Before /\ \A e \in Before : Max(Before) >= e
      BY <3>1, <3>2, <3>3, FS_Subset, MaxOfFinite
    <3>5. \A e \in Before : e <= Max(Before)
      BY <3>3, <3>4
    <3> QED
      BY <3>4, <3>5
  <2>3. PICK l \in After : \A e \in After : l <= e
    <3>1. After \in SUBSET Nat /\ k + 1 \in After
      BY <2>1
    <3> HIDE DEF After
    <3> QED
      BY <3>1, MinOfNaturals
  <2>4. /\ i \in Nat /\ l \in Nat /\ i + 1 < l /\ l <= k + 1 /\ i < j /\ j < l
        /\ q[i] \in T /\ q[l] \in T
    OBVIOUS
  <2>5. ASSUME NEW e \in (i + 1)..(l - 1)
        PROVE  q[e] \notin T
    <3>1. CASE e < j
      <4>1. e \in 0..(j - 1) /\ ~(e <= i)
        BY <2>4, <3>1
      <4>2. e \notin Before
        <5> HIDE DEF Before
        <5> QED
          BY <2>2, <4>1
      <4> QED
        BY <4>1, <4>2
    <3>2. CASE e = j
      BY <1>5, <3>2
    <3>3. CASE e > j
      <4>1. e \in (j + 1)..(k + 1) /\ ~(l <= e)
        BY <2>4, <3>3
      <4>2. e \notin After
        <5> HIDE DEF After
        <5> QED
          BY <2>3, <4>1
      <4> QED
        BY <4>1, <4>2
    <3> QED
      BY <2>4, <3>1, <3>2, <3>3
  <2>6. \A e \in (i + 1)..l : Moral(g, A, q[e - 1], q[e])
    <3>1. \A e \in (i + 1)..l : e \in 1..(k + 1)
      BY <2>4
    <3> QED
      BY <1>4, <3>1 DEF IsShortest, IsMoralPath
  <2> HIDE DEF Before, After
  <2>7. q[i] = q[l] \/ Moral(g, A, q[i], q[l])
    <3> DEFINE a == AncestorsOrSelf(g, p)
    <3>1. a = AncestorsOrSelf(g, p) /\ a = A
      OBVIOUS
    <3> HIDE DEF a, A
    <3> QED
      BY <1>1, <2>4, <2>5, <2>6, <3>1, StretchIsBridged
  <2>8. IsMoralPath(g, A, m \cap A, x, y, k, q)
    BY <1>4 DEF IsShortest
  <2>9. PICK f \in Nat : f < k /\ \E r : IsMoralPath(g, A, m \cap A, x, y, f, r)
    <3>1. (i < l /\ q[i] = q[l]) \/ (i + 1 < l /\ Moral(g, A, q[i], q[l]))
      BY <2>4, <2>7
    <3> HIDE DEF A, m, x, y
    <3> QED
      BY <1>1, <2>4, <2>8, <3>1, MoralShortcut
  <2>10. k <= f
    BY <1>4, <2>9 DEF IsShortest
  <2> QED
    BY <2>9, <2>10
<1> QED
  BY <1>1, <1>4, <1>5

(* A round of the closure adds nothing that is not in every d-convex       *)
(* superset.                                                               *)
LEMMA AbsorbedStayInside ==
  ASSUME NEW g, IsDag(g), DOMAIN g \in SUBSET Nat,
         NEW T \in SUBSET DOMAIN g, WalkConvex(g, T), NEW set \in SUBSET T,
         NEW path \in PathChoices(g, set)
  PROVE  UNION {f[1] \cup path[f] : f \in DOMAIN path} \subseteq T
<1> DEFINE found == {<<p, ShortestPaths(g, DOMAIN g \ set, p)>> : p \in TargetPairs(g, set)}
           pairs == {f \in found : f[2] # {}}
<1>1. DOMAIN path = pairs /\ \A f \in pairs : path[f] \in f[2]
  BY DEF PathChoices
<1>2. ASSUME NEW f \in pairs
      PROVE  f[1] \cup path[f] \subseteq T
  <2>1. PICK p \in TargetPairs(g, set) : f = <<p, ShortestPaths(g, DOMAIN g \ set, p)>>
    OBVIOUS
  <2>2. f[1] = p /\ path[f] \in ShortestPaths(g, DOMAIN g \ set, p)
    BY <1>1, <2>1
  <2> HIDE DEF pairs
  <2> QED
    BY <2>2, PathsStayInside
<1> QED
  BY <1>1, <1>2

(* Nor do the parents of violations that are taken in.                     *)
LEMMA ParentsStayInside ==
  ASSUME NEW g, IsDag(g), NEW T \in SUBSET DOMAIN g, LinearlyOrdered(g, T), NEW set \in SUBSET T
  PROVE  ViolationParents(g, set) \subseteq T
<1> DEFINE relevant == ChildrenOrSelf(g, DOMAIN g \ set) \cap AncestorsOrSelf(g, set)
<1>1. ASSUME NEW x \in DOMAIN g, NEW y \in DOMAIN g, x # y, ~Linked(g, x, y),
             NEW w \in relevant, {x, y} \subseteq g[w]
      PROVE  x \in T
  <2>1. w \in AncestorsOrSelf(g, T) /\ w \in DOMAIN g
    <3>1. set \in SUBSET AncestorsOrSelf(g, T) /\ AncestorsOrSelf(g, T) \subseteq DOMAIN g
      BY AncestorFacts
    <3> QED
      BY <3>1, AncestorsOfAncestors
  <2>2. CASE w \in ChildrenOrSelf(g, DOMAIN g \ T)
    BY <1>1, <2>1, <2>2 DEF LinearlyOrdered
  <2>3. CASE w \notin ChildrenOrSelf(g, DOMAIN g \ T)
    BY <1>1, <2>1, <2>3 DEF ChildrenOrSelf
  <2> QED
    BY <2>2, <2>3
<1>2. ASSUME NEW v \in ViolationParents(g, set)
      PROVE  v \in T
  <2>1. PICK r \in (DOMAIN g) \X (DOMAIN g) :
          /\ v = r[1] /\ r[1] # r[2] /\ ~Linked(g, r[1], r[2])
          /\ \E w \in relevant : {r[1], r[2]} \subseteq g[w]
    BY DEF ViolationParents
  <2>2. r[1] \in DOMAIN g /\ r[2] \in DOMAIN g
    OBVIOUS
  <2> HIDE DEF relevant
  <2> QED
    BY <1>1, <2>1, <2>2
<1> QED
  BY <1>2
------------------------------------------------------------------------------
(* A neighbour of what is left out is on its Markov boundary.              *)
LEMMA NeighboursAreBoundary ==
  ASSUME NEW g, NEW m, NEW A \in SUBSET DOMAIN g,
         NEW x \in DOMAIN g \ m, NEW v \in m, Moral(g, A, x, v)
  PROVE  x \in MarkovBoundary(g, m)
BY DEF MarkovBoundary, ChildrenOrSelf, Moral, Linked

(* One more step on a path.                                                *)
LEMMA MoralExtends ==
  ASSUME NEW g, NEW A, NEW inner, NEW x, NEW v \in inner, NEW w, Moral(g, A, v, w),
         NEW k \in Nat, NEW r, IsMoralPath(g, A, inner, x, v, k, r)
  PROVE  \E l \in Nat : \E s : IsMoralPath(g, A, inner, x, w, l, s)
<1> DEFINE l == k + 1
           s == [j \in 0..(l + 1) |-> IF j <= l THEN r[j] ELSE w]
<1>1. l \in Nat /\ l = k + 1
  OBVIOUS
<1>2. \A j \in 0..(l + 1) : s[j] = IF j <= l THEN r[j] ELSE w
  OBVIOUS
<1> HIDE DEF s, l
<1>3. s[0] = x /\ s[l] = v /\ s[l + 1] = w
  <2>1. /\ 0 \in 0..(l + 1) /\ l \in 0..(l + 1) /\ l + 1 \in 0..(l + 1)
        /\ 0 <= l /\ l <= l /\ ~(l + 1 <= l)
    BY <1>1
  <2> QED
    BY <1>1, <1>2, <2>1 DEF IsMoralPath
<1>4. \A j \in 1..l : s[j] \in inner
  <2> TAKE j \in 1..l
  <2>1. j = l \/ (j \in 1..k /\ j \in 0..(l + 1) /\ j <= l)
    BY <1>1
  <2> QED
    BY <1>2, <1>3, <2>1 DEF IsMoralPath
<1>5. \A j \in 1..(l + 1) : Moral(g, A, s[j - 1], s[j])
  <2> TAKE j \in 1..(l + 1)
  <2>1. CASE j = l + 1
    <3>1. j - 1 = l
      BY <1>1, <2>1
    <3> QED
      BY <1>3, <2>1, <3>1
  <2>2. CASE j # l + 1
    <3>1. j \in 1..(k + 1) /\ j \in 0..(l + 1) /\ j - 1 \in 0..(l + 1) /\ j <= l /\ j - 1 <= l
      BY <1>1, <2>2
    <3> QED
      BY <1>2, <3>1 DEF IsMoralPath
  <2> QED
    BY <2>1, <2>2
<1> QED
  BY <1>1, <1>3, <1>4, <1>5 DEF IsMoralPath

(* Two neighbours are a path.                                              *)
LEMMA MoralBegins ==
  ASSUME NEW g, NEW A, NEW inner, NEW x, NEW w, Moral(g, A, x, w)
  PROVE  \E l \in Nat : \E s : IsMoralPath(g, A, inner, x, w, l, s)
<1> DEFINE s == [j \in 0..1 |-> IF j = 0 THEN x ELSE w]
<1>1. s[0] = x /\ s[1] = w /\ 0 \in Nat /\ 0 + 1 = 1 /\ (\A j \in 1..0 : FALSE)
      /\ (\A j \in 1..(0 + 1) : j = 1) /\ 1 - 1 = 0
  OBVIOUS
<1> HIDE DEF s
<1>2. IsMoralPath(g, A, inner, x, w, 0, s)
  BY <1>1 DEF IsMoralPath
<1> QED
  BY <1>1, <1>2

(* A walk becomes a path of the moral graph outside T once its vertices in *)
(* T are left out: their neighbours on the walk have them as common child. *)
LEMMA WalkHasMoralPath ==
  ASSUME NEW g, IsDag(g), NEW T \in SUBSET DOMAIN g, NEW a \in T, NEW b \in T, a # b,
         Reaches(g, T, a, b, "any", "any"),
         NEW A, A = AncestorsOrSelf(g, {a, b}), NEW inner, inner = (DOMAIN g \ T) \cap A
  PROVE  \E k \in Nat : \E r : IsMoralPath(g, A, inner, a, b, k, r)
<1> DEFINE Reached(v) == \E k \in Nat : \E r : IsMoralPath(g, A, inner, a, v, k, r)
<1>1. A \subseteq DOMAIN g
  <2>1. {a, b} \in SUBSET DOMAIN g
    OBVIOUS
  <2> QED
    BY <2>1, AncestorFacts
<1>2. PICK n \in Nat \ {0} : \E q \in [0..n -> A] :
        q[0] = a /\ q[n] = b /\ IsWalk(g, T, q, n, "any", "any")
  BY DEF Reaches, Walks
<1>3. PICK q \in [0..n -> A] : q[0] = a /\ q[n] = b /\ IsWalk(g, T, q, n, "any", "any")
  BY <1>2
<1>4. /\ \A j \in 1..n : Linked(g, q[j - 1], q[j])
      /\ \A j \in 1..(n - 1) : q[j] \in T => q[j - 1] \in g[q[j]] /\ q[j + 1] \in g[q[j]]
  BY <1>3 DEF IsWalk
<1>5. \A v, w : Reached(v) /\ v \in inner /\ Moral(g, A, v, w) => Reached(w)
  BY MoralExtends
<1>6. \A w : Moral(g, A, a, w) => Reached(w)
  BY MoralBegins
<1>7. /\ \A v \in DOMAIN g : v \notin g[v]
      /\ \A v, w \in DOMAIN g : v \in g[w] => w \notin g[v]
  BY DagBasics
<1> HIDE DEF Reached
<1> DEFINE Bad == {j \in 1..n : (q[j] \notin T \/ j = n) /\ ~Reached(q[j])}
<1>8. Bad = {}
  <2> SUFFICES ASSUME Bad # {}
               PROVE  FALSE
    OBVIOUS
  <2>1. PICK j \in Bad : \A k \in Bad : j <= k
    <3>1. Bad \in SUBSET Nat
      OBVIOUS
    <3> HIDE DEF Bad
    <3> QED
      BY <3>1, MinOfNaturals
  <2>2. j \in 1..n /\ j \in 0..n /\ j - 1 \in 0..n /\ (q[j] \notin T \/ j = n) /\ ~Reached(q[j])
    OBVIOUS
  <2>3. ASSUME NEW k \in 1..n, k < j, q[k] \notin T
        PROVE  Reached(q[k])
    <3>1. k \notin Bad
      <4>1. ~(j <= k)
        BY <2>2, <2>3
      <4> HIDE DEF Bad
      <4> QED
        BY <2>1, <4>1
    <3> QED
      BY <2>3, <3>1
  <2> HIDE DEF Bad
  <2>4. q[j] # a /\ q[j] \in A /\ q[j - 1] \in A /\ Linked(g, q[j - 1], q[j])
    BY <1>3, <1>4, <2>2
  <2>5. q[j - 1] # q[j]
    BY <1>1, <1>7, <2>4 DEF Linked
  <2>6. Moral(g, A, q[j - 1], q[j])
    BY <2>4, <2>5 DEF Moral
  <2>7. CASE j = 1
    <3>1. q[j - 1] = a
      <4>1. j - 1 = 0
        BY <2>7
      <4> QED
        BY <1>3, <4>1
    <3> QED
      BY <1>6, <2>2, <2>6, <3>1
  <2>8. CASE j # 1 /\ q[j - 1] \notin T
    <3>1. j - 1 \in 1..n /\ j - 1 < j
      BY <2>2, <2>8
    <3>2. Reached(q[j - 1]) /\ q[j - 1] \in inner
      BY <1>1, <2>3, <2>4, <2>8, <3>1
    <3> QED
      BY <1>5, <2>2, <2>6, <3>2
  <2>9. CASE j # 1 /\ q[j - 1] \in T
    <3> DEFINE i == j - 1
    <3>1. /\ i \in 1..(n - 1) /\ i + 1 = j /\ i - 1 \in 0..n /\ i = j - 1
          /\ (i = 1 \/ i - 1 \in 1..(n - 1)) /\ (i - 1) + 1 = i /\ i - 1 < j
      BY <2>2, <2>9
    <3> HIDE DEF i
    <3>2. q[i - 1] \in g[q[i]] /\ q[j] \in g[q[i]] /\ q[i] \in A /\ q[i - 1] \in A
      BY <1>3, <1>4, <2>4, <2>9, <3>1
    <3>3. q[i - 1] # q[j] => Moral(g, A, q[i - 1], q[j])
      BY <2>4, <3>2 DEF Moral
    <3>4. CASE i = 1
      <4>1. q[i - 1] = a
        BY <1>3, <3>4
      <4> QED
        BY <1>6, <2>2, <2>4, <3>3, <4>1
    <3>5. CASE i # 1
      <4>1. i - 1 \in 1..(n - 1) /\ i - 1 \in 1..n
        BY <3>1, <3>5
      <4>2. q[i - 1] \notin T
        <5>1. q[i - 1] \in T => q[i] \in g[q[i - 1]]
          BY <1>4, <3>1, <4>1
        <5> QED
          BY <1>1, <1>7, <3>2, <5>1
      <4>3. Reached(q[i - 1]) /\ q[i - 1] \in inner
        BY <1>1, <2>3, <3>1, <3>2, <4>1, <4>2
      <4> QED
        BY <1>5, <2>2, <3>3, <4>3
    <3> QED
      BY <3>4, <3>5
  <2> QED
    BY <2>7, <2>8, <2>9
<1>9. Reached(b)
  <2>1. n \in 1..n
    OBVIOUS
  <2> QED
    BY <1>3, <1>8, <2>1
<1> QED
  BY <1>9 DEF Reached

(* When a round of the closure adds nothing, the set is d-convex.          *)
LEMMA FixedPointIsConvex ==
  ASSUME NEW g, IsDag(g), DOMAIN g \in SUBSET Nat, NEW set \in SUBSET DOMAIN g,
         NEW path \in PathChoices(g, set),
         UNION {f[1] \cup path[f] : f \in DOMAIN path} \subseteq set
  PROVE  DConvex(g, set)
<1> DEFINE m == DOMAIN g \ set
           found == {<<p, ShortestPaths(g, m, p)>> : p \in TargetPairs(g, set)}
           pairs == {f \in found : f[2] # {}}
<1>1. DOMAIN path = pairs /\ \A f \in pairs : path[f] \in f[2]
  BY DEF PathChoices
<1>2. ASSUME NEW a \in set, NEW b \in set, a < b, ~Linked(g, a, b), InducingPath(g, set, a, b)
      PROVE  FALSE
  <2> DEFINE p == {a, b}
             A == AncestorsOrSelf(g, p)
             inner == m \cap A
  <2>1. a \in Nat /\ b \in Nat /\ a # b /\ p \in SUBSET DOMAIN g /\ m \in SUBSET DOMAIN g
    BY <1>2
  <2>2. Min(p) = a /\ Max(p) = b
    <3>1. /\ Min({a, b}) = a \/ Min({a, b}) = b
          /\ Min({a, b}) <= a
          /\ Max({a, b}) = a \/ Max({a, b}) = b
          /\ Max({a, b}) >= b
      BY <2>1, MinMaxOfTwo
    <3> QED
      BY <1>2, <2>1, <3>1
  <2>3. A \in SUBSET DOMAIN g
    BY <2>1, AncestorFacts
  <2>4. Reaches(g, set, a, b, "any", "any")
    BY <1>2, InducingPathIsWalk
  <2>5. PICK k0 \in Nat : \E r : IsMoralPath(g, A, inner, a, b, k0, r)
    BY <2>1, <2>4, WalkHasMoralPath
  <2>6. PICK r0 : IsMoralPath(g, A, inner, a, b, k0, r0)
    BY <2>5
  <2> HIDE DEF p
  <2>7. ShortestPaths(g, m, p) # {}
    BY <2>1, <2>2, <2>6, ShortestPathsAre
  <2>8. ASSUME NEW set2 \in ShortestPaths(g, m, p)
        PROVE  /\ ~(set2 \subseteq set)
               /\ a \in MarkovBoundary(g, m) /\ b \in MarkovBoundary(g, m)
    <3>1. IsShortestSet(g, A, m \cap A, a, b, set2)
      BY <2>1, <2>2, ShortestPathsAre
    <3>2. PICK k \in Nat : \E q : IsShortest(g, A, m \cap A, a, b, k, q) /\ set2 = {q[j] : j \in 1..k}
      BY <3>1 DEF IsShortestSet
    <3>3. PICK q : IsShortest(g, A, m \cap A, a, b, k, q) /\ set2 = {q[j] : j \in 1..k}
      BY <3>2
    <3>4. IsMoralPath(g, A, inner, a, b, k, q)
      BY <3>3 DEF IsShortest
    <3>5. k # 0
      <4> SUFFICES ASSUME k = 0
                   PROVE  FALSE
        OBVIOUS
      <4>1. 1 \in 1..(k + 1) /\ 1 - 1 = 0 /\ k + 1 = 1
        OBVIOUS
      <4>2. Moral(g, A, a, b)
        BY <3>4, <4>1 DEF IsMoralPath
      <4>3. PICK c \in A : {a, b} \subseteq g[c]
        BY <1>2, <4>2 DEF Moral
      <4>4. a \in DOMAIN g /\ b \in DOMAIN g /\ c \in AncestorsOrSelf(g, {a, b})
        BY <4>3 DEF p
      <4> QED
        BY <4>3, <4>4, NoChildAbove
    <3>6. /\ 1 \in 1..k /\ k \in 1..k /\ 1 \in 1..(k + 1) /\ k + 1 \in 1..(k + 1)
          /\ (k + 1) - 1 = k /\ 1 - 1 = 0
      BY <3>5
    <3>7. /\ q[1] \in m /\ q[k] \in m /\ q[1] \in set2
          /\ Moral(g, A, a, q[1]) /\ Moral(g, A, q[k], b)
      BY <3>3, <3>4, <3>6 DEF IsMoralPath
    <3>8. Moral(g, A, b, q[k])
      BY <3>7 DEF Moral, Linked
    <3>9. a \in DOMAIN g \ m /\ b \in DOMAIN g \ m
      OBVIOUS
    <3> HIDE DEF m
    <3>10. a \in MarkovBoundary(g, m) /\ b \in MarkovBoundary(g, m)
      BY <2>3, <3>7, <3>8, <3>9, NeighboursAreBoundary
    <3> QED
      BY <3>7, <3>10 DEF m
  <2>9. p \in TargetPairs(g, set)
    <3>1. a \in set \cap MarkovBoundary(g, m) /\ b \in set \cap MarkovBoundary(g, m)
      BY <2>7, <2>8
    <3>2. p = {a, b} /\ a \in p /\ b \in p
      BY DEF p
    <3> QED
      BY <1>2, <2>1, <3>1, <3>2 DEF TargetPairs
  <2> DEFINE f == <<p, ShortestPaths(g, m, p)>>
  <2>10. f \in pairs /\ f[2] = ShortestPaths(g, m, p)
    BY <2>7, <2>9
  <2>11. path[f] \in ShortestPaths(g, m, p) /\ path[f] \subseteq set
    <3> HIDE DEF pairs, f
    <3> QED
      BY <1>1, <2>10
  <2> QED
    BY <2>8, <2>11
<1> QED
  BY <1>2 DEF DConvex
------------------------------------------------------------------------------
(***************************************************************************)
(* Equivalent DAGs.                                                        *)
(*                                                                         *)
(* Two DAGs with the same links and the same unshielded colliders can be   *)
(* turned into each other one covered arrow at a time, and turning a       *)
(* covered arrow changes nothing in what is convex.                        *)
(***************************************************************************)

(* f is g with the arrow from x to y turned round.  The arrow is covered:  *)
(* the other parents of y are the parents of x.                            *)
TurnedInto(g, f, x, y) ==
  /\ DOMAIN f = DOMAIN g /\ x \in DOMAIN g /\ y \in DOMAIN g /\ x # y
  /\ g[y] = g[x] \cup {x}
  /\ f[y] = g[x] /\ f[x] = g[x] \cup {y}
  /\ \A v \in DOMAIN g \ {x, y} : f[v] = g[v]

(* It can be turned back, and links stay what they are.                    *)
LEMMA TurnedBack ==
  ASSUME NEW g, NEW f, NEW x, NEW y, TurnedInto(g, f, x, y)
  PROVE  /\ TurnedInto(f, g, y, x)
         /\ \A a, b \in DOMAIN g : Linked(f, a, b) <=> Linked(g, a, b)
BY DEF TurnedInto, Linked

(* At most y is an ancestor only after the turn, and then x was one.       *)
LEMMA TurnedAncestors ==
  ASSUME NEW g, IsDag(g), NEW f, IsDag(f), NEW x, NEW y, TurnedInto(g, f, x, y),
         NEW seeds \in SUBSET DOMAIN g
  PROVE  /\ AncestorsOrSelf(f, seeds) \subseteq AncestorsOrSelf(g, seeds) \cup {y}
         /\ y \in AncestorsOrSelf(f, seeds) =>
              y \in AncestorsOrSelf(g, seeds) \/ x \in AncestorsOrSelf(g, seeds)
<1> DEFINE U == AncestorsOrSelf(g, seeds)
<1>1. seeds \subseteq U /\ U \subseteq DOMAIN g /\ \A v \in U : g[v] \subseteq U
  BY AncestorFacts
<1>2. DOMAIN f = DOMAIN g
  BY DEF TurnedInto
<1> HIDE DEF U
<1>3. ASSUME NEW C \in SUBSET DOMAIN g, seeds \subseteq C, \A v \in C : f[v] \subseteq C
      PROVE  AncestorsOrSelf(f, seeds) \subseteq C
  <2>1. seeds \in SUBSET DOMAIN f /\ C \in SUBSET DOMAIN f
    BY <1>2
  <2> QED
    BY <1>3, <2>1, AncestorFacts
<1>4. CASE x \in U
  <2>1. \A v \in U \cup {y} : f[v] \subseteq U \cup {y}
    BY <1>1, <1>4 DEF TurnedInto
  <2>2. U \cup {y} \in SUBSET DOMAIN g /\ seeds \subseteq U \cup {y}
    BY <1>1 DEF TurnedInto
  <2>3. AncestorsOrSelf(f, seeds) \subseteq U \cup {y}
    BY <1>3, <2>1, <2>2
  <2> QED
    BY <1>4, <2>3 DEF U
<1>5. CASE x \notin U
  <2>1. y \notin U
    BY <1>1, <1>5 DEF TurnedInto
  <2>2. \A v \in U : f[v] \subseteq U
    BY <1>1, <1>5, <2>1 DEF TurnedInto
  <2>3. AncestorsOrSelf(f, seeds) \subseteq U
    BY <1>1, <1>3, <2>2
  <2> QED
    BY <2>1, <2>3 DEF U
<1> QED
  BY <1>4, <1>5

(* A vertex on the shortest walk that would only pass on: with two linked  *)
(* neighbours of which neither is a member of T.                           *)
LEMMA NoVertexToSkip ==
  ASSUME NEW g, NEW T, NEW A, NEW x, NEW y, NEW n \in Nat \ {0},
         NEW q, WalkOf(g, T, A, x, y, n, q),
         \A m \in Nat \ {0} : \A r : WalkOf(g, T, A, x, y, m, r) => n <= m,
         NEW j \in 1..(n - 1), Linked(g, q[j - 1], q[j + 1]),
         j - 1 # 0 => q[j - 1] \notin T, j + 1 # n => q[j + 1] \notin T
  PROVE  FALSE
<1> DEFINE i == j - 1
           k == j + 1
           l == n - 1
<1>1. /\ i \in Nat /\ k \in Nat /\ l \in Nat /\ i < k /\ k <= n /\ l + k = n + i + 1 /\ ~(n <= l)
      /\ i = j - 1 /\ k = j + 1
  OBVIOUS
<1> HIDE DEF i, k, l
<1>2. Linked(g, q[i], q[k]) /\ ~(i # 0 /\ q[i] \in T) /\ ~(k # n /\ q[k] \in T)
  BY <1>1
<1>3. l \in Nat \ {0} /\ \E r : WalkOf(g, T, A, x, y, l, r)
  BY <1>1, <1>2, Shortcut
<1> QED
  BY <1>1, <1>3
(* On the shortest walk no collider has neighbours that are linked.        *)
LEMMA ColliderIsUnshielded ==
  ASSUME NEW g, IsDag(g), NEW T, NEW A \in SUBSET DOMAIN g, NEW x, NEW y, NEW n \in Nat \ {0},
         NEW q, WalkOf(g, T, A, x, y, n, q),
         \A m \in Nat \ {0} : \A r : WalkOf(g, T, A, x, y, m, r) => n <= m,
         NEW j \in 1..(n - 1), q[j - 1] \in g[q[j]], q[j + 1] \in g[q[j]],
         Linked(g, q[j - 1], q[j + 1])
  PROVE  FALSE
<1>1. /\ j - 1 \in 0..n /\ j \in 0..n /\ j + 1 \in 0..n
      /\ (j - 1) + 1 = j /\ (j + 1) - 1 = j
      /\ (j - 1 # 0 => j - 1 \in 1..(n - 1)) /\ (j + 1 # n => j + 1 \in 1..(n - 1))
  OBVIOUS
<1>2. q[j - 1] \in DOMAIN g /\ q[j] \in DOMAIN g /\ q[j + 1] \in DOMAIN g
  BY <1>1 DEF WalkOf
<1>3. q[j] \notin g[q[j - 1]] /\ q[j] \notin g[q[j + 1]]
  BY <1>2, DagBasics
<1>4. j - 1 # 0 => q[j - 1] \notin T
  <2> SUFFICES ASSUME j - 1 # 0, q[j - 1] \in T
               PROVE  FALSE
    OBVIOUS
  <2>1. q[(j - 1) + 1] \in g[q[j - 1]]
    BY <1>1 DEF WalkOf, IsWalk
  <2> QED
    BY <1>1, <1>3, <2>1
<1>5. j + 1 # n => q[j + 1] \notin T
  <2> SUFFICES ASSUME j + 1 # n, q[j + 1] \in T
               PROVE  FALSE
    OBVIOUS
  <2>1. q[(j + 1) - 1] \in g[q[j + 1]]
    BY <1>1 DEF WalkOf, IsWalk
  <2> QED
    BY <1>1, <1>3, <2>1
<1> QED
  BY <1>4, <1>5, NoVertexToSkip

(* A vertex of a walk without arrowheads to its neighbours can be replaced *)
(* by a common child of theirs.                                            *)
LEMMA ReplacedOnWalk ==
  ASSUME NEW g, NEW T, NEW A, NEW B, NEW a, NEW b, NEW n \in Nat \ {0}, NEW q,
         WalkOf(g, T, B, a, b, n, q), NEW j \in 1..(n - 1), NEW x \in A,
         \A k \in 0..n : k # j => q[k] \in A,
         q[j - 1] \in g[x], q[j + 1] \in g[x],
         q[j] \notin g[q[j - 1]], q[j] \notin g[q[j + 1]]
  PROVE  Walks(g, T, A, a, b, "any", "any")
<1> DEFINE r == [k \in 0..n |-> IF k = j THEN x ELSE q[k]]
<1>1. r \in [0..n -> A] /\ r[j] = x /\ \A k \in 0..n : k # j => r[k] = q[k]
  OBVIOUS
<1> HIDE DEF r
<1>2. r[0] = a /\ r[n] = b
  <2>1. 0 \in 0..n /\ n \in 0..n /\ 0 # j /\ n # j
    OBVIOUS
  <2> QED
    BY <1>1, <2>1 DEF WalkOf
<1>3. j - 1 \in 0..n /\ j + 1 \in 0..n /\ j - 1 # j /\ j + 1 # j
  OBVIOUS
<1>4. r[j - 1] = q[j - 1] /\ r[j + 1] = q[j + 1]
  BY <1>1, <1>3
<1>5. ASSUME NEW k \in 1..n
      PROVE  Linked(g, r[k - 1], r[k])
  <2>1. k - 1 \in 0..n /\ k \in 0..n /\ (k = j + 1 => k - 1 = j)
    OBVIOUS
  <2>2. CASE k = j
    BY <1>1, <1>4, <2>2 DEF Linked
  <2>3. CASE k = j + 1
    BY <1>1, <1>4, <2>1, <2>3 DEF Linked
  <2>4. CASE k # j /\ k # j + 1
    <3>1. k - 1 # j
      BY <2>4
    <3>2. r[k - 1] = q[k - 1] /\ r[k] = q[k]
      BY <1>1, <2>1, <2>4, <3>1
    <3> QED
      BY <3>2 DEF WalkOf, IsWalk
  <2> QED
    BY <2>2, <2>3, <2>4
<1>6. ASSUME NEW k \in 1..(n - 1), r[k] \in T
      PROVE  r[k - 1] \in g[r[k]] /\ r[k + 1] \in g[r[k]]
  <2>1. /\ k - 1 \in 0..n /\ k \in 0..n /\ k + 1 \in 0..n
        /\ (k = j - 1 => k + 1 = j) /\ (k = j + 1 => k - 1 = j)
    OBVIOUS
  <2>2. CASE k = j
    BY <1>1, <1>4, <2>2
  <2>3. k # j => r[k] = q[k] /\ q[k - 1] \in g[q[k]] /\ q[k + 1] \in g[q[k]]
    BY <1>1, <1>6, <2>1 DEF WalkOf, IsWalk
  <2>4. k # j - 1
    BY <2>1, <2>3, <1>3
  <2>5. k # j + 1
    BY <2>1, <2>3, <1>3
  <2>6. CASE k # j
    <3>1. k - 1 # j /\ k + 1 # j
      BY <2>4, <2>5
    <3>2. r[k - 1] = q[k - 1] /\ r[k + 1] = q[k + 1]
      BY <1>1, <2>1, <3>1
    <3> QED
      BY <2>3, <2>6, <3>2
  <2> QED
    BY <2>2, <2>6
<1>7. IsWalk(g, T, r, n, "any", "any")
  BY <1>5, <1>6 DEF IsWalk
<1> QED
  BY <1>1, <1>2, <1>7 DEF Walks

(* A walk of f is one of g, if x is never a member of T next to y on it.   *)
LEMMA WalkBeforeTurn ==
  ASSUME NEW g, NEW f, NEW x, NEW y, TurnedInto(g, f, x, y),
         NEW T, NEW A \in SUBSET DOMAIN g, NEW a, NEW b, NEW n \in Nat \ {0}, NEW q,
         WalkOf(f, T, A, a, b, n, q),
         \A j \in 1..(n - 1) : q[j] = x /\ x \in T => q[j - 1] # y /\ q[j + 1] # y
  PROVE  WalkOf(g, T, A, a, b, n, q)
<1>1. ASSUME NEW k \in 1..n
      PROVE  Linked(g, q[k - 1], q[k])
  <2>1. k - 1 \in 0..n /\ k \in 0..n
    OBVIOUS
  <2>2. q[k - 1] \in DOMAIN g /\ q[k] \in DOMAIN g /\ Linked(f, q[k - 1], q[k])
    BY <2>1 DEF WalkOf, IsWalk
  <2> QED
    BY <2>2, TurnedBack
<1>2. ASSUME NEW k \in 1..(n - 1), q[k] \in T
      PROVE  q[k - 1] \in g[q[k]] /\ q[k + 1] \in g[q[k]]
  <2>1. q[k - 1] \in f[q[k]] /\ q[k + 1] \in f[q[k]]
    BY <1>2 DEF WalkOf, IsWalk
  <2>2. k \in 0..n
    OBVIOUS
  <2>3. q[k] \in DOMAIN g
    BY <2>2 DEF WalkOf
  <2>4. q[k] = x => q[k - 1] # y /\ q[k + 1] # y
    BY <1>2
  <2> QED
    BY <2>1, <2>3, <2>4 DEF TurnedInto
<1> QED
  BY <1>1, <1>2 DEF WalkOf, IsWalk

(* On the shortest walk of f, x is never a member of T next to y: it would *)
(* be met by two arrowheads from linked vertices.                          *)
LEMMA NotBesideY ==
  ASSUME NEW g, NEW f, IsDag(f), NEW x, NEW y, TurnedInto(g, f, x, y),
         NEW T, NEW A \in SUBSET DOMAIN f, NEW a, NEW b, NEW n \in Nat \ {0}, NEW q,
         WalkOf(f, T, A, a, b, n, q),
         \A m \in Nat \ {0} : \A r : WalkOf(f, T, A, a, b, m, r) => n <= m,
         \A i, j \in 0..n : q[i] = q[j] => i = j,
         NEW j \in 1..(n - 1), q[j] = x, x \in T
  PROVE  q[j - 1] # y /\ q[j + 1] # y
<1>1. j - 1 \in 0..n /\ j + 1 \in 0..n /\ j - 1 # j + 1
  OBVIOUS
<1>2. q[j - 1] # q[j + 1]
  BY <1>1
<1>3. q[j - 1] \in f[q[j]] /\ q[j + 1] \in f[q[j]]
  BY DEF WalkOf, IsWalk
<1>4. ~Linked(f, q[j - 1], q[j + 1])
  BY <1>3, ColliderIsUnshielded
<1> QED
  BY <1>2, <1>3, <1>4 DEF TurnedInto, Linked

(* If y is an ancestor only in f, the shortest walk of f does not pass     *)
(* between x and y.                                                        *)
LEMMA NotPastXandY ==
  ASSUME NEW g, NEW f, IsDag(f), NEW x, NEW y, TurnedInto(g, f, x, y),
         NEW T, NEW A \in SUBSET DOMAIN f, NEW a, NEW b, NEW n \in Nat \ {0}, NEW q,
         WalkOf(f, T, A, a, b, n, q),
         \A m \in Nat \ {0} : \A r : WalkOf(f, T, A, a, b, m, r) => n <= m,
         \A k \in 1..(n - 1) : q[k] = x /\ x \in T => q[k - 1] # y /\ q[k + 1] # y,
         NEW j \in 1..(n - 1), q[j] = y
  PROVE  ~(q[j - 1] = x /\ q[j + 1] \in g[x]) /\ ~(q[j + 1] = x /\ q[j - 1] \in g[x])
<1>1. /\ j - 1 \in 0..n /\ j + 1 \in 0..n /\ (j - 1) + 1 = j /\ (j + 1) - 1 = j
      /\ (j - 1 # 0 => j - 1 \in 1..(n - 1)) /\ (j + 1 # n => j + 1 \in 1..(n - 1))
  OBVIOUS
<1>2. q[j - 1] \in DOMAIN f /\ q[j + 1] \in DOMAIN f /\ y \in DOMAIN f
  BY <1>1 DEF WalkOf, TurnedInto
<1>3. /\ j - 1 # 0 => ~(q[j - 1] = x /\ x \in T)
      /\ j + 1 # n => ~(q[j + 1] = x /\ x \in T)
  BY <1>1
<1>4. /\ j - 1 # 0 => ~(q[j - 1] \in g[x] /\ q[j - 1] \in T)
      /\ j + 1 # n => ~(q[j + 1] \in g[x] /\ q[j + 1] \in T)
  <2>1. ASSUME NEW c \in DOMAIN f, c \in g[x], y \in f[c]
        PROVE  FALSE
    BY <1>2, <2>1, DagBasics DEF TurnedInto
  <2>2. j - 1 # 0 /\ q[j - 1] \in T => q[(j - 1) + 1] \in f[q[j - 1]]
    BY <1>1 DEF WalkOf, IsWalk
  <2>3. j + 1 # n /\ q[j + 1] \in T => q[(j + 1) - 1] \in f[q[j + 1]]
    BY <1>1 DEF WalkOf, IsWalk
  <2> QED
    BY <1>1, <1>2, <2>1, <2>2, <2>3
<1>5. ASSUME q[j - 1] = x, q[j + 1] \in g[x]
      PROVE  FALSE
  <2>1. Linked(f, q[j - 1], q[j + 1])
    BY <1>5 DEF Linked, TurnedInto
  <2>2. (j - 1 # 0 => q[j - 1] \notin T) /\ (j + 1 # n => q[j + 1] \notin T)
    BY <1>3, <1>4, <1>5
  <2> QED
    BY <2>1, <2>2, NoVertexToSkip
<1>6. ASSUME q[j + 1] = x, q[j - 1] \in g[x]
      PROVE  FALSE
  <2>1. Linked(f, q[j - 1], q[j + 1])
    BY <1>6 DEF Linked, TurnedInto
  <2>2. (j - 1 # 0 => q[j - 1] \notin T) /\ (j + 1 # n => q[j + 1] \notin T)
    BY <1>3, <1>4, <1>6
  <2> QED
    BY <2>1, <2>2, NoVertexToSkip
<1> QED
  BY <1>5, <1>6

(* The turn keeps d-convex sets d-convex.                                  *)
LEMMA TurnedKeepsConvex ==
  ASSUME NEW g, IsDag(g), NEW f, IsDag(f), NEW x, NEW y, TurnedInto(g, f, x, y),
         NEW T \in SUBSET DOMAIN g, WalkConvex(g, T)
  PROVE  WalkConvex(f, T)
<1>1. DOMAIN f = DOMAIN g
  BY DEF TurnedInto
<1> SUFFICES ASSUME NEW a \in T, NEW b \in T, a # b, Reaches(f, T, a, b, "any", "any"),
                    ~Linked(f, a, b)
             PROVE  FALSE
  BY DEF WalkConvex
<1> DEFINE A == AncestorsOrSelf(g, {a, b})
           B == AncestorsOrSelf(f, {a, b})
<1>2. {a, b} \in SUBSET DOMAIN g /\ {a, b} \in SUBSET DOMAIN f /\ a \in DOMAIN g /\ b \in DOMAIN g
  BY <1>1
<1>3. /\ A \in SUBSET DOMAIN g /\ a \in A /\ b \in A /\ \A v \in A : g[v] \subseteq A
      /\ B \in SUBSET DOMAIN f /\ B \in SUBSET DOMAIN g
  BY <1>1, <1>2, AncestorFacts
<1>4. B \subseteq A \cup {y} /\ (y \in B => y \in A \/ x \in A)
  BY <1>2, TurnedAncestors
<1>5. ~Walks(g, T, A, a, b, "any", "any")
  <2>1. ~Linked(g, a, b)
    BY <1>2, TurnedBack
  <2> QED
    BY <2>1 DEF WalkConvex, Reaches
<1>6. Walks(f, T, B, a, b, "any", "any")
  BY DEF Reaches
<1> HIDE DEF A, B
<1>7. PICK n \in Nat \ {0} : \E q :
        /\ WalkOf(f, T, B, a, b, n, q)
        /\ \A m \in Nat \ {0} : \A r : WalkOf(f, T, B, a, b, m, r) => n <= m
        /\ \A i, j \in 0..n : q[i] = q[j] => i = j
  BY <1>6, ShortestWalk
<1>8. PICK q :
        /\ WalkOf(f, T, B, a, b, n, q)
        /\ \A m \in Nat \ {0} : \A r : WalkOf(f, T, B, a, b, m, r) => n <= m
        /\ \A i, j \in 0..n : q[i] = q[j] => i = j
  BY <1>7
<1>9. \A j \in 1..(n - 1) : q[j] = x /\ x \in T => q[j - 1] # y /\ q[j + 1] # y
  BY <1>3, <1>8, NotBesideY
<1>10. WalkOf(g, T, B, a, b, n, q)
  BY <1>3, <1>8, <1>9, WalkBeforeTurn
<1>11. PICK j \in 0..n : q[j] \notin A
  <2> SUFFICES ASSUME \A j \in 0..n : q[j] \in A
               PROVE  FALSE
    OBVIOUS
  <2>1. q \in [0..n -> A] /\ q[0] = a /\ q[n] = b /\ IsWalk(g, T, q, n, "any", "any")
    BY <1>10 DEF WalkOf
  <2> QED
    BY <1>5, <2>1 DEF Walks
<1>12. q[j] = y /\ y \in B /\ y \notin A /\ x \in A
  BY <1>4, <1>10, <1>11 DEF WalkOf
<1>13. \A k \in 0..n : k # j => q[k] \in A
  BY <1>4, <1>8, <1>10, <1>12 DEF WalkOf
<1>14. j \in 1..(n - 1)
  <2>1. j # 0 /\ j # n
    BY <1>3, <1>10, <1>11 DEF WalkOf
  <2> QED
    BY <2>1
<1>15. j - 1 \in 0..n /\ j + 1 \in 0..n /\ j - 1 # j /\ j + 1 # j /\ j - 1 # j + 1
       /\ j \in 1..n /\ j + 1 \in 1..n /\ (j + 1) - 1 = j
  BY <1>14
<1>16. q[j - 1] \in A /\ q[j + 1] \in A /\ q[j - 1] # q[j + 1]
  BY <1>8, <1>13, <1>15
<1>17. y \notin g[q[j - 1]] /\ y \notin g[q[j + 1]]
  BY <1>3, <1>12, <1>16
<1>18. q[j - 1] \in g[y] /\ q[j + 1] \in g[y]
  <2>1. Linked(g, q[j - 1], q[j]) /\ Linked(g, q[(j + 1) - 1], q[j + 1])
    BY <1>10, <1>15 DEF WalkOf, IsWalk
  <2> QED
    BY <1>12, <1>15, <1>17, <2>1 DEF Linked
<1>19. g[y] = g[x] \cup {x}
  BY DEF TurnedInto
<1>20. ~(q[j - 1] = x /\ q[j + 1] \in g[x]) /\ ~(q[j + 1] = x /\ q[j - 1] \in g[x])
  BY <1>3, <1>8, <1>9, <1>12, <1>14, NotPastXandY
<1>21. q[j - 1] \in g[x] /\ q[j + 1] \in g[x]
  BY <1>16, <1>18, <1>19, <1>20
<1>22. Walks(g, T, A, a, b, "any", "any")
  BY <1>10, <1>12, <1>13, <1>14, <1>17, <1>21, ReplacedOnWalk
<1> QED
  BY <1>5, <1>22

(* The turn keeps linearly ordered sets linearly ordered.                  *)
LEMMA TurnedKeepsOrder ==
  ASSUME NEW g, IsDag(g), NEW f, IsDag(f), NEW x, NEW y, TurnedInto(g, f, x, y),
         NEW T \in SUBSET DOMAIN g, LinearlyOrdered(g, T)
  PROVE  LinearlyOrdered(f, T)
<1> SUFFICES ASSUME NEW w \in AncestorsOrSelf(f, T),
                    NEW p1 \in f[w], NEW p2 \in f[w], p1 # p2, ~({p1, p2} \subseteq T),
                    ~Linked(f, p1, p2)
             PROVE  FALSE
  BY DEF LinearlyOrdered
<1>1. DOMAIN f = DOMAIN g /\ T \in SUBSET DOMAIN f
  BY DEF TurnedInto
<1>2. w \in DOMAIN f
  BY <1>1, AncestorFacts
<1>3. p1 \in DOMAIN f /\ p2 \in DOMAIN f
  BY <1>2, DagBasics
<1>4. ~Linked(g, p1, p2)
  BY <1>1, <1>3, TurnedBack
<1>5. ASSUME NEW v \in AncestorsOrSelf(g, T), p1 \in g[v], p2 \in g[v]
      PROVE  FALSE
  <2>1. v \in DOMAIN g
    BY AncestorFacts
  <2>2. v \in ChildrenOrSelf(g, DOMAIN g \ T)
    BY <1>1, <1>3, <1>5, <2>1 DEF ChildrenOrSelf
  <2> QED
    BY <1>4, <1>5, <2>2 DEF LinearlyOrdered
<1>6. /\ AncestorsOrSelf(f, T) \subseteq AncestorsOrSelf(g, T) \cup {y}
      /\ y \in AncestorsOrSelf(f, T) => y \in AncestorsOrSelf(g, T) \/ x \in AncestorsOrSelf(g, T)
  BY TurnedAncestors
<1>7. CASE w = y
  <2>1. p1 \in g[x] /\ p2 \in g[x] /\ p1 \in g[y] /\ p2 \in g[y]
    BY <1>7 DEF TurnedInto
  <2> QED
    BY <1>5, <1>6, <1>7, <2>1
<1>8. CASE w = x
  <2>1. p1 # y /\ p2 # y
    BY <1>8 DEF TurnedInto, Linked
  <2>2. p1 \in g[x] /\ p2 \in g[x] /\ x \in AncestorsOrSelf(g, T)
    BY <1>6, <1>8, <2>1 DEF TurnedInto
  <2> QED
    BY <1>5, <2>2
<1>9. CASE w # x /\ w # y
  <2>1. f[w] = g[w] /\ w \in AncestorsOrSelf(g, T)
    BY <1>2, <1>6, <1>9 DEF TurnedInto
  <2> QED
    BY <1>5, <2>1
<1> QED
  BY <1>7, <1>8, <1>9

(* It changes nothing in what is convex.                                   *)
LEMMA TurnedIsConvex ==
  ASSUME NEW g, IsDag(g), DOMAIN g \in SUBSET Nat, NEW f, IsDag(f), NEW x, NEW y,
         TurnedInto(g, f, x, y), NEW kind, NEW T \in SUBSET DOMAIN g
  PROVE  IsConvex(g, kind, T) <=> IsConvex(f, kind, T)
<1>1. DOMAIN f \in SUBSET Nat /\ T \in SUBSET DOMAIN f /\ TurnedInto(f, g, y, x)
  BY TurnedBack DEF TurnedInto
<1>2. WalkConvex(g, T) <=> WalkConvex(f, T)
  BY <1>1, TurnedKeepsConvex
<1>3. LinearlyOrdered(g, T) <=> LinearlyOrdered(f, T)
  BY <1>1, TurnedKeepsOrder
<1>4. (DConvex(g, T) <=> WalkConvex(g, T)) /\ (DConvex(f, T) <=> WalkConvex(f, T))
  BY <1>1, DConvexIsWalkConvex
<1> QED
  BY <1>2, <1>3, <1>4 DEF IsConvex

(* Two parents of a vertex that are not linked.                            *)
Unshielded(g, a, b, c) == a \in g[c] /\ b \in g[c] /\ a # b /\ ~Linked(g, a, b)

(* The same links and the same unshielded colliders.                       *)
Equivalent(g, f) ==
  /\ DOMAIN f = DOMAIN g
  /\ \A a, b \in DOMAIN g : Linked(f, a, b) <=> Linked(g, a, b)
  /\ \A a, b, c \in DOMAIN g : Unshielded(f, a, b, c) <=> Unshielded(g, a, b, c)

(* The turn makes an equivalent DAG.                                       *)
LEMMA TurnedIsEquivalent ==
  ASSUME NEW g, IsDag(g), NEW f \in ParentMaps(DOMAIN g), NEW x, NEW y, TurnedInto(g, f, x, y)
  PROVE  IsDag(f) /\ Equivalent(g, f)
<1>1. DOMAIN f = DOMAIN g /\ IsFiniteSet(DOMAIN f)
  BY DagBasics DEF ParentMaps
<1>2. Acyclic(f)
  <2> SUFFICES ASSUME NEW S \in SUBSET DOMAIN f, S # {}
               PROVE  \E i \in S : f[i] \cap S = {}
    BY DEF Acyclic
  <2>1. PICK i \in S : g[i] \cap S = {}
    BY <1>1, DagBasics DEF Acyclic
  <2>2. CASE i = x /\ y \in S
    BY <2>1, <2>2 DEF TurnedInto
  <2>3. CASE ~(i = x /\ y \in S)
    <3>1. f[i] \cap S \subseteq g[i] \cap S
      BY <1>1, <2>3 DEF TurnedInto
    <3> QED
      BY <2>1, <3>1
  <2> QED
    BY <2>2, <2>3
<1>3. IsDag(f)
  BY <1>1, <1>2 DEF IsDag, Dags
<1>4. \A a, b \in DOMAIN g : Linked(f, a, b) <=> Linked(g, a, b)
  BY TurnedBack
<1>5. ASSUME NEW a \in DOMAIN g, NEW b \in DOMAIN g, NEW c \in DOMAIN g, a # b, ~Linked(f, a, b),
             ~Linked(g, a, b)
      PROVE  a \in f[c] /\ b \in f[c] <=> a \in g[c] /\ b \in g[c]
  <2>1. CASE c = x
    BY <1>5, <2>1 DEF TurnedInto, Linked
  <2>2. CASE c = y
    BY <1>5, <2>2 DEF TurnedInto, Linked
  <2>3. CASE c # x /\ c # y
    BY <1>5, <2>3 DEF TurnedInto
  <2> QED
    BY <2>1, <2>2, <2>3
<1> QED
  BY <1>1, <1>3, <1>4, <1>5 DEF Equivalent, Unshielded

(* Two equivalent DAGs that are not the same differ in a covered arrow.    *)
LEMMA CoveredArrow ==
  ASSUME NEW g, IsDag(g), NEW g2, IsDag(g2), Equivalent(g, g2), g # g2
  PROVE  \E x, y \in DOMAIN g : x # y /\ g[y] = g[x] \cup {x} /\ y \in g2[x]
<1> DEFINE V == DOMAIN g
           Bad == {j \in V : ~(g[j] \subseteq g2[j])}
<1>1. /\ DOMAIN g2 = V /\ g \in [V -> SUBSET V] /\ g2 \in [V -> SUBSET V]
      /\ \A a, b \in V : Linked(g2, a, b) <=> Linked(g, a, b)
      /\ \A a, b, c \in V : Unshielded(g2, a, b, c) <=> Unshielded(g, a, b, c)
  BY DagBasics DEF Equivalent, ParentMaps
<1>2. Bad # {}
  <2> SUFFICES ASSUME \A j \in V : g[j] \subseteq g2[j]
               PROVE  FALSE
    OBVIOUS
  <2>1. ASSUME NEW b \in V, NEW a \in g2[b]
        PROVE  a \in g[b]
    <3>1. a \in V /\ Linked(g, a, b)
      BY <1>1 DEF Linked
    <3>2. b \notin g2[a]
      BY <1>1, <3>1, DagBasics
    <3> QED
      BY <3>1, <3>2 DEF Linked
  <2>2. \A j \in V : g[j] = g2[j]
    BY <2>1
  <2> QED
    BY <1>1, <2>2
<1>3. PICK y \in Bad : g[y] \cap Bad = {}
  <2>1. Bad \in SUBSET V
    OBVIOUS
  <2> QED
    BY <1>2, <2>1, DagBasics DEF Acyclic
<1> DEFINE M == g[y] \ g2[y]
<1>4. y \in V /\ M \in SUBSET V /\ M # {}
  BY <1>1, <1>3
<1>5. PICK x \in M : \A c \in M : x \notin g[c]
  BY <1>4, DagBasics, SinkExists
<1>6. /\ x \in V /\ x \in g[y] /\ x \notin g2[y] /\ x # y
      /\ \A u \in g[y] : u \in V /\ g[u] \subseteq g2[u]
  BY <1>1, <1>3, <1>4, <1>5, DagBasics
<1>7. y \in g2[x]
  <2>1. Linked(g2, x, y)
    BY <1>1, <1>4, <1>6 DEF Linked
  <2> QED
    BY <1>6, <2>1 DEF Linked
<1> HIDE DEF Bad
<1>8. ASSUME NEW u \in g[x]
      PROVE  u \in g[y]
  <2>1. u \in V /\ u \in g2[x] /\ u # y
    BY <1>1, <1>4, <1>6, DagBasics
  <2>2. y \notin g[x] /\ y \notin g[u]
    BY <1>4, <1>6, <2>1, DagBasics
  <2>3. Linked(g, u, y)
    BY <1>1, <1>4, <1>6, <1>7, <2>1, <2>2 DEF Unshielded
  <2> QED
    BY <2>2, <2>3 DEF Linked
<1>9. ASSUME NEW u \in g[y], u # x
      PROVE  u \in g[x]
  <2>1. u \in V /\ g[u] \subseteq g2[u]
    BY <1>6
  <2>2. Linked(g, u, x)
    BY <1>1, <1>4, <1>6, <1>9, <2>1 DEF Unshielded
  <2>3. x \notin g[u]
    <3>1. CASE u \in M
      BY <1>5, <3>1
    <3>2. CASE u \in g2[y]
      <4>1. x \notin g2[u]
        BY <1>1, <1>4, <1>6, <1>7, <2>1, <3>2, DagBasics
      <4> QED
        BY <2>1, <4>1
    <3> QED
      BY <3>1, <3>2
  <2> QED
    BY <2>2, <2>3 DEF Linked
<1> QED
  BY <1>4, <1>6, <1>7, <1>8, <1>9

(* The same sets are (strongly) d-convex in all equivalent DAGs: covered   *)
(* arrow after covered arrow is turned until the two are the same.         *)
THEOREM EquivalentIsConvex ==
  ASSUME NEW g1, IsDag(g1), DOMAIN g1 \in SUBSET Nat, NEW g2, IsDag(g2), Equivalent(g1, g2),
         NEW kind, NEW T \in SUBSET DOMAIN g1
  PROVE  IsConvex(g1, kind, T) <=> IsConvex(g2, kind, T)
<1> DEFINE V == DOMAIN g1
           Differ(g) == {e \in V \X V : e[1] \in g[e[2]] /\ e[1] \notin g2[e[2]]}
           W == {g \in ParentMaps(V) : IsDag(g) /\ Equivalent(g, g2)
                                       /\ ~(IsConvex(g, kind, T) <=> IsConvex(g2, kind, T))}
           size == [g \in W |-> Cardinality(Differ(g))]
<1>1. IsFiniteSet(V) /\ g1 \in ParentMaps(V)
  BY DagBasics
<1>2. IsFiniteSet(V \X V)
  BY <1>1, FS_Product
<1>3. ASSUME NEW g
      PROVE  IsFiniteSet(Differ(g)) /\ Cardinality(Differ(g)) \in Nat
  <2>1. Differ(g) \subseteq V \X V
    OBVIOUS
  <2> HIDE DEF Differ
  <2> QED
    BY <1>2, <2>1, FS_Subset, FS_CardinalityType
<1> SUFFICES ASSUME W # {}
             PROVE  FALSE
  BY <1>1
<1>4. PICK g \in W : \A f \in W : size[g] <= size[f]
  <2>1. \A f \in W : size[f] \in Nat
    BY <1>3
  <2> HIDE DEF W, size
  <2> QED
    BY <2>1, LeastMeasure
<1>5. /\ g \in ParentMaps(V) /\ IsDag(g) /\ Equivalent(g, g2) /\ DOMAIN g = V
      /\ ~(IsConvex(g, kind, T) <=> IsConvex(g2, kind, T))
  BY DEF ParentMaps
<1>6. PICK x, y \in V : x # y /\ g[y] = g[x] \cup {x} /\ y \in g2[x]
  <2>1. g # g2
    BY <1>5
  <2> QED
    BY <1>5, <2>1, CoveredArrow
<1> DEFINE f == [v \in V |-> IF v = y THEN g[x] ELSE IF v = x THEN g[x] \cup {y} ELSE g[v]]
<1>7. f \in ParentMaps(V) /\ TurnedInto(g, f, x, y)
  BY <1>5, <1>6 DEF ParentMaps, TurnedInto
<1> HIDE DEF f
<1>8. IsDag(f) /\ Equivalent(g, f) /\ DOMAIN f = V
  BY <1>5, <1>7, TurnedIsEquivalent DEF TurnedInto
<1>9. Equivalent(f, g2)
  BY <1>5, <1>8 DEF Equivalent
<1>10. IsConvex(g, kind, T) <=> IsConvex(f, kind, T)
  BY <1>5, <1>7, <1>8, TurnedIsConvex
<1>11. f \in W
  BY <1>5, <1>7, <1>8, <1>9, <1>10
<1>12. x \in V /\ y \in V
  OBVIOUS
<1>13. Differ(f) \subseteq Differ(g) /\ <<x, y>> \in Differ(g) /\ <<x, y>> \notin Differ(f)
  <2>1. x \notin g2[y]
    BY <1>5, <1>6, <1>12, DagBasics DEF Equivalent
  <2>2. x \notin f[y]
    BY <1>5, <1>7, <1>12, DagBasics DEF TurnedInto
  <2>3. ASSUME NEW a \in V, NEW b \in V, a \in f[b], a \notin g2[b]
        PROVE  a \in g[b]
    BY <1>6, <1>7, <1>5, <2>3 DEF TurnedInto
  <2> QED
    BY <1>6, <1>12, <2>1, <2>2, <2>3
<1>14. Cardinality(Differ(f)) + 1 <= Cardinality(Differ(g))
  <2> HIDE DEF Differ
  <2> QED
    BY <1>3, <1>13, GrowsByOne
<1>15. size[g] <= size[f] /\ size[g] = Cardinality(Differ(g)) /\ size[f] = Cardinality(Differ(f))
  BY <1>4, <1>11
<1> HIDE DEF W, size, Differ
<1> QED
  BY <1>3, <1>14, <1>15
------------------------------------------------------------------------------
(***************************************************************************)
(* Hulls (DConvexHull).                                                    *)
(***************************************************************************)

(* While a hull is computed: the set that grows is a set of vertices, and  *)
(* both counters are bounded by its size.                                  *)
GrowthInv ==
  /\ answer = "none"
  /\ IsFiniteSet(Vertex)
  /\ h \subseteq Vertex
  /\ rounds \in Nat /\ rounds <= Cardinality(h)
  /\ passes \in Nat /\ passes <= Cardinality(h)

HullInv ==
  /\ stage \in {"closing", "closed"} => GrowthInv
  /\ stage = "idle" => answer = "none"
  /\ FixedPointIsReached

(* A round of the closure collects vertices only.                          *)
LEMMA AbsorbedAreVertices ==
  ASSUME NEW g, NEW set \in SUBSET DOMAIN g, NEW path \in PathChoices(g, set)
  PROVE  UNION {f[1] \cup path[f] : f \in DOMAIN path} \subseteq DOMAIN g
<1> DEFINE found == {<<p, ShortestPaths(g, DOMAIN g \ set, p)>> : p \in TargetPairs(g, set)}
           pairs == {f \in found : f[2] # {}}
<1>1. DOMAIN path = pairs /\ \A f \in pairs : path[f] \in f[2]
  BY DEF PathChoices
<1>2. ASSUME NEW p \in TargetPairs(g, set)
      PROVE  p \subseteq DOMAIN g
  BY <1>2 DEF TargetPairs
<1>3. ASSUME NEW p, NEW inner \in ShortestPaths(g, DOMAIN g \ set, p)
      PROVE  inner \subseteq DOMAIN g
  <2> DEFINE m == DOMAIN g \ set
             ancestral == AncestorsOrSelf(g, p)
             IsPath(s) ==
               LET q == <<Min(p)>> \o s \o <<Max(p)>>
               IN  \A j \in 1..Len(s) + 1 : Moral(g, ancestral, q[j], q[j + 1])
             Paths(k) == {s \in [1..k -> m \cap ancestral] : IsPath(s)}
             lengths == {k \in 0..Cardinality(m \cap ancestral) : Paths(k) # {}}
  <2>1. ShortestPaths(g, m, p) = IF lengths = {} THEN {} ELSE {Elems(s) : s \in Paths(Min(lengths))}
    BY DEF ShortestPaths
  <2>2. PICK s \in Paths(Min(lengths)) : inner = Elems(s)
    BY <1>3, <2>1
  <2>3. lengths # {}
    BY <1>3, <2>1
  <2>4. Min(lengths) \in Nat
    <3> HIDE DEF Paths
    <3>1. lengths \subseteq Nat
      OBVIOUS
    <3> HIDE DEF lengths
    <3> QED
      BY <2>3, <3>1, MinOfNaturals
  <2>5. Len(s) = Min(lengths) /\ s \in [1..Len(s) -> m \cap ancestral]
    <3> HIDE DEF lengths, IsPath
    <3>1. s \in [1..Min(lengths) -> m \cap ancestral]
      BY <2>2
    <3> QED
      BY <2>4, <3>1
  <2>6. \A k \in 1..Len(s) : s[k] \in m
    BY <2>5
  <2> QED
    BY <2>2, <2>6 DEF Elems
<1>4. ASSUME NEW f \in pairs
      PROVE  f[1] \cup path[f] \subseteq DOMAIN g
  <2>1. PICK p \in TargetPairs(g, set) : f = <<p, ShortestPaths(g, DOMAIN g \ set, p)>>
    OBVIOUS
  <2> QED
    BY <1>1, <1>2, <1>3, <2>1
<1> QED
  BY <1>1, <1>4

(* What a violation adds are vertices, and one of them is new.             *)
LEMMA ViolationsAreNew ==
  ASSUME NEW g, NEW set \in SUBSET DOMAIN g
  PROVE  /\ ViolationParents(g, set) \subseteq DOMAIN g
         /\ ViolationParents(g, set) # {} => ~(ViolationParents(g, set) \subseteq set)
<1> DEFINE relevant == ChildrenOrSelf(g, DOMAIN g \ set) \cap AncestorsOrSelf(g, set)
           violations == {q \in (DOMAIN g) \X (DOMAIN g) :
                            /\ q[1] # q[2] /\ ~Linked(g, q[1], q[2])
                            /\ ~({q[1], q[2]} \subseteq set)
                            /\ \E w \in relevant : {q[1], q[2]} \subseteq g[w]}
<1>1. ViolationParents(g, set) = {q[1] : q \in violations}
  BY DEF ViolationParents
<1>2. ASSUME NEW q \in violations
      PROVE  <<q[2], q[1]>> \in violations
  <2> DEFINE r == <<q[2], q[1]>>
  <2> HIDE DEF relevant
  <2>1. /\ r \in (DOMAIN g) \X (DOMAIN g)
        /\ r[1] = q[2] /\ r[2] = q[1]
        /\ q[1] # q[2] /\ ~Linked(g, q[1], q[2])
        /\ ~({q[1], q[2]} \subseteq set)
    OBVIOUS
  <2>2. ~Linked(g, r[1], r[2])
    BY <2>1 DEF Linked
  <2>3. PICK w \in relevant : {q[1], q[2]} \subseteq g[w]
    OBVIOUS
  <2> QED
    BY <2>1, <2>2, <2>3
<1>3. ASSUME NEW q \in violations
      PROVE  q[1] \notin set \/ q[2] \notin set
  OBVIOUS
<1>4. ViolationParents(g, set) \subseteq DOMAIN g
  BY <1>1
<1> HIDE DEF violations
<1> QED
  BY <1>1, <1>2, <1>3, <1>4

(* A call starts with counters at zero.                                    *)
LEMMA CallInv ==
  ASSUME NEW g, IsFiniteSet(DOMAIN g), NEW kind, NEW ids, HullInv, Call(g, kind, ids)
  PROVE  HullInv'
<1>1. CASE ids \subseteq DOMAIN g
  <2>1. IsFiniteSet(ids) /\ Cardinality(ids) \in Nat
    BY <1>1, FS_Subset, FS_CardinalityType
  <2> QED
    BY <1>1, <2>1 DEF Call, HullInv, GrowthInv, FixedPointIsReached, Vertex
<1>2. CASE ~(ids \subseteq DOMAIN g)
  BY <1>2 DEF Call, HullInv, FixedPointIsReached
<1> QED
  BY <1>1, <1>2

(* A round of closure adds the inner vertices of paths, and moves on when  *)
(* there are none.                                                         *)
LEMMA ClosureRoundInv ==
  ASSUME HullInv, ClosureRound
  PROVE  HullInv'
<1>1. stage = "closing" /\ GrowthInv
  BY DEF ClosureRound, HullInv
<1>2. PICK path \in PathChoices(pa, h) :
        LET absorbed == UNION {f[1] \cup path[f] : f \in DOMAIN path}
        IN  /\ h' = h \cup absorbed
            /\ \/ /\ HasNotGrown(absorbed)
                  /\ stage' = "closed"
                  /\ UNCHANGED <<rounds, answer>>
               \/ /\ ~HasNotGrown(absorbed)
                  /\ rounds' = rounds + 1
                  /\ GiveUpAt(rounds + 1 = MaxRounds, "closing")
  BY DEF ClosureRound
<1> DEFINE absorbed == UNION {f[1] \cup path[f] : f \in DOMAIN path}
<1>3. absorbed \subseteq Vertex /\ h \subseteq Vertex
  BY <1>1, AbsorbedAreVertices DEF GrowthInv, Vertex
<1>4. h' = h \cup absorbed /\ Vertex' = Vertex /\ passes' = passes
  BY <1>2 DEF ClosureRound, Vertex
<1>5. CASE HasNotGrown(absorbed)
  <2>1. h' = h /\ stage' = "closed" /\ rounds' = rounds /\ answer' = answer
    BY <1>2, <1>5 DEF HasNotGrown
  <2> QED
    BY <1>1, <1>4, <2>1 DEF HullInv, GrowthInv, FixedPointIsReached
<1>6. CASE ~HasNotGrown(absorbed)
  <2> HIDE DEF absorbed
  <2>1. h # h' /\ h \subseteq h' /\ h' \subseteq Vertex
    BY <1>3, <1>4, <1>6 DEF HasNotGrown
  <2>2. /\ Cardinality(h) \in Nat /\ Cardinality(h') \in Nat /\ Cardinality(Vertex) \in Nat
        /\ Cardinality(h) + 1 <= Cardinality(h') /\ Cardinality(h') <= Cardinality(Vertex)
    BY <1>1, <1>3, <2>1, GrowsByOne DEF GrowthInv
  <2>3. rounds' = rounds + 1 /\ GiveUpAt(rounds + 1 = MaxRounds, "closing")
    BY <1>2, <1>6 DEF absorbed
  <2>4. rounds + 1 # MaxRounds
    BY <1>1, <2>2 DEF GrowthInv, MaxRounds
  <2>5. stage' = "closing" /\ answer' = answer
    BY <2>3, <2>4 DEF GiveUpAt
  <2> QED
    BY <1>1, <1>4, <2>1, <2>2, <2>3, <2>5 DEF HullInv, GrowthInv, FixedPointIsReached
<1> QED
  BY <1>5, <1>6

(* Absorbing parents makes the hull grow by at least one vertex.           *)
LEMMA AbsorbParentsInv ==
  ASSUME HullInv, AbsorbParents
  PROVE  HullInv'
<1> DEFINE new == ViolationParents(pa, h)
<1>1. GrowthInv /\ h' = h \cup new /\ new # {} /\ Vertex' = Vertex
  BY DEF AbsorbParents, HullInv, Vertex
<1>2. h # h' /\ h \subseteq h' /\ h \subseteq Vertex /\ h' \subseteq Vertex
  BY <1>1, ViolationsAreNew DEF GrowthInv, Vertex
<1>3. /\ Cardinality(h) \in Nat /\ Cardinality(h') \in Nat /\ Cardinality(Vertex) \in Nat
      /\ Cardinality(h) + 1 <= Cardinality(h') /\ Cardinality(h') <= Cardinality(Vertex)
  BY <1>1, <1>2, GrowsByOne DEF GrowthInv
<1>4. rounds' = 0 /\ passes' = passes + 1 /\ GiveUpAt(passes + 1 = MaxRounds, "closing")
  BY DEF AbsorbParents
<1>5. passes + 1 # MaxRounds
  BY <1>1, <1>3 DEF GrowthInv, MaxRounds
<1>6. stage' = "closing" /\ answer' = answer
  BY <1>4, <1>5 DEF GiveUpAt
<1> QED
  BY <1>1, <1>2, <1>3, <1>4, <1>6 DEF HullInv, GrowthInv, FixedPointIsReached

(* Every step on the hull keeps its invariant.                             *)
LEMMA HullStepInv ==
  ASSUME HullInv, HullStep
  PROVE  HullInv'
<1>1. CASE ReturnHull
  BY <1>1 DEF ReturnHull, HullInv, FixedPointIsReached
<1> QED
  BY <1>1, ClosureRoundInv, AbsorbParentsInv DEF HullStep

(* A step that leaves the hull alone keeps it.                             *)
LEMMA HullStutterInv ==
  ASSUME HullInv, UNCHANGED hullVars
  PROVE  HullInv'
BY DEF hullVars, HullInv, GrowthInv, FixedPointIsReached, Vertex

(* Neither loop ever uses up its n + 1 rounds: HullFixedPointNotReached is *)
(* an error that no call returns, on a DAG of any size.                    *)
THEOREM FixedPointAlwaysReached == HullSpec => []FixedPointIsReached
<1>1. HullInit => HullInv
  BY DEF HullInit, HullInv, FixedPointIsReached
<1>2. HullInv /\ [HullNext]_hullVars => HullInv'
  BY GraphsAssumption, CallInv, HullStepInv, HullStutterInv DEF HullNext
<1>3. HullInv => FixedPointIsReached
  BY DEF HullInv
<1> QED
  BY <1>1, <1>2, <1>3, PTL DEF HullSpec

(* The set that grows is in every convex superset of the argument.         *)
BelowConvex ==
  \A T \in SUBSET Vertex : required \subseteq T /\ IsConvex(pa, call, T) => h \subseteq T

(* What the closure reaches, and when it is d-convex.                      *)
LeastInv ==
  /\ stage # "idle" => IsDag(pa) /\ Vertex \in SUBSET Nat /\ call \in Kinds
  /\ stage \in {"closing", "closed"} \/ answer = "ok" =>
       required \subseteq h /\ h \in SUBSET Vertex /\ BelowConvex
  /\ stage = "closed" \/ answer = "ok" => DConvex(pa, h)
  /\ answer = "ok" =>
       stage = "done" /\ (call = "strong_d_convex_hull" => LinearlyOrdered(pa, h))

(* A call starts with its argument, which is in all its supersets.         *)
LEMMA CallLeast ==
  ASSUME NEW g, IsDag(g), DOMAIN g \in SUBSET Nat, NEW kind \in Kinds, NEW ids, LeastInv,
         Call(g, kind, ids)
  PROVE  LeastInv'
<1>1. stage = "idle" /\ answer # "ok"
  BY DEF Call, LeastInv
<1>2. pa' = g /\ call' = kind /\ required' = ids
  BY DEF Call
<1>3. CASE ids \subseteq DOMAIN g
  <2>1. h' = ids /\ stage' = "closing" /\ answer' = answer
    BY <1>3 DEF Call
  <2> QED
    BY <1>1, <1>2, <1>3, <2>1 DEF LeastInv, BelowConvex, Vertex
<1>4. CASE ~(ids \subseteq DOMAIN g)
  <2>1. stage' = "done" /\ answer' = "InvalidNodeId"
    BY <1>4 DEF Call
  <2> QED
    BY <1>1, <1>2, <2>1 DEF LeastInv, Vertex
<1> QED
  BY <1>3, <1>4

(* What a round adds is in every convex superset too; a round that adds    *)
(* nothing has found the set d-convex.                                     *)
LEMMA ClosureRoundLeast ==
  ASSUME LeastInv, ClosureRound
  PROVE  LeastInv'
<1>1. /\ stage = "closing" /\ IsDag(pa) /\ DOMAIN pa \in SUBSET Nat /\ call \in Kinds
      /\ required \subseteq h /\ h \in SUBSET DOMAIN pa /\ BelowConvex /\ answer # "ok"
  BY DEF ClosureRound, LeastInv, Vertex
<1>2. PICK path \in PathChoices(pa, h) :
        LET absorbed == UNION {f[1] \cup path[f] : f \in DOMAIN path}
        IN  /\ h' = h \cup absorbed
            /\ \/ /\ HasNotGrown(absorbed)
                  /\ stage' = "closed"
                  /\ UNCHANGED <<rounds, answer>>
               \/ /\ ~HasNotGrown(absorbed)
                  /\ rounds' = rounds + 1
                  /\ GiveUpAt(rounds + 1 = MaxRounds, "closing")
  BY DEF ClosureRound
<1> DEFINE absorbed == UNION {f[1] \cup path[f] : f \in DOMAIN path}
<1>3. absorbed \subseteq DOMAIN pa
  BY <1>1, AbsorbedAreVertices
<1>4. h' = h \cup absorbed /\ pa' = pa /\ call' = call /\ required' = required /\ Vertex' = Vertex
  BY <1>2 DEF ClosureRound, Vertex
<1>5. ASSUME NEW T \in SUBSET Vertex, required \subseteq T, IsConvex(pa, call, T)
      PROVE  absorbed \subseteq T
  <2>1. h \in SUBSET T /\ T \in SUBSET DOMAIN pa
    BY <1>1, <1>5 DEF BelowConvex, Vertex
  <2>2. WalkConvex(pa, T)
    BY <1>1, <1>5, <2>1, DConvexIsWalkConvex DEF IsConvex
  <2> QED
    BY <1>1, <2>1, <2>2, AbsorbedStayInside
<1> HIDE DEF absorbed
<1>6. BelowConvex'
  BY <1>1, <1>4, <1>5 DEF BelowConvex
<1>7. required' \subseteq h' /\ h' \in SUBSET Vertex'
  BY <1>1, <1>3, <1>4 DEF Vertex
<1>8. CASE HasNotGrown(absorbed)
  <2>1. stage' = "closed" /\ answer' = answer /\ h' = h
    BY <1>2, <1>4, <1>8 DEF HasNotGrown, absorbed
  <2>2. DConvex(pa, h)
    BY <1>1, <1>8, FixedPointIsConvex DEF HasNotGrown, absorbed
  <2> QED
    BY <1>1, <1>4, <1>6, <1>7, <2>1, <2>2 DEF LeastInv, Vertex
<1>9. CASE ~HasNotGrown(absorbed)
  <2>1. GiveUpAt(rounds + 1 = MaxRounds, "closing")
    BY <1>2, <1>9 DEF absorbed
  <2>2. stage' \in {"closing", "done"} /\ answer' # "ok"
    BY <1>1, <2>1 DEF GiveUpAt
  <2> QED
    BY <1>1, <1>4, <1>6, <1>7, <2>2 DEF LeastInv, Vertex
<1> QED
  BY <1>8, <1>9

(* Without a violation the set is linearly ordered.                        *)
LEMMA NoViolation ==
  ASSUME NEW g, NEW set, \A v \in DOMAIN g : g[v] \subseteq DOMAIN g,
         AncestorsOrSelf(g, set) \subseteq DOMAIN g, ViolationParents(g, set) = {}
  PROVE  LinearlyOrdered(g, set)
<1> DEFINE relevant == ChildrenOrSelf(g, DOMAIN g \ set) \cap AncestorsOrSelf(g, set)
<1>1. ASSUME NEW w \in relevant, NEW x \in g[w], NEW y \in g[w], x # y,
             ~({x, y} \subseteq set), ~Linked(g, x, y)
      PROVE  FALSE
  <2> DEFINE q == <<x, y>>
  <2>1. q \in (DOMAIN g) \X (DOMAIN g) /\ q[1] = x /\ q[2] = y /\ {q[1], q[2]} \subseteq g[w]
    OBVIOUS
  <2>2. q[1] \in ViolationParents(g, set)
    <3> HIDE DEF q
    <3> QED
      BY <1>1, <2>1 DEF ViolationParents
  <2> QED
    BY <2>2
<1> QED
  BY <1>1 DEF LinearlyOrdered

(* The parents of violations are in every linearly ordered superset.       *)
LEMMA AbsorbParentsLeast ==
  ASSUME LeastInv, AbsorbParents
  PROVE  LeastInv'
<1> DEFINE new == ViolationParents(pa, h)
<1>1. /\ stage = "closed" /\ IsDag(pa) /\ DOMAIN pa \in SUBSET Nat /\ call = "strong_d_convex_hull"
      /\ required \subseteq h /\ h \in SUBSET DOMAIN pa /\ BelowConvex /\ answer # "ok"
  BY DEF AbsorbParents, LeastInv, Vertex
<1>2. h' = h \cup new /\ pa' = pa /\ call' = call /\ required' = required /\ Vertex' = Vertex
  BY DEF AbsorbParents, Vertex
<1>3. new \subseteq DOMAIN pa
  BY <1>1, ViolationsAreNew
<1>4. ASSUME NEW T \in SUBSET Vertex, required \subseteq T, IsConvex(pa, call, T)
      PROVE  new \subseteq T
  <2>1. h \in SUBSET T /\ T \in SUBSET DOMAIN pa /\ LinearlyOrdered(pa, T)
    BY <1>1, <1>4 DEF BelowConvex, Vertex, IsConvex
  <2> QED
    BY <1>1, <2>1, ParentsStayInside
<1> HIDE DEF new
<1>5. BelowConvex'
  BY <1>1, <1>2, <1>4 DEF BelowConvex
<1>6. required' \subseteq h' /\ h' \in SUBSET Vertex'
  BY <1>1, <1>2, <1>3 DEF Vertex
<1>7. stage' \in {"closing", "done"} /\ answer' # "ok"
  BY <1>1 DEF AbsorbParents, GiveUpAt
<1> QED
  BY <1>1, <1>2, <1>5, <1>6, <1>7 DEF LeastInv, Vertex, Kinds

(* The hull that is returned is convex.                                    *)
LEMMA ReturnLeast ==
  ASSUME LeastInv, ReturnHull
  PROVE  LeastInv'
<1>1. /\ stage = "closed" /\ IsDag(pa) /\ DOMAIN pa \in SUBSET Nat
      /\ h \in SUBSET DOMAIN pa /\ DConvex(pa, h)
  BY DEF ReturnHull, LeastInv, Vertex
<1>2. call = "strong_d_convex_hull" => LinearlyOrdered(pa, h)
  <2>1. AncestorsOrSelf(pa, h) \subseteq DOMAIN pa /\ \A v \in DOMAIN pa : pa[v] \subseteq DOMAIN pa
    BY <1>1, DagBasics, AncestorFacts
  <2> QED
    BY <2>1, NoViolation DEF ReturnHull
<1> QED
  BY <1>1, <1>2 DEF ReturnHull, LeastInv, BelowConvex, Vertex

(* Every step on the hull keeps that.                                      *)
LEMMA HullStepLeast ==
  ASSUME LeastInv, HullStep
  PROVE  LeastInv'
BY ClosureRoundLeast, AbsorbParentsLeast, ReturnLeast DEF HullStep

(* So does a step that leaves the hull alone.                              *)
LEMMA HullStutterLeast ==
  ASSUME LeastInv, UNCHANGED hullVars
  PROVE  LeastInv'
BY DEF hullVars, LeastInv, BelowConvex, Vertex

(* It holds in every behaviour.                                            *)
LEMMA LeastInvariant == HullSpec => []LeastInv
<1>1. HullInit => LeastInv
  BY DEF HullInit, LeastInv
<1>2. LeastInv /\ [HullNext]_hullVars => LeastInv'
  <2>1. ASSUME LeastInv, NEW g \in Graphs, NEW kind \in Kinds,
               NEW ids \in Arguments(g), Call(g, kind, ids)
        PROVE  LeastInv'
    <3>1. IsDag(g) /\ DOMAIN g \in SUBSET Nat
      BY GraphsAssumption DEF IsDag
    <3> QED
      BY <2>1, <3>1, CallLeast
  <2> QED
    BY <2>1, HullStepLeast, HullStutterLeast DEF HullNext
<1> QED
  BY <1>1, <1>2, PTL DEF HullSpec

(* The invariant says that the result is the least convex superset.        *)
LEMMA LeastInvIsLeast == LeastInv => HullIsLeast
<1> SUFFICES ASSUME LeastInv, answer = "ok"
             PROVE  IsLeastHull(pa, call, required, h)
  BY DEF HullIsLeast
<1>1. required \subseteq h /\ h \in SUBSET Vertex /\ BelowConvex /\ IsConvex(pa, call, h)
  BY DEF LeastInv, IsConvex
<1>2. ASSUME NEW other \in {o \cup required : o \in SUBSET (DOMAIN pa \ required)},
             ~(h \subseteq other)
      PROVE  ~IsConvex(pa, call, other)
  <2>1. required \subseteq other /\ other \in SUBSET Vertex
    BY <1>1 DEF Vertex
  <2> QED
    BY <1>1, <1>2, <2>1 DEF BelowConvex
<1> QED
  BY <1>1, <1>2 DEF IsLeastHull

(* And that no shortest path between members of the argument leads out of  *)
(* it.                                                                     *)
LEMMA LeastInvHasPaths == LeastInv => TieBreakIsImmaterial
<1> SUFFICES ASSUME LeastInv, answer = "ok",
                    NEW p \in TargetPairs(pa, required),
                    NEW path \in ShortestPaths(pa, Vertex \ required, p)
             PROVE  path \subseteq h
  BY DEF TieBreakIsImmaterial
<1>1. /\ IsDag(pa) /\ DOMAIN pa \in SUBSET Nat /\ required \in SUBSET h
      /\ h \in SUBSET DOMAIN pa /\ DConvex(pa, h)
  BY DEF LeastInv, Vertex
<1>2. WalkConvex(pa, h)
  BY <1>1, DConvexIsWalkConvex
<1>3. path \in ShortestPaths(pa, DOMAIN pa \ required, p)
  BY DEF Vertex
<1> QED
  BY <1>1, <1>2, <1>3, PathsStayInside

(* What is returned is the least (strongly) d-convex superset of the       *)
(* argument, on a DAG of any size.                                         *)
THEOREM HullIsAlwaysLeast == HullSpec => []HullIsLeast
BY LeastInvariant, LeastInvIsLeast, PTL

(* It does not matter which of several shortest paths the search finds:    *)
(* all of them are in the hull.                                            *)
THEOREM AnyShortestPathWillDo == HullSpec => []TieBreakIsImmaterial
BY LeastInvariant, LeastInvHasPaths, PTL
------------------------------------------------------------------------------
(***************************************************************************)
(* Both together (CpdagHull).                                              *)
(***************************************************************************)

(* A step of the two leaves the Cpdag alone or is a step of it.            *)
LEMMA StepsOfCpdag == HullsNext => [Next]_vars
BY DEF HullsNext, CpdagStep, CallDag, CallExtension

(* With both parts of the composition, both invariants are kept.           *)
LEMMA HullsInv ==
  ASSUME IInv, HullInv, [HullsNext]_<<vars, hullVars>>
  PROVE  IInv' /\ HullInv'
<1>1. IInv'
  <2>1. [Next]_vars
    BY StepsOfCpdag
  <2> QED
    BY <2>1, NextInv
<1>2. HullInv'
  <2>1. CASE CallDag
    BY <2>1, GraphsAssumption, CallInv DEF CallDag
  <2>2. CASE CallExtension
    <3> DEFINE g == ParentsIn(Elems(oriented))
    <3>1. IsFiniteSet(DOMAIN g)
      BY NodesAreFinite DEF ParentsIn, IInv
    <3>2. PICK ids \in Arguments(g) : Call(g, "strong_d_convex_hull", ids)
      BY <2>2 DEF CallExtension
    <3> HIDE DEF g
    <3> QED
      BY <3>1, <3>2, CallInv
  <2>3. CASE HullStep
    BY <2>3, HullStepInv
  <2>4. CASE UNCHANGED hullVars
    BY <2>4, HullStutterInv
  <2> QED
    BY <2>1, <2>2, <2>3, <2>4 DEF HullsNext, CpdagStep
<1> QED
  BY <1>1, <1>2

(* Both hold in every behaviour of the composition.                        *)
LEMMA HullsInvariant == HullsSpec => [](IInv /\ HullInv)
<1>1. HullsInit => IInv /\ HullInv
  BY InitInv DEF HullsInit, HullInit, HullInv, FixedPointIsReached
<1>2. (IInv /\ HullInv) /\ [HullsNext]_<<vars, hullVars>> => (IInv /\ HullInv)'
  BY HullsInv
<1> QED
  BY <1>1, <1>2, PTL DEF HullsSpec

(* Neither loop uses up its n + 1 rounds on an extension of a Cpdag either. *)
THEOREM HullOfCpdagIsReached == HullsSpec => []FixedPointIsReached
<1>1. IInv /\ HullInv => FixedPointIsReached
  BY DEF HullInv
<1> QED
  BY <1>1, HullsInvariant, PTL

(* Computing hulls leaves the two guarantees of the extension as they are. *)
THEOREM ExtensionsStayConsistent == HullsSpec => [](ExtensionIsConsistent /\ RefusalIsRight)
<1>1. IInv /\ HullInv => ExtensionIsConsistent /\ RefusalIsRight
  BY DEF IInv
<1> QED
  BY <1>1, HullsInvariant, PTL

(* All consistent extensions of a graph are equivalent DAGs.               *)
LEMMA ExtensionsAreEquivalent ==
  ASSUME GraphInv, NEW e1, IsExtension(e1), NEW e2, IsExtension(e2)
  PROVE  /\ IsDag(ParentsIn(e1)) /\ IsDag(ParentsIn(e2))
         /\ DOMAIN ParentsIn(e1) = Node /\ DOMAIN ParentsIn(e1) \in SUBSET Nat
         /\ Equivalent(ParentsIn(e1), ParentsIn(e2))
<1>1. ASSUME NEW e, IsExtension(e)
      PROVE  /\ IsDag(ParentsIn(e)) /\ DOMAIN ParentsIn(e) = Node
             /\ \A a, b \in Node : Linked(ParentsIn(e), a, b) <=> Adjacent(a, b)
             /\ \A a, b, c \in Node :
                  Unshielded(ParentsIn(e), a, b, c) <=> <<a, b, c>> \in Colliders(directed)
  <2> DEFINE g == ParentsIn(e)
  <2>1. DOMAIN g = Node /\ g \in ParentMaps(Node) /\ \A a, b \in Node : a \in g[b] <=> <<a, b>> \in e
    BY DEF ParentsIn, ParentMaps
  <2>2. Acyclic(g) /\ Colliders(e) = Colliders(directed)
    BY <1>1 DEF IsExtension
  <2> HIDE DEF g
  <2>3. IsDag(g)
    BY <2>1, <2>2, NodesAreFinite DEF IsDag, Dags
  <2>4. ASSUME NEW a \in Node, NEW b \in Node
        PROVE  Linked(g, a, b) <=> Adjacent(a, b)
    <3>1. Linked(g, a, b) <=> <<a, b>> \in e \/ <<b, a>> \in e
      BY <2>1 DEF Linked
    <3>2. Adjacent(a, b) <=>
            <<a, b>> \in directed \cup undirected \/ <<b, a>> \in directed \cup undirected
      BY DEF Adjacent, BothWays
    <3>3. directed \subseteq e /\ e \subseteq directed \cup undirected
      BY <1>1 DEF IsExtension
    <3>4. ASSUME NEW u, NEW v, <<u, v>> \in undirected
          PROVE  <<u, v>> \in e \/ <<v, u>> \in e
      <4> DEFINE d == <<u, v>>
      <4>1. d[1] = u /\ d[2] = v /\ d \in undirected
        BY <3>4
      <4>2. (d \in e) # (<<d[2], d[1]>> \in e)
        <5> HIDE DEF d
        <5> QED
          BY <1>1, <4>1 DEF IsExtension
      <4> QED
        BY <4>1, <4>2
    <3> QED
      BY <3>1, <3>2, <3>3, <3>4
  <2>5. ASSUME NEW a \in Node, NEW b \in Node, NEW c \in Node
        PROVE  Unshielded(g, a, b, c) <=> <<a, b, c>> \in Colliders(e)
    BY <2>1, <2>4 DEF Unshielded, Colliders
  <2> QED
    BY <2>1, <2>2, <2>3, <2>4, <2>5 DEF g
<1>2. Node \in SUBSET Nat
  BY DEF Node
<1>3. /\ IsDag(ParentsIn(e1)) /\ DOMAIN ParentsIn(e1) = Node
      /\ \A a, b \in Node : Linked(ParentsIn(e1), a, b) <=> Adjacent(a, b)
      /\ \A a, b, c \in Node :
           Unshielded(ParentsIn(e1), a, b, c) <=> <<a, b, c>> \in Colliders(directed)
  BY <1>1
<1>4. /\ IsDag(ParentsIn(e2)) /\ DOMAIN ParentsIn(e2) = Node
      /\ \A a, b \in Node : Linked(ParentsIn(e2), a, b) <=> Adjacent(a, b)
      /\ \A a, b, c \in Node :
           Unshielded(ParentsIn(e2), a, b, c) <=> <<a, b, c>> \in Colliders(directed)
  BY <1>1
<1> QED
  BY <1>2, <1>3, <1>4 DEF Equivalent

(* The least convex superset is the same set in equivalent DAGs.           *)
LEMMA EquivalentHulls ==
  ASSUME NEW g, IsDag(g), DOMAIN g \in SUBSET Nat, NEW f, IsDag(f), Equivalent(g, f),
         NEW kind, NEW ids \in SUBSET DOMAIN g, NEW set \in SUBSET DOMAIN g,
         IsLeastHull(g, kind, ids, set)
  PROVE  IsLeastHull(f, kind, ids, set)
<1>1. DOMAIN f = DOMAIN g
  BY DEF Equivalent
<1>2. \A T \in SUBSET DOMAIN g : IsConvex(g, kind, T) <=> IsConvex(f, kind, T)
  BY EquivalentIsConvex
<1>3. ASSUME NEW other \in {o \cup ids : o \in SUBSET (DOMAIN f \ ids)}, ~(set \subseteq other)
      PROVE  ~IsConvex(f, kind, other)
  <2>1. other \in SUBSET DOMAIN g /\ other \in {o \cup ids : o \in SUBSET (DOMAIN g \ ids)}
    BY <1>1
  <2>2. ~IsConvex(g, kind, other)
    BY <1>3, <2>1 DEF IsLeastHull
  <2> QED
    BY <1>2, <2>1, <2>2
<1>4. ids \subseteq set /\ IsConvex(f, kind, set)
  BY <1>2 DEF IsLeastHull
<1> QED
  BY <1>3, <1>4 DEF IsLeastHull

(* The hull of a Cpdag is computed on its extension.                       *)
OnExtension == result = "ok" /\ stage # "idle" => pa = ParentsIn(Elems(oriented))

(* The graph a hull is computed on stays what it was.                      *)
LEMMA HullsLeast ==
  ASSUME IInv, LeastInv, OnExtension, [HullsNext]_<<vars, hullVars>>
  PROVE  LeastInv' /\ OnExtension'
<1>1. ASSUME UNCHANGED vars
      PROVE  /\ ParentsIn(Elems(oriented))' = ParentsIn(Elems(oriented))
             /\ result' = result /\ pc' = pc
  BY <1>1 DEF vars, graph, work, ParentsIn, Node
<1>2. CASE CpdagStep
  BY <1>2, HullStutterLeast DEF CpdagStep, OnExtension, hullVars
<1>3. CASE CallDag
  <2>1. PICK g \in Graphs : \E kind \in Kinds, ids \in Arguments(g) : Call(g, kind, ids)
    BY <1>3 DEF CallDag
  <2>2. PICK kind \in Kinds, ids \in Arguments(g) : Call(g, kind, ids)
    BY <2>1
  <2>3. IsDag(g) /\ DOMAIN g \in SUBSET Nat
    BY GraphsAssumption DEF IsDag
  <2>4. LeastInv'
    BY <2>2, <2>3, CallLeast
  <2>5. result' = "none"
    BY <1>1, <1>3 DEF CallDag, IInv
  <2> QED
    BY <2>4, <2>5 DEF OnExtension
<1>4. CASE CallExtension
  <2> DEFINE g == ParentsIn(Elems(oriented))
  <2>1. UNCHANGED vars /\ result = "ok" /\ "strong_d_convex_hull" \in Kinds
    BY <1>4 DEF CallExtension, Kinds
  <2>2. PICK ids \in Arguments(g) : Call(g, "strong_d_convex_hull", ids)
    BY <1>4 DEF CallExtension
  <2>3. GraphInv /\ IsExtension(Elems(oriented))
    BY <2>1 DEF IInv, ExtensionIsConsistent
  <2>4. IsDag(g) /\ DOMAIN g \in SUBSET Nat
    BY <2>3, ExtensionsAreEquivalent
  <2>5. g' = g
    BY <1>1, <2>1
  <2>6. pa' = g
    BY <2>2 DEF Call
  <2> HIDE DEF g
  <2>7. LeastInv'
    BY <2>1, <2>2, <2>4, CallLeast
  <2> QED
    BY <2>5, <2>6, <2>7 DEF OnExtension, g
<1>5. CASE HullStep /\ UNCHANGED vars
  <2>1. LeastInv'
    BY <1>5, HullStepLeast
  <2>2. stage # "idle" /\ pa' = pa
    BY <1>5 DEF HullStep, ClosureRound, ReturnHull, AbsorbParents
  <2> QED
    BY <1>1, <1>5, <2>1, <2>2 DEF OnExtension
<1>6. CASE UNCHANGED <<vars, hullVars>>
  <2>1. UNCHANGED vars /\ UNCHANGED hullVars /\ pa' = pa /\ stage' = stage
    BY <1>6 DEF hullVars
  <2> QED
    BY <1>1, <2>1, HullStutterLeast DEF OnExtension
<1> QED
  BY <1>2, <1>3, <1>4, <1>5, <1>6 DEF HullsNext

(* It holds in every behaviour of the composition.                         *)
LEMMA HullsLeastInvariant == HullsSpec => [](IInv /\ LeastInv /\ OnExtension)
<1>1. HullsInit => IInv /\ LeastInv /\ OnExtension
  BY InitInv DEF HullsInit, HullInit, LeastInv, OnExtension
<1>2. (IInv /\ LeastInv /\ OnExtension) /\ [HullsNext]_<<vars, hullVars>>
        => (IInv /\ LeastInv /\ OnExtension)'
  <2>1. ASSUME IInv, [HullsNext]_<<vars, hullVars>>
        PROVE  IInv'
    <3>1. [Next]_vars
      BY <2>1, StepsOfCpdag
    <3> QED
      BY <2>1, <3>1, NextInv
  <2> QED
    BY <2>1, HullsLeast
<1> QED
  BY <1>1, <1>2, PTL DEF HullsSpec

(* The result, whether for a Dag or for a Cpdag, is the least convex       *)
(* superset of the argument, and contains every shortest path.             *)
THEOREM HullOfCpdagIsLeast == HullsSpec => [](HullIsLeast /\ TieBreakIsImmaterial)
<1>1. LeastInv => HullIsLeast /\ TieBreakIsImmaterial
  BY LeastInvIsLeast, LeastInvHasPaths
<1> QED
  BY <1>1, HullsLeastInvariant, PTL

(* The strong hull of a Cpdag does not depend on the extension it is       *)
(* computed from: it is the least strongly d-convex superset in every      *)
(* consistent extension.                                                   *)
THEOREM HullOfEveryExtension == HullsSpec => []SameHullInEveryExtension
<1>1. ASSUME IInv, LeastInv, OnExtension
      PROVE  SameHullInEveryExtension
  <2> SUFFICES ASSUME result = "ok", answer = "ok", NEW edges, IsExtension(edges)
               PROVE  IsLeastHull(ParentsIn(edges), call, required, h)
    BY DEF SameHullInEveryExtension
  <2>1. stage = "done" /\ required \subseteq h /\ h \in SUBSET DOMAIN pa
    BY <1>1 DEF LeastInv, Vertex
  <2>2. pa = ParentsIn(Elems(oriented))
    BY <1>1, <2>1 DEF OnExtension
  <2>3. GraphInv /\ IsExtension(Elems(oriented))
    BY <1>1 DEF IInv, ExtensionIsConsistent
  <2>4. /\ IsDag(pa) /\ DOMAIN pa \in SUBSET Nat /\ IsDag(ParentsIn(edges))
        /\ Equivalent(pa, ParentsIn(edges))
    BY <2>2, <2>3, ExtensionsAreEquivalent
  <2>5. IsLeastHull(pa, call, required, h)
    BY <1>1, LeastInvIsLeast DEF HullIsLeast
  <2> QED
    BY <2>1, <2>4, <2>5, EquivalentHulls
<1> QED
  BY <1>1, HullsLeastInvariant, PTL
==============================================================================
