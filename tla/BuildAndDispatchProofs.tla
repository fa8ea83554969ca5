------------------------ MODULE BuildAndDispatchProofs ------------------------
(***************************************************************************)
(* Proofs about what happens before a method runs, for graphs of every     *)
(* size: the graph is built, cut down, written out and read back, and      *)
(* walked (DagBuild), and `auto` chooses a method for it (AutoDispatch).   *)
(***************************************************************************)
EXTENDS AutoDispatch, DagBuild, GraphLemmas

------------------------------------------------------------------------------
(* The graph: its lists, and what one operation does to them               *)

(* The three lists belong together: one list of children and one of        *)
(* parents for each name, and no name twice.                               *)
WellFormed(d) ==
  /\ d = [names |-> d.names, children |-> d.children, parents |-> d.parents]
  /\ d.names \in Seq(Name) /\ IsInjectiveSeq(d.names)
  /\ d.children \in [NodesOf(d) -> Seq(NodesOf(d))]
  /\ d.parents \in [NodesOf(d) -> Seq(NodesOf(d))]

(* Both lists describe the same edges, each once and none from a node to   *)
(* itself.                                                                 *)
Mirrored(d) ==
  \A i, j \in NodesOf(d) :
    /\ j \in Elems(d.children[i]) <=> i \in Elems(d.parents[j])
    /\ IsInjectiveSeq(d.children[i])
    /\ IsInjectiveSeq(d.parents[i])
    /\ i \notin Elems(d.parents[i])

(* What the graph of every state is, and every graph built on the way.     *)
IsDagStruct(d) == WellFormed(d) /\ Mirrored(d)

(* Functions on 1..n are sequences.                                        *)
LEMMA FunctionsAreSeqs ==
  ASSUME NEW n \in Nat, NEW S, NEW f \in [1..n -> S]
  PROVE  f \in Seq(S) /\ Len(f) = n
OBVIOUS

(* And the other way round.                                                *)
LEMMA SeqsAreFunctions ==
  ASSUME NEW S, NEW s \in Seq(S)
  PROVE  Len(s) \in Nat /\ s \in [1..Len(s) -> S]
OBVIOUS

(* The nodes are numbered as the names, and the lists with them.           *)
LEMMA Nodes ==
  ASSUME NEW d, WellFormed(d)
  PROVE  /\ Len(d.names) \in Nat /\ NodesOf(d) = 1..Len(d.names)
         /\ d.children \in Seq(Seq(NodesOf(d))) /\ Len(d.children) = Len(d.names)
         /\ d.parents \in Seq(Seq(NodesOf(d))) /\ Len(d.parents) = Len(d.names)
<1>1. Len(d.names) \in Nat /\ NodesOf(d) = 1..Len(d.names)
  BY DEF WellFormed, NodesOf
<1>2. d.children \in [1..Len(d.names) -> Seq(NodesOf(d))]
        /\ d.parents \in [1..Len(d.names) -> Seq(NodesOf(d))]
  BY <1>1 DEF WellFormed
<1> QED
  BY <1>1, <1>2, FunctionsAreSeqs

(* The elements of a list, and the empty list.                             *)
LEMMA ElemsOfSeq ==
  ASSUME NEW S, NEW s \in Seq(S)
  PROVE  Elems(s) \subseteq S /\ Elems(<< >>) = {} /\ IsInjectiveSeq(<< >>)
BY DEF Elems, IsInjectiveSeq

(* `Dag::new` returns such a graph.                                        *)
LEMMA EmptyIsDag == IsDagStruct(EmptyDag) /\ NodesOf(EmptyDag) = {} /\ EmptyDag.names = << >>
<1>1. NodesOf(EmptyDag) = {} /\ EmptyDag.names = << >>
  BY DEF EmptyDag, NodesOf
<1>2. WellFormed(EmptyDag)
  BY <1>1 DEF WellFormed, EmptyDag, IsInjectiveSeq
<1> QED
  BY <1>1, <1>2 DEF IsDagStruct, Mirrored

(* The id of a name is the place of the name.                              *)
LEMMA IdIsPlace ==
  ASSUME NEW d, WellFormed(d)
  PROVE  /\ \A i \in NodesOf(d) : d.names[i] \in Elems(d.names) /\ IdOf(d, d.names[i]) = i
         /\ \A name \in Elems(d.names) :
              IdOf(d, name) \in NodesOf(d) /\ d.names[IdOf(d, name)] = name
<1>1. NodesOf(d) = 1..Len(d.names)
  BY Nodes
<1>2. \A i, j \in NodesOf(d) : d.names[i] = d.names[j] => i = j
  BY <1>1 DEF WellFormed, IsInjectiveSeq
<1>3. \A name \in Elems(d.names) : \E i \in NodesOf(d) : d.names[i] = name
  BY <1>1 DEF Elems
<1>4. \A i \in NodesOf(d) : d.names[i] \in Elems(d.names)
  BY <1>1 DEF Elems
<1> QED
  BY <1>2, <1>3, <1>4 DEF IdOf

(* g is d with a node of that name, if it had none.                        *)
HasNodeToo(d, name, g) ==
  /\ Elems(g.names) = Elems(d.names) \cup {name}
  /\ NodesOf(d) \subseteq NodesOf(g)
  /\ \A i \in NodesOf(d) :
       g.names[i] = d.names[i] /\ g.children[i] = d.children[i] /\ g.parents[i] = d.parents[i]
  /\ \A i \in NodesOf(g) \ NodesOf(d) :
       /\ g.names[i] = name /\ g.children[i] = << >> /\ g.parents[i] = << >>
       /\ name \notin Elems(d.names) /\ i = Len(d.names) + 1

(* add_node leaves all nodes and edges as they are and adds one node, or   *)
(* none.                                                                   *)
LEMMA NodeAdded ==
  ASSUME NEW d, IsDagStruct(d), NEW name \in Name
  PROVE  IsDagStruct(WithNode(d, name)) /\ HasNodeToo(d, name, WithNode(d, name))
<1>1. CASE name \in Elems(d.names)
  BY <1>1 DEF WithNode, HasNodeToo
<1>2. CASE name \notin Elems(d.names)
  <2> DEFINE n == Len(d.names)
             g == WithNode(d, name)
  <2>1. /\ n \in Nat /\ NodesOf(d) = 1..n
        /\ d.children \in Seq(Seq(NodesOf(d))) /\ Len(d.children) = n
        /\ d.parents \in Seq(Seq(NodesOf(d))) /\ Len(d.parents) = n
        /\ d.names \in Seq(Name) /\ IsInjectiveSeq(d.names)
    BY Nodes DEF IsDagStruct, WellFormed
  <2>2. /\ g = [names |-> g.names, children |-> g.children, parents |-> g.parents]
        /\ g.names = Append(d.names, name)
        /\ g.children = Append(d.children, << >>)
        /\ g.parents = Append(d.parents, << >>)
    BY <1>2 DEF WithNode
  <2> HIDE DEF g, n
  <2>3. /\ g.names \in Seq(Name) /\ Len(g.names) = n + 1
        /\ Elems(g.names) = Elems(d.names) \cup {name}
        /\ IsInjectiveSeq(g.names)
        /\ g.names[n + 1] = name /\ \A i \in 1..n : g.names[i] = d.names[i]
    BY <1>2, <2>1, <2>2, AppendElems DEF n
  <2>4. NodesOf(g) = 1..(n + 1)
    BY <2>3 DEF NodesOf
  <2>5. ASSUME NEW s \in Seq(Seq(NodesOf(d))), Len(s) = n
        PROVE  /\ Append(s, << >>) \in [NodesOf(g) -> Seq(NodesOf(g))]
               /\ Append(s, << >>)[n + 1] = << >>
               /\ \A i \in 1..n : Append(s, << >>)[i] = s[i]
    <3> DEFINE V == NodesOf(g)
    <3>1. \A x \in Seq(NodesOf(d)) : x \in Seq(V)
      BY <2>1, <2>4
    <3>2. << >> \in Seq(V) /\ s \in Seq(Seq(V))
      BY <3>1
    <3> HIDE DEF V
    <3>3. Append(s, << >>) \in Seq(Seq(V)) /\ Len(Append(s, << >>)) = n + 1
      BY <2>1, <2>5, <3>2
    <3>4. Append(s, << >>) \in [1..(n + 1) -> Seq(V)]
      <4> DEFINE r == Append(s, << >>)
      <4> HIDE DEF r
      <4>1. r \in Seq(Seq(V)) /\ Len(r) = n + 1
        BY <3>3 DEF r
      <4> QED
        BY <4>1, SeqsAreFunctions DEF r
    <3> QED
      BY <2>1, <2>4, <2>5, <3>2, <3>4 DEF V
  <2>6. /\ g.children \in [NodesOf(g) -> Seq(NodesOf(g))] /\ g.children[n + 1] = << >>
        /\ \A i \in 1..n : g.children[i] = d.children[i]
    BY <2>1, <2>2, <2>5
  <2>7. /\ g.parents \in [NodesOf(g) -> Seq(NodesOf(g))] /\ g.parents[n + 1] = << >>
        /\ \A i \in 1..n : g.parents[i] = d.parents[i]
    BY <2>1, <2>2, <2>5
  <2>8. WellFormed(g)
    BY <2>2, <2>3, <2>6, <2>7 DEF WellFormed
  <2>9. \A i \in NodesOf(g) : i \in NodesOf(d) \/ i = n + 1
    BY <2>1, <2>4
  <2>10. Elems(<< >>) = {} /\ IsInjectiveSeq(<< >>)
    BY ElemsOfSeq, <2>1
  <2>11. \A i \in NodesOf(d) :
           n + 1 \notin Elems(d.children[i]) /\ n + 1 \notin Elems(d.parents[i])
    <3>1. n + 1 \notin NodesOf(d)
      BY <2>1
    <3>2. \A i \in NodesOf(d) : d.children[i] \in Seq(NodesOf(d))
            /\ d.parents[i] \in Seq(NodesOf(d))
      BY DEF IsDagStruct, WellFormed
    <3> QED
      BY <3>1, <3>2, ElemsOfSeq
  <2>12. Mirrored(g)
    <3>1. \A i \in NodesOf(d) : g.children[i] = d.children[i] /\ g.parents[i] = d.parents[i]
      BY <2>1, <2>6, <2>7
    <3>2. g.children[n + 1] = << >> /\ g.parents[n + 1] = << >>
      BY <2>6, <2>7
    <3>3. Mirrored(d)
      BY DEF IsDagStruct
    <3> QED
      BY <2>9, <2>10, <2>11, <3>1, <3>2, <3>3 DEF Mirrored
  <2>13. HasNodeToo(d, name, g)
    <3>1. NodesOf(d) \subseteq NodesOf(g)
      BY <2>1, <2>4
    <3>2. \A i \in NodesOf(d) :
            g.names[i] = d.names[i] /\ g.children[i] = d.children[i] /\ g.parents[i] = d.parents[i]
      BY <2>1, <2>3, <2>6, <2>7
    <3>3. \A i \in NodesOf(g) \ NodesOf(d) : i = n + 1
      BY <2>9
    <3>4. g.names[n + 1] = name /\ g.children[n + 1] = << >> /\ g.parents[n + 1] = << >>
      BY <2>3, <2>6, <2>7
    <3> QED
      BY <1>2, <2>3, <3>1, <3>2, <3>3, <3>4 DEF HasNodeToo, n
  <2> QED
    BY <2>8, <2>12, <2>13 DEF IsDagStruct, g
<1> QED
  BY <1>1, <1>2

(* g is d with an edge from one node to the other.                         *)
HasEdgeToo(d, from, to, g) ==
  /\ g.names = d.names /\ NodesOf(g) = NodesOf(d)
  /\ g.children[from] = Append(d.children[from], to)
  /\ Elems(g.children[from]) = Elems(d.children[from]) \cup {to}
  /\ \A i \in NodesOf(d) \ {from} : g.children[i] = d.children[i]

(* add_edge, when it does not refuse, adds one edge at both of its ends.   *)
LEMMA EdgeAdded ==
  ASSUME NEW d, IsDagStruct(d), NEW from \in NodesOf(d), NEW to \in NodesOf(d), from # to,
         to \notin Elems(d.children[from])
  PROVE  IsDagStruct(WithEdge(d, from, to)) /\ HasEdgeToo(d, from, to, WithEdge(d, from, to))
<1> DEFINE g == WithEdge(d, from, to)
           V == NodesOf(d)
<1>1. /\ d = [names |-> d.names, children |-> d.children, parents |-> d.parents]
      /\ d.children \in [V -> Seq(V)] /\ d.parents \in [V -> Seq(V)] /\ Mirrored(d)
  BY DEF IsDagStruct, WellFormed
<1>2. /\ g = [names |-> g.names, children |-> g.children, parents |-> g.parents]
      /\ g.names = d.names
      /\ g.children = [d.children EXCEPT ![from] = Append(d.children[from], to)]
      /\ g.parents = [d.parents EXCEPT ![to] = Append(d.parents[to], from)]
  BY DEF WithEdge
<1> HIDE DEF g
<1>3. NodesOf(g) = V
  BY <1>2 DEF NodesOf
<1> HIDE DEF V
<1>4. from \in V /\ to \in V
  BY DEF V
<1>5. /\ Append(d.children[from], to) \in Seq(V) /\ Append(d.parents[to], from) \in Seq(V)
      /\ Elems(Append(d.children[from], to)) = Elems(d.children[from]) \cup {to}
      /\ Elems(Append(d.parents[to], from)) = Elems(d.parents[to]) \cup {from}
      /\ IsInjectiveSeq(Append(d.children[from], to)) /\ IsInjectiveSeq(Append(d.parents[to], from))
  <2>1. d.children[from] \in Seq(V) /\ d.parents[to] \in Seq(V)
    BY <1>1, <1>4
  <2>2. IsInjectiveSeq(d.children[from]) /\ IsInjectiveSeq(d.parents[to])
          /\ from \notin Elems(d.parents[to])
    BY <1>1 DEF Mirrored
  <2> QED
    BY <1>4, <2>1, <2>2, AppendElems
<1>6. g.children \in [V -> Seq(V)] /\ g.parents \in [V -> Seq(V)]
  BY <1>1, <1>2, <1>4, <1>5
<1>7. WellFormed(g)
  BY <1>2, <1>3, <1>6 DEF IsDagStruct, WellFormed
<1>8. /\ g.children[from] = Append(d.children[from], to)
           /\ g.parents[to] = Append(d.parents[to], from)
      /\ \A i \in V \ {from} : g.children[i] = d.children[i]
      /\ \A i \in V \ {to} : g.parents[i] = d.parents[i]
  BY <1>1, <1>2, <1>4
<1>9. Mirrored(g)
  <2> SUFFICES ASSUME NEW i \in V, NEW j \in V
               PROVE  /\ j \in Elems(g.children[i]) <=> i \in Elems(g.parents[j])
                      /\ IsInjectiveSeq(g.children[i])
                      /\ IsInjectiveSeq(g.parents[i])
                      /\ i \notin Elems(g.parents[i])
    BY <1>3 DEF Mirrored
  <2>1. /\ j \in Elems(d.children[i]) <=> i \in Elems(d.parents[j])
        /\ IsInjectiveSeq(d.children[i])
        /\ IsInjectiveSeq(d.parents[i])
        /\ i \notin Elems(d.parents[i])
    BY <1>1 DEF Mirrored, V
  <2>2. /\ Elems(g.children[i]) = Elems(d.children[i]) \cup (IF i = from THEN {to} ELSE {})
        /\ Elems(g.parents[i]) = Elems(d.parents[i]) \cup (IF i = to THEN {from} ELSE {})
        /\ Elems(g.parents[j]) = Elems(d.parents[j]) \cup (IF j = to THEN {from} ELSE {})
    BY <1>5, <1>8
  <2>3. IsInjectiveSeq(g.children[i]) /\ IsInjectiveSeq(g.parents[i])
    BY <1>5, <1>8, <2>1
  <2> QED
    BY <2>1, <2>2, <2>3
<1>10. HasEdgeToo(d, from, to, g)
  BY <1>2, <1>3, <1>5, <1>8 DEF HasEdgeToo, V
<1> QED
  BY <1>7, <1>9, <1>10 DEF IsDagStruct, g

(* An ascending list repeats nothing.                                      *)
LEMMA AscendingSeq ==
  ASSUME NEW S \in SUBSET Nat, IsFiniteSet(S)
  PROVE  /\ Ascending(S) \in Seq(S) /\ Elems(Ascending(S)) = S /\ IsInjectiveSeq(Ascending(S))
         /\ \A j, k \in 1..Len(Ascending(S)) : j < k => Ascending(S)[j] < Ascending(S)[k]
<1> DEFINE p == Ascending(S)
<1>1. Lists(p, S)
  BY AscendingLists
<1> HIDE DEF p
<1>2. /\ Len(p) \in Nat /\ p = [k \in 1..Len(p) |-> p[k]] /\ Elems(p) = S
      /\ \A j, k \in 1..Len(p) : j < k => p[j] < p[k]
  BY <1>1 DEF Lists
<1>3. p \in [1..Len(p) -> S]
  BY <1>2 DEF Elems
<1>4. IsInjectiveSeq(p)
  <2> SUFFICES ASSUME NEW j \in 1..Len(p), NEW k \in 1..Len(p), p[j] = p[k]
               PROVE  j = k
    BY DEF IsInjectiveSeq
  <2>1. (j < k \/ k < j \/ j = k) /\ p[j] \in Nat /\ p[k] \in Nat
    BY <1>2, <1>3
  <2> QED
    BY <1>2, <2>1
<1> QED
  BY <1>2, <1>3, <1>4, FunctionsAreSeqs DEF p

(* A selection has those elements of the list that are wanted, and repeats *)
(* none if the list does not.                                              *)
LEMMA SelectedElems ==
  ASSUME NEW V, NEW s \in Seq(V), NEW S
  PROVE  /\ Selected(s, S) \in Seq(V)
         /\ Elems(Selected(s, S)) = Elems(s) \cap S
         /\ IsInjectiveSeq(s) => IsInjectiveSeq(Selected(s, S))
<1> DEFINE P == {k \in DOMAIN s : s[k] \in S}
           p == Ascending(P)
           r == Selected(s, S)
<1>1. Len(s) \in Nat /\ s \in [1..Len(s) -> V] /\ DOMAIN s = 1..Len(s)
  BY SeqsAreFunctions
<1>2. P \in SUBSET Nat /\ IsFiniteSet(P)
  <2>1. IsFiniteSet(1..Len(s))
    BY <1>1, FS_Interval
  <2> QED
    BY <1>1, <2>1, FS_Subset
<1>3. /\ Len(p) \in Nat /\ p \in [1..Len(p) -> P] /\ Elems(p) = P
      /\ \A j, k \in 1..Len(p) : j < k => p[j] < p[k]
  <2> HIDE DEF P
  <2>1. p \in Seq(P) /\ Elems(p) = P /\ \A j, k \in 1..Len(p) : j < k => p[j] < p[k]
    BY <1>2, AscendingSeq
  <2> QED
    BY <2>1, SeqsAreFunctions
<1>4. r = [k \in DOMAIN p |-> s[p[k]]]
  BY DEF Selected
<1>5. \A k \in P : k \in 1..Len(s) /\ s[k] \in S
  BY <1>1
<1>6. \A k \in 1..Len(s) : s[k] \in S => k \in P
  BY <1>1
<1> HIDE DEF P, p, r
<1>7. r \in [1..Len(p) -> V] /\ \A k \in 1..Len(p) : r[k] = s[p[k]] /\ p[k] \in P
  BY <1>1, <1>3, <1>4, <1>5
<1>8. r \in Seq(V) /\ Len(r) = Len(p)
  BY <1>3, <1>7, FunctionsAreSeqs
<1>9. Elems(r) = Elems(s) \cap S
  <2>1. ASSUME NEW k \in 1..Len(r)
        PROVE  r[k] \in Elems(s) \cap S
    BY <1>5, <1>7, <1>8 DEF Elems
  <2>2. ASSUME NEW k \in 1..Len(s), s[k] \in S
        PROVE  \E m \in 1..Len(r) : r[m] = s[k]
    <3>1. k \in Elems(p)
      BY <1>3, <1>6, <2>2
    <3>2. PICK m \in 1..Len(p) : p[m] = k
      BY <3>1 DEF Elems
    <3> QED
      BY <1>7, <1>8, <3>2
  <2> QED
    BY <2>1, <2>2 DEF Elems
<1>10. IsInjectiveSeq(s) => IsInjectiveSeq(r)
  <2> SUFFICES ASSUME IsInjectiveSeq(s), NEW j \in 1..Len(p), NEW k \in 1..Len(p), r[j] = r[k]
               PROVE  j = k
    BY <1>8 DEF IsInjectiveSeq
  <2>1. p[j] \in 1..Len(s) /\ p[k] \in 1..Len(s) /\ p[j] = p[k]
    BY <1>5, <1>7 DEF IsInjectiveSeq
  <2>2. j < k \/ k < j \/ j = k
    BY <1>3
  <2> QED
    BY <1>3, <2>1, <2>2
<1> QED
  BY <1>8, <1>9, <1>10 DEF r

(* The list ids with every id replaced by its place in the list kept.      *)
Places(kept, ids) == [k \in DOMAIN ids |-> CHOOSE m \in DOMAIN kept : kept[m] = ids[k]]

(* Replacing ids by their places loses and repeats nothing.                *)
LEMMA PlacesElems ==
  ASSUME NEW keep, NEW kept \in Seq(keep), Elems(kept) = keep, IsInjectiveSeq(kept),
         NEW ids \in Seq(keep)
  PROVE  /\ Places(kept, ids) \in Seq(DOMAIN kept)
         /\ \A m \in DOMAIN kept : m \in Elems(Places(kept, ids)) <=> kept[m] \in Elems(ids)
         /\ IsInjectiveSeq(ids) => IsInjectiveSeq(Places(kept, ids))
<1> DEFINE q == Places(kept, ids)
           M == DOMAIN kept
<1>1. /\ Len(kept) \in Nat /\ kept \in [1..Len(kept) -> keep] /\ M = 1..Len(kept)
      /\ Len(ids) \in Nat /\ ids \in [1..Len(ids) -> keep]
  BY SeqsAreFunctions
<1>2. q = [k \in 1..Len(ids) |-> CHOOSE m \in M : kept[m] = ids[k]]
  BY <1>1 DEF Places
<1> HIDE DEF q, M
<1>3. \A k \in 1..Len(ids) : \E m \in M : kept[m] = ids[k]
  BY <1>1 DEF Elems
<1>4. q \in [1..Len(ids) -> M] /\ \A k \in 1..Len(ids) : kept[q[k]] = ids[k]
  BY <1>2, <1>3
<1>5. q \in Seq(M) /\ Len(q) = Len(ids)
  BY <1>1, <1>4, FunctionsAreSeqs
<1>6. \A m \in M : m \in Elems(q) <=> kept[m] \in Elems(ids)
  <2> SUFFICES ASSUME NEW m \in M
               PROVE  m \in Elems(q) <=> kept[m] \in Elems(ids)
    OBVIOUS
  <2>1. ASSUME NEW k \in 1..Len(ids), q[k] = m
        PROVE  kept[m] \in Elems(ids)
    BY <1>4, <2>1 DEF Elems
  <2>2. ASSUME NEW k \in 1..Len(ids), kept[m] = ids[k]
        PROVE  m \in Elems(q)
    <3>1. q[k] \in M /\ kept[q[k]] = kept[m]
      BY <1>4, <2>2
    <3>2. q[k] = m
      BY <1>1, <3>1 DEF IsInjectiveSeq
    <3> QED
      BY <1>5, <3>2 DEF Elems
  <2> QED
    BY <1>5, <2>1, <2>2 DEF Elems
<1>7. IsInjectiveSeq(ids) => IsInjectiveSeq(q)
  BY <1>4, <1>5 DEF IsInjectiveSeq
<1> QED
  BY <1>5, <1>6, <1>7 DEF q, M

(* g is d cut down to the nodes of the list kept, numbered in its order.   *)
IsCutTo(d, kept, g) ==
  /\ NodesOf(g) = DOMAIN kept
  /\ \A i \in DOMAIN kept : g.names[i] = d.names[kept[i]]
  /\ \A i, j \in DOMAIN kept :
       /\ j \in Elems(g.children[i]) <=> kept[j] \in Elems(d.children[kept[i]])
       /\ i \in Elems(g.parents[j]) <=> kept[j] \in Elems(d.children[kept[i]])

(* Cutting a graph down keeps its two lists mirrored, and exactly the      *)
(* edges between the nodes that are left.                                  *)
LEMMA InducedIsDag ==
  ASSUME NEW d, IsDagStruct(d), NEW keep \in SUBSET NodesOf(d)
  PROVE  /\ IsDagStruct(InducedSubgraph(d, keep))
         /\ IsCutTo(d, Ascending(keep), InducedSubgraph(d, keep))
         /\ Ascending(keep) \in Seq(keep) /\ Elems(Ascending(keep)) = keep
         /\ \A j, k \in DOMAIN Ascending(keep) : j < k => Ascending(keep)[j] < Ascending(keep)[k]
<1> DEFINE kept == Ascending(keep)
           M == DOMAIN kept
           g == InducedSubgraph(d, keep)
           downC(i) == Selected(d.children[kept[i]], keep)
           downP(i) == Ascending(Sources(d, keep, kept[i]))
<1>1. /\ NodesOf(d) = 1..Len(d.names) /\ Len(d.names) \in Nat
      /\ d.names \in Seq(Name) /\ IsInjectiveSeq(d.names)
      /\ d.children \in [NodesOf(d) -> Seq(NodesOf(d))] /\ Mirrored(d)
  BY Nodes DEF IsDagStruct, WellFormed
<1>2. keep \in SUBSET Nat /\ IsFiniteSet(keep) /\ \A S \in SUBSET keep : S \in SUBSET Nat
        /\ IsFiniteSet(S)
  <2>1. IsFiniteSet(NodesOf(d))
    BY <1>1, FS_Interval
  <2> QED
    BY <1>1, <2>1, FS_Subset
<1>3. /\ kept \in Seq(keep) /\ Elems(kept) = keep /\ IsInjectiveSeq(kept)
      /\ \A j, k \in 1..Len(kept) : j < k => kept[j] < kept[k]
  BY <1>2, AscendingSeq
<1>4. /\ g = [names |-> g.names, children |-> g.children, parents |-> g.parents]
      /\ g.names = [k \in M |-> d.names[kept[k]]]
      /\ g.children = [k \in M |-> Places(kept, downC(k))]
      /\ g.parents = [k \in M |-> Places(kept, downP(k))]
  BY DEF InducedSubgraph, Places
<1> HIDE DEF kept, M, g, downC, downP
<1>5. /\ Len(kept) \in Nat /\ M = 1..Len(kept) /\ kept \in [M -> keep]
      /\ \A k \in M : kept[k] \in NodesOf(d)
  BY <1>3, SeqsAreFunctions DEF M
<1>6. ASSUME NEW i \in M
      PROVE  /\ downC(i) \in Seq(keep) /\ Elems(downC(i)) = Elems(d.children[kept[i]]) \cap keep
             /\ IsInjectiveSeq(downC(i))
  <2>1. d.children[kept[i]] \in Seq(NodesOf(d)) /\ IsInjectiveSeq(d.children[kept[i]])
    BY <1>1, <1>5 DEF Mirrored
  <2>2. /\ downC(i) \in Seq(NodesOf(d)) /\ Elems(downC(i)) = Elems(d.children[kept[i]]) \cap keep
        /\ IsInjectiveSeq(downC(i))
    BY <2>1, SelectedElems DEF downC
  <2>3. downC(i) \in [1..Len(downC(i)) -> keep] /\ Len(downC(i)) \in Nat
    BY <2>2, SeqsAreFunctions DEF Elems
  <2> QED
    BY <2>2, <2>3, FunctionsAreSeqs
<1>7. ASSUME NEW i \in M
      PROVE  /\ downP(i) \in Seq(keep) /\ IsInjectiveSeq(downP(i))
             /\ Elems(downP(i)) = {x \in keep : kept[i] \in Elems(d.children[x])}
  <2> DEFINE R == {x \in keep : kept[i] \in Elems(d.children[x])}
  <2>1. R \in SUBSET keep
    OBVIOUS
  <2>2. downP(i) = Ascending(R)
    BY DEF downP, Sources
  <2> HIDE DEF R
  <2>3. downP(i) \in Seq(R) /\ Elems(downP(i)) = R /\ IsInjectiveSeq(downP(i))
    BY <1>2, <2>1, <2>2, AscendingSeq
  <2>4. downP(i) \in Seq(keep)
    BY <2>1, <2>3
  <2> QED
    BY <2>3, <2>4 DEF R
<1>8. ASSUME NEW i \in M
      PROVE  /\ Places(kept, downC(i)) \in Seq(M) /\ Places(kept, downP(i)) \in Seq(M)
             /\ IsInjectiveSeq(Places(kept, downC(i))) /\ IsInjectiveSeq(Places(kept, downP(i)))
             /\ \A m \in M : m \in Elems(Places(kept, downC(i))) <=> kept[m] \in Elems(downC(i))
             /\ \A m \in M : m \in Elems(Places(kept, downP(i))) <=> kept[m] \in Elems(downP(i))
  BY <1>3, <1>6, <1>7, PlacesElems DEF M
<1>9. NodesOf(g) = M
  BY <1>4 DEF NodesOf
<1>10. g.names \in Seq(Name) /\ IsInjectiveSeq(g.names)
         /\ \A i \in M : g.names[i] = d.names[kept[i]]
  <2>1. d.names \in [NodesOf(d) -> Name] /\ Len(d.names) \in Nat
    BY <1>1, SeqsAreFunctions
  <2>2. g.names \in [M -> Name] /\ \A i \in M : g.names[i] = d.names[kept[i]]
    BY <1>4, <1>5, <2>1
  <2>3. g.names \in Seq(Name) /\ Len(g.names) = Len(kept)
    BY <1>5, <2>2, FunctionsAreSeqs
  <2>4. IsInjectiveSeq(g.names)
    <3> SUFFICES ASSUME NEW j \in M, NEW k \in M, g.names[j] = g.names[k]
                 PROVE  j = k
      BY <1>5, <2>3 DEF IsInjectiveSeq
    <3>1. kept[j] \in 1..Len(d.names) /\ kept[k] \in 1..Len(d.names)
            /\ d.names[kept[j]] = d.names[kept[k]]
      BY <1>1, <1>5, <2>2
    <3>2. kept[j] = kept[k]
      BY <1>1, <3>1 DEF IsInjectiveSeq
    <3> QED
      BY <1>3, <1>5, <3>2 DEF IsInjectiveSeq
  <2> QED
    BY <2>2, <2>3, <2>4
<1>11. WellFormed(g)
  <2>1. g.children \in [M -> Seq(M)] /\ g.parents \in [M -> Seq(M)]
    BY <1>4, <1>8
  <2> QED
    BY <1>4, <1>9, <1>10, <2>1 DEF WellFormed
<1>12. ASSUME NEW i \in M, NEW j \in M
       PROVE  /\ j \in Elems(g.children[i]) <=> kept[j] \in Elems(d.children[kept[i]])
              /\ i \in Elems(g.parents[j]) <=> kept[j] \in Elems(d.children[kept[i]])
  BY <1>4, <1>5, <1>6, <1>7, <1>8
<1>13. Mirrored(g)
  <2>1. \A i \in M : IsInjectiveSeq(g.children[i]) /\ IsInjectiveSeq(g.parents[i])
    BY <1>4, <1>8
  <2>2. \A i \in M : i \notin Elems(g.parents[i])
    <3> SUFFICES ASSUME NEW i \in M
                 PROVE  kept[i] \notin Elems(d.children[kept[i]])
      BY <1>12
    <3> QED
      BY <1>1, <1>5 DEF Mirrored
  <2> QED
    BY <1>9, <1>12, <2>1, <2>2 DEF Mirrored
<1>14. IsCutTo(d, kept, g)
  BY <1>9, <1>10, <1>12 DEF IsCutTo, M
<1> QED
  BY <1>3, <1>5, <1>11, <1>13, <1>14 DEF IsDagStruct, kept, g, M

(* The edges by name are those that either list describes.                 *)
LEMMA NamedEdgesAre ==
  ASSUME NEW d, IsDagStruct(d)
  PROVE  /\ NamedEdges(d) \in SUBSET (Name \X Name)
         /\ \A p, c \in NodesOf(d) :
              <<d.names[p], d.names[c]>> \in NamedEdges(d) <=> c \in Elems(d.children[p])
         /\ \A e \in NamedEdges(d) : \E p, c \in NodesOf(d) :
              e = <<d.names[p], d.names[c]>> /\ c \in Elems(d.children[p])
         /\ \A e \in NamedEdges(d) : e[1] # e[2] /\ {e[1], e[2]} \subseteq Elems(d.names)
<1> DEFINE V == NodesOf(d)
<1>1. /\ V = 1..Len(d.names) /\ d.names \in [V -> Name]
           /\ \A p, c \in V : d.names[p] = d.names[c] => p = c
      /\ Mirrored(d)
  BY Nodes, SeqsAreFunctions DEF IsDagStruct, WellFormed, IsInjectiveSeq
<1>2. NamedEdges(d) = {<<d.names[e[1]], d.names[e[2]]>> :
                         e \in {e \in V \X V : e[1] \in Elems(d.parents[e[2]])}}
  BY DEF NamedEdges
<1>3. \A p, c \in V : c \in Elems(d.children[p]) <=> p \in Elems(d.parents[c])
  BY <1>1 DEF Mirrored
<1>4. \A p \in V : p \notin Elems(d.children[p]) /\ d.names[p] \in Elems(d.names)
  BY <1>1, <1>3, IdIsPlace DEF Mirrored, IsDagStruct
<1> HIDE DEF V
<1>5. \A e \in NamedEdges(d) : \E p, c \in V :
        e = <<d.names[p], d.names[c]>> /\ c \in Elems(d.children[p])
  <2> SUFFICES ASSUME NEW e \in NamedEdges(d)
               PROVE  \E p, c \in V : e = <<d.names[p], d.names[c]>> /\ c \in Elems(d.children[p])
    OBVIOUS
  <2>1. PICK x \in V \X V : x[1] \in Elems(d.parents[x[2]]) /\ e = <<d.names[x[1]], d.names[x[2]]>>
    BY <1>2
  <2>2. x[1] \in V /\ x[2] \in V
    BY <2>1
  <2> QED
    BY <1>3, <2>1, <2>2
<1>6. ASSUME NEW p \in V, NEW c \in V
      PROVE  <<d.names[p], d.names[c]>> \in NamedEdges(d) <=> c \in Elems(d.children[p])
  <2>1. ASSUME c \in Elems(d.children[p])
        PROVE  <<d.names[p], d.names[c]>> \in NamedEdges(d)
    <3>1. <<p, c>> \in V \X V /\ p \in Elems(d.parents[c])
      BY <1>3, <2>1
    <3> QED
      BY <1>2, <3>1
  <2>2. ASSUME <<d.names[p], d.names[c]>> \in NamedEdges(d)
        PROVE  c \in Elems(d.children[p])
    <3>1. PICK q, b \in V : <<d.names[p], d.names[c]>> = <<d.names[q], d.names[b]>>
                              /\ b \in Elems(d.children[q])
      BY <1>5, <2>2
    <3> QED
      BY <1>1, <3>1
  <2> QED
    BY <2>1, <2>2
<1>7. NamedEdges(d) \in SUBSET (Name \X Name)
  BY <1>1, <1>5
<1>8. \A e \in NamedEdges(d) : e[1] # e[2] /\ {e[1], e[2]} \subseteq Elems(d.names)
  <2> SUFFICES ASSUME NEW e \in NamedEdges(d)
               PROVE  e[1] # e[2] /\ {e[1], e[2]} \subseteq Elems(d.names)
    OBVIOUS
  <2>1. PICK p, c \in V : e = <<d.names[p], d.names[c]>> /\ c \in Elems(d.children[p])
    BY <1>5
  <2>2. d.names[p] # d.names[c] /\ d.names[p] \in Elems(d.names) /\ d.names[c] \in Elems(d.names)
    BY <1>1, <1>4, <2>1
  <2> QED
    BY <2>1, <2>2
<1> QED
  BY <1>5, <1>6, <1>7, <1>8 DEF V

(* A new node brings no edge.                                              *)
LEMMA NodeBringsNoEdge ==
  ASSUME NEW d, IsDagStruct(d), NEW name \in Name
  PROVE  NamedEdges(WithNode(d, name)) = NamedEdges(d)
<1> DEFINE g == WithNode(d, name)
<1>1. IsDagStruct(g) /\ HasNodeToo(d, name, g)
  BY NodeAdded
<1> HIDE DEF g
<1>2. /\ NodesOf(d) \subseteq NodesOf(g)
      /\ \A i \in NodesOf(d) : g.names[i] = d.names[i] /\ g.children[i] = d.children[i]
      /\ \A i \in NodesOf(g) \ NodesOf(d) : g.children[i] = << >>
  BY <1>1 DEF HasNodeToo
<1>3. Elems(<< >>) = {}
  BY DEF Elems
<1>4. \A p \in NodesOf(d) : Elems(d.children[p]) \subseteq NodesOf(d)
  BY ElemsOfSeq DEF IsDagStruct, WellFormed
<1>5. NamedEdges(d) \subseteq NamedEdges(g)
  <2> SUFFICES ASSUME NEW e \in NamedEdges(d)
               PROVE  e \in NamedEdges(g)
    OBVIOUS
  <2>1. PICK p, c \in NodesOf(d) : e = <<d.names[p], d.names[c]>> /\ c \in Elems(d.children[p])
    BY NamedEdgesAre
  <2>2. p \in NodesOf(g) /\ c \in NodesOf(g) /\ e = <<g.names[p], g.names[c]>>
          /\ c \in Elems(g.children[p])
    BY <1>2, <2>1
  <2> QED
    BY <1>1, <2>2, NamedEdgesAre
<1>6. NamedEdges(g) \subseteq NamedEdges(d)
  <2> SUFFICES ASSUME NEW e \in NamedEdges(g)
               PROVE  e \in NamedEdges(d)
    OBVIOUS
  <2>1. PICK p, c \in NodesOf(g) : e = <<g.names[p], g.names[c]>> /\ c \in Elems(g.children[p])
    BY <1>1, NamedEdgesAre
  <2>2. p \in NodesOf(d)
    BY <1>2, <1>3, <2>1
  <2>3. c \in NodesOf(d) /\ e = <<d.names[p], d.names[c]>> /\ c \in Elems(d.children[p])
    BY <1>2, <1>4, <2>1, <2>2
  <2> QED
    BY <2>2, <2>3, NamedEdgesAre
<1> QED
  BY <1>5, <1>6 DEF g

(* A new edge brings itself.                                               *)
LEMMA EdgeBringsItself ==
  ASSUME NEW d, IsDagStruct(d), NEW p \in NodesOf(d), NEW c \in NodesOf(d), p # c,
         c \notin Elems(d.children[p])
  PROVE  NamedEdges(WithEdge(d, p, c)) = NamedEdges(d) \cup {<<d.names[p], d.names[c]>>}
<1> DEFINE g == WithEdge(d, p, c)
<1>1. IsDagStruct(g) /\ HasEdgeToo(d, p, c, g)
  BY EdgeAdded
<1> HIDE DEF g
<1>2. /\ g.names = d.names /\ NodesOf(g) = NodesOf(d)
      /\ Elems(g.children[p]) = Elems(d.children[p]) \cup {c}
      /\ \A i \in NodesOf(d) \ {p} : g.children[i] = d.children[i]
  BY <1>1 DEF HasEdgeToo
<1>3. NamedEdges(d) \subseteq NamedEdges(g) /\ <<d.names[p], d.names[c]>> \in NamedEdges(g)
  <2>1. <<d.names[p], d.names[c]>> \in NamedEdges(g)
    <3>1. <<g.names[p], g.names[c]>> \in NamedEdges(g)
      BY <1>1, <1>2, NamedEdgesAre
    <3> QED
      BY <1>2, <3>1
  <2>2. ASSUME NEW e \in NamedEdges(d)
        PROVE  e \in NamedEdges(g)
    <3>1. PICK q, b \in NodesOf(d) : e = <<d.names[q], d.names[b]>> /\ b \in Elems(d.children[q])
      BY NamedEdgesAre
    <3>2. b \in Elems(g.children[q]) /\ e = <<g.names[q], g.names[b]>> /\ q \in NodesOf(g)
            /\ b \in NodesOf(g)
      BY <1>2, <3>1
    <3> QED
      BY <1>1, <3>2, NamedEdgesAre
  <2> QED
    BY <2>1, <2>2
<1>4. ASSUME NEW e \in NamedEdges(g)
      PROVE  e \in NamedEdges(d) \cup {<<d.names[p], d.names[c]>>}
  <2>1. PICK q, b \in NodesOf(g) : e = <<g.names[q], g.names[b]>> /\ b \in Elems(g.children[q])
    BY <1>1, NamedEdgesAre
  <2>2. CASE q = p /\ b = c
    BY <1>2, <2>1, <2>2
  <2>3. CASE ~(q = p /\ b = c)
    <3>1. b \in Elems(d.children[q]) /\ q \in NodesOf(d) /\ b \in NodesOf(d)
      BY <1>2, <2>1, <2>3
    <3>2. <<d.names[q], d.names[b]>> \in NamedEdges(d)
      BY <3>1, NamedEdgesAre
    <3> QED
      BY <1>2, <2>1, <3>2
  <2> QED
    BY <2>2, <2>3
<1> QED
  BY <1>3, <1>4 DEF g

(* What reading one edge from a list does to a graph without it.           *)
LEMMA NamedEdgeAdded ==
  ASSUME NEW d, IsDagStruct(d), NEW e \in Name \X Name, e[1] # e[2], e \notin NamedEdges(d)
  PROVE  /\ IsDagStruct(WithNamedEdge(d, e))
         /\ NamedEdges(WithNamedEdge(d, e)) = NamedEdges(d) \cup {e}
         /\ Elems(WithNamedEdge(d, e).names) = Elems(d.names) \cup {e[1], e[2]}
<1> DEFINE one == WithNode(d, e[1])
           both == WithNode(one, e[2])
           p == IdOf(both, e[1])
           c == IdOf(both, e[2])
           g == WithEdge(both, p, c)
<1>1. e = <<e[1], e[2]>> /\ e[1] \in Name /\ e[2] \in Name
  OBVIOUS
<1>2. IsDagStruct(one) /\ Elems(one.names) = Elems(d.names) \cup {e[1]}
        /\ NamedEdges(one) = NamedEdges(d)
  <2>1. IsDagStruct(one) /\ HasNodeToo(d, e[1], one)
    BY <1>1, NodeAdded
  <2>2. NamedEdges(one) = NamedEdges(d)
    BY <1>1, NodeBringsNoEdge
  <2> HIDE DEF one
  <2> QED
    BY <2>1, <2>2 DEF HasNodeToo
<1> HIDE DEF one
<1>3. IsDagStruct(both) /\ Elems(both.names) = Elems(one.names) \cup {e[2]}
        /\ NamedEdges(both) = NamedEdges(one)
  <2>1. IsDagStruct(both) /\ HasNodeToo(one, e[2], both)
    BY <1>1, <1>2, NodeAdded
  <2>2. NamedEdges(both) = NamedEdges(one)
    BY <1>1, <1>2, NodeBringsNoEdge
  <2> HIDE DEF both
  <2> QED
    BY <2>1, <2>2 DEF HasNodeToo
<1> HIDE DEF both
<1>4. p \in NodesOf(both) /\ c \in NodesOf(both) /\ both.names[p] = e[1] /\ both.names[c] = e[2]
  <2>1. e[1] \in Elems(both.names) /\ e[2] \in Elems(both.names) /\ WellFormed(both)
    BY <1>2, <1>3 DEF IsDagStruct
  <2> QED
    BY <2>1, IdIsPlace
<1> HIDE DEF p, c
<1>5. p # c /\ c \notin Elems(both.children[p])
  <2>1. <<both.names[p], both.names[c]>> \notin NamedEdges(both)
    BY <1>1, <1>2, <1>3, <1>4
  <2> QED
    BY <1>3, <1>4, <2>1, NamedEdgesAre
<1>6. IsDagStruct(g) /\ g.names = both.names
  BY <1>3, <1>4, <1>5, EdgeAdded DEF HasEdgeToo
<1>7. NamedEdges(g) = NamedEdges(both) \cup {e}
  <2>1. NamedEdges(g) = NamedEdges(both) \cup {<<both.names[p], both.names[c]>>}
    BY <1>3, <1>4, <1>5, EdgeBringsItself
  <2> QED
    BY <1>1, <1>4, <2>1
<1>8. WithNamedEdge(d, e) = g
  BY DEF WithNamedEdge, p, c, both, one
<1> HIDE DEF g
<1> QED
  BY <1>2, <1>3, <1>6, <1>7, <1>8

(* If both its nodes are there, only the edge is new.                      *)
LEMMA EdgeOfKnownNodes ==
  ASSUME NEW d, WellFormed(d), NEW p \in NodesOf(d), NEW c \in NodesOf(d)
  PROVE  WithNamedEdge(d, <<d.names[p], d.names[c]>>) = WithEdge(d, p, c)
<1> DEFINE e == <<d.names[p], d.names[c]>>
<1>1. e[1] \in Elems(d.names) /\ e[2] \in Elems(d.names) /\ IdOf(d, e[1]) = p /\ IdOf(d, e[2]) = c
  BY IdIsPlace
<1> HIDE DEF e
<1>2. WithNode(d, e[1]) = d
  BY <1>1 DEF WithNode
<1>3. WithNode(d, e[2]) = d
  BY <1>1 DEF WithNode
<1> QED
  BY <1>1, <1>2, <1>3 DEF WithNamedEdge, e

------------------------------------------------------------------------------
(* The list of edges, written out and read back                            *)

(* The list `edges` holds the edges of d node by node, each node's in the  *)
(* order of its children; those of node i follow the first off[i - 1].     *)
IsLaidOut(d, edges, off) ==
  /\ edges \in Seq(Name \X Name)
  /\ off \in [0..Len(d.names) -> Nat]
  /\ off[0] = 0 /\ off[Len(d.names)] = Len(edges)
  /\ \A i \in NodesOf(d) : off[i] = off[i - 1] + Len(d.children[i])
  /\ \A i \in NodesOf(d) : \A m \in 1..Len(d.children[i]) :
       edges[off[i - 1] + m] = <<d.names[i], d.names[d.children[i][m]]>>

(* That is how EdgeList lays them out.                                     *)
LEMMA EdgesAreLaidOut ==
  ASSUME NEW d, WellFormed(d)
  PROVE  \E off : IsLaidOut(d, EdgeList(d), off)
<1> DEFINE n == Len(d.names)
           V == Seq(Name \X Name)
           step == [i \in 1..n |-> [x \in V |-> x \o NamedChildren(d, i)]]
           eq(f) == f = [i \in 0..n |-> IF i = 0 THEN << >> ELSE f[i - 1] \o NamedChildren(d, i)]
           up == CHOOSE f : eq(f)
<1>1. /\ n \in Nat /\ NodesOf(d) = 1..n
      /\ d.names \in [1..n -> Name] /\ d.children \in [1..n -> Seq(1..n)]
  BY Nodes, SeqsAreFunctions DEF WellFormed
<1>2. EdgeList(d) = up[n]
  BY DEF EdgeList
<1> HIDE DEF n
<1>0. n \in Nat /\ (\A i \in 1..n : i \in 0..n /\ i - 1 \in 0..n)
        /\ \A i \in 0..n : i = 0 \/ i \in 1..n
  BY <1>1
<1>3. ASSUME NEW i \in 1..n
      PROVE  /\ NamedChildren(d, i) \in V /\ Len(NamedChildren(d, i)) = Len(d.children[i])
             /\ Len(d.children[i]) \in Nat
             /\ \A m \in 1..Len(d.children[i]) :
                  NamedChildren(d, i)[m] = <<d.names[i], d.names[d.children[i][m]]>>
  <2> DEFINE r == NamedChildren(d, i)
             l == Len(d.children[i])
  <2>1. l \in Nat /\ d.children[i] \in [1..l -> 1..n]
    BY <1>1, SeqsAreFunctions
  <2>2. r = [m \in 1..l |-> <<d.names[i], d.names[d.children[i][m]]>>]
    BY <2>1 DEF NamedChildren
  <2> HIDE DEF r, l
  <2>3. r \in [1..l -> Name \X Name]
    BY <1>1, <2>1, <2>2
  <2>4. r \in V /\ Len(r) = l
    BY <2>1, <2>3, FunctionsAreSeqs
  <2> QED
    BY <2>1, <2>2, <2>4 DEF r, l
<1>4. << >> \in V
  OBVIOUS
<1>5. IsStep(n, V, step)
  <2> SUFFICES ASSUME NEW i \in 1..n, NEW x \in V
               PROVE  step[i][x] \in V
    BY DEF IsStep
  <2> QED
    BY <1>3, ConcatProperties
<1>6. PICK g : Follows(n, V, << >>, step, g)
  <2> HIDE DEF step, V
  <2> QED
    BY <1>1, <1>4, <1>5, RecursionExists
<1>7. /\ g \in [0..n -> V] /\ g[0] = << >>
      /\ \A i \in 1..n : g[i] = g[i - 1] \o NamedChildren(d, i)
  <2>1. /\ g \in [0..n -> V] /\ g[0] = << >>
        /\ \A i \in 1..n : g[i] = step[i][g[i - 1]]
    BY <1>6 DEF Follows
  <2>2. \A i \in 1..n : g[i - 1] \in V
    BY <1>1, <2>1
  <2> QED
    BY <2>1, <2>2
<1> HIDE DEF V
<1>8. eq(up)
  <2>1. ASSUME NEW i \in 0..n
        PROVE  g[i] = IF i = 0 THEN << >> ELSE g[i - 1] \o NamedChildren(d, i)
    <3>1. CASE i = 0
      BY <1>7, <3>1
    <3>2. CASE i # 0
      <4>1. i \in 1..n
        BY <1>0, <3>2
      <4> QED
        BY <1>7, <3>2, <4>1
    <3> QED
      BY <3>1, <3>2
  <2>2. eq(g)
    BY <1>7, <2>1
  <2> HIDE DEF eq
  <2> QED
    BY <2>2
<1> HIDE DEF up
<1>9. /\ up[0] = << >>
      /\ \A i \in 1..n : up[i] = up[i - 1] \o NamedChildren(d, i)
  <2> DEFINE body(i) == IF i = 0 THEN << >> ELSE up[i - 1] \o NamedChildren(d, i)
  <2>1. up = [i \in 0..n |-> body(i)]
    BY <1>8
  <2> HIDE DEF body
  <2>2. \A i \in 0..n : up[i] = body(i)
    BY <2>1
  <2>3. 0 \in 0..n
    BY <1>0
  <2>4. \A i \in 1..n : up[i] = up[i - 1] \o NamedChildren(d, i)
    <3> SUFFICES ASSUME NEW i \in 1..n
                 PROVE  up[i] = body(i) /\ i # 0
      BY DEF body
    <3> QED
      BY <1>0, <2>2
  <2> QED
    BY <2>2, <2>3, <2>4 DEF body
<1>10. up[n] = g[n] /\ \A i \in 0..n : up[i] = g[i]
  <2>1. InStep(n, up, g)
    BY <1>7, <1>9 DEF InStep
  <2> QED
    BY <1>1, <2>1, RecursionIsUnique
<1> DEFINE off == [i \in 0..n |-> Len(g[i])]
<1>11. /\ off \in [0..n -> Nat] /\ off[0] = 0 /\ off[n] = Len(g[n])
       /\ \A i \in 0..n : off[i] = Len(g[i])
  <2>1. \A i \in 0..n : Len(g[i]) \in Nat
    BY <1>7 DEF V
  <2> QED
    BY <1>1, <1>7, <2>1
<1> HIDE DEF off
<1>12. ASSUME NEW i \in 1..n
       PROVE  /\ off[i] = off[i - 1] + Len(d.children[i])
              /\ \A m \in 1..Len(d.children[i]) :
                   g[i][off[i - 1] + m] = <<d.names[i], d.names[d.children[i][m]]>>
              /\ \A k \in 1..off[i - 1] : g[i][k] = g[i - 1][k]
  <2>1. i - 1 \in 0..n /\ g[i - 1] \in V /\ NamedChildren(d, i) \in V
    BY <1>1, <1>3, <1>7
  <2> DEFINE x == g[i - 1]
             y == NamedChildren(d, i)
  <2>2. g[i] = x \o y /\ x \in Seq(Name \X Name) /\ y \in Seq(Name \X Name)
    BY <1>7, <2>1 DEF V
  <2>3. /\ Len(x) = off[i - 1] /\ Len(y) = Len(d.children[i]) /\ off[i] = Len(g[i])
        /\ Len(x) \in Nat /\ Len(y) \in Nat
        /\ \A m \in 1..Len(y) : y[m] = <<d.names[i], d.names[d.children[i][m]]>>
    <3>1. Len(x) = off[i - 1] /\ off[i] = Len(g[i])
      BY <1>0, <1>11
    <3>2. Len(y) = Len(d.children[i]) /\ Len(y) \in Nat
      BY <1>3
    <3>3. Len(x) \in Nat
      BY <2>2
    <3>4. \A m \in 1..Len(y) : y[m] = <<d.names[i], d.names[d.children[i][m]]>>
      BY <1>3, <3>2
    <3> QED
      BY <3>1, <3>2, <3>3, <3>4
  <2> HIDE DEF x, y
  <2>4. /\ Len(x \o y) = Len(x) + Len(y)
        /\ \A k \in 1..Len(x) : (x \o y)[k] = x[k]
        /\ \A m \in 1..Len(y) : (x \o y)[Len(x) + m] = y[m]
    <3> DEFINE P == Name \X Name
    <3>1. x \in Seq(P) /\ y \in Seq(P)
      BY <2>2
    <3> HIDE DEF P
    <3> QED
      BY <3>1, ConcatProperties
  <2>5. \A k \in 1..off[i - 1] : g[i][k] = g[i - 1][k]
    BY <2>2, <2>3, <2>4 DEF x
  <2> QED
    BY <2>2, <2>3, <2>4, <2>5
<1> HIDE DEF step, eq
<1> DEFINE row(i, m) == <<d.names[i], d.names[d.children[i][m]]>>
           len(i) == Len(d.children[i])
<1>13. /\ \A i \in 1..n : off[i] = off[i - 1] + len(i) /\ len(i) \in Nat
       /\ \A i \in 1..n : \A m \in 1..len(i) : g[i][off[i - 1] + m] = row(i, m)
       /\ \A i \in 1..n : \A k \in 1..off[i - 1] : g[i][k] = g[i - 1][k]
  BY <1>3, <1>12
<1> HIDE DEF row, len
<1> DEFINE Laid(j) == \A i \in 1..j : off[i] <= off[j]
  /\ \A m \in 1..len(i) : g[j][off[i - 1] + m] = row(i, m)
           Bad == {j \in 1..n : ~Laid(j)}
<1>14. Bad = {}
  <2> SUFFICES ASSUME Bad # {}
               PROVE  FALSE
    OBVIOUS
  <2> HIDE DEF Laid
  <2>1. Bad \in SUBSET Nat
    OBVIOUS
  <2>2. PICK j \in Bad : \A x \in Bad : j <= x
    <3> HIDE DEF Bad
    <3> QED
      BY <2>1, MinOfNaturals
  <2>3. j \in 1..n /\ ~Laid(j) /\ (j # 1 => j - 1 \in 1..n /\ j - 1 \notin Bad)
    BY <1>0, <2>2
  <2>4. j # 1 => Laid(j - 1)
    BY <2>3
  <2> HIDE DEF Bad
  <2>5. off[j] \in Nat /\ off[j - 1] \in Nat /\ j - 1 \in 0..n /\ off[j - 1] <= off[j]
    <3>1. off[j] \in Nat /\ off[j - 1] \in Nat /\ j - 1 \in 0..n
      BY <1>0, <1>11, <2>3
    <3>2. off[j] = off[j - 1] + len(j) /\ len(j) \in Nat
      BY <1>13, <2>3
    <3> QED
      BY <3>1, <3>2
  <2>6. ASSUME NEW i \in 1..j
        PROVE  off[i] <= off[j] /\ \A m \in 1..len(i) : g[j][off[i - 1] + m] = row(i, m)
    <3>1. CASE i = j
      <4>1. \A m \in 1..len(j) : g[j][off[j - 1] + m] = row(j, m)
        BY <1>13, <2>3
      <4>2. off[j] <= off[j]
        BY <2>5
      <4> QED
        BY <3>1, <4>1, <4>2
    <3>2. CASE i # j
      <4>1. i \in 1..(j - 1) /\ j # 1 /\ i \in 1..n /\ i - 1 \in 0..n
        BY <1>0, <2>3, <3>2
      <4>2. off[i] <= off[j - 1] /\ \A m \in 1..len(i) : g[j - 1][off[i - 1] + m] = row(i, m)
        BY <2>4, <4>1 DEF Laid
      <4>3. off[i] \in Nat /\ off[i - 1] \in Nat /\ off[i] = off[i - 1] + len(i) /\ len(i) \in Nat
        BY <1>0, <1>11, <1>13, <4>1
      <4>4. ASSUME NEW m \in 1..len(i)
            PROVE  g[j][off[i - 1] + m] = row(i, m)
        <5>1. off[i - 1] + m \in 1..off[j - 1]
          BY <2>5, <4>2, <4>3
        <5>2. g[j][off[i - 1] + m] = g[j - 1][off[i - 1] + m]
          BY <1>13, <2>3, <5>1
        <5> QED
          BY <4>2, <5>2
      <4>5. off[i] <= off[j]
        BY <2>5, <4>2, <4>3
      <4> QED
        BY <4>4, <4>5
    <3> QED
      BY <3>1, <3>2
  <2> QED
    BY <2>3, <2>6 DEF Laid
<1>15. \A i \in 1..n : \A m \in 1..len(i) : g[n][off[i - 1] + m] = row(i, m)
  <2>1. \A j \in 1..n : Laid(j)
    <3> HIDE DEF Laid
    <3> QED
      BY <1>14
  <2>2. CASE n = 0
    BY <2>2
  <2>3. CASE n # 0
    <3>1. n \in 1..n
      BY <1>0, <2>3
    <3>2. Laid(n)
      <4> HIDE DEF Laid
      <4> QED
        BY <2>1, <3>1
    <3> QED
      BY <3>2
  <2> QED
    BY <2>2, <2>3
<1>16. IsLaidOut(d, g[n], off)
  <2> HIDE DEF Bad, Laid
  <2>1. g[n] \in Seq(Name \X Name) /\ off[n] = Len(g[n]) /\ off \in [0..n -> Nat] /\ off[0] = 0
    BY <1>0, <1>7, <1>11 DEF V
  <2>2. \A i \in 1..n : off[i] = off[i - 1] + Len(d.children[i])
    BY <1>13 DEF len
  <2>3. \A i \in 1..n : \A m \in 1..Len(d.children[i]) :
          g[n][off[i - 1] + m] = <<d.names[i], d.names[d.children[i][m]]>>
    BY <1>15 DEF len, row
  <2>4. NodesOf(d) = 1..n
    BY <1>1
  <2> QED
    BY <2>1, <2>2, <2>3, <2>4 DEF IsLaidOut, n
<1> QED
  BY <1>2, <1>10, <1>16

(* Every place in the list of edges is that of one child of one node.      *)
LEMMA PlacesInEdges ==
  ASSUME NEW d, WellFormed(d), NEW edges, NEW off, IsLaidOut(d, edges, off)
  PROVE  /\ \A i \in NodesOf(d) : off[i - 1] \in Nat /\ off[i] = off[i - 1] + Len(d.children[i])
                                  /\ Len(d.children[i]) \in Nat
         /\ \A i, j \in NodesOf(d) : i < j => off[i] <= off[j - 1]
         /\ \A i \in NodesOf(d) : off[i] <= Len(edges)
         /\ \A k \in 1..Len(edges) : \E i \in NodesOf(d) :
              off[i - 1] < k /\ k <= off[i] /\ k - off[i - 1] \in 1..Len(d.children[i])
<1> DEFINE n == Len(d.names)
<1>1. n \in Nat /\ NodesOf(d) = 1..n /\ \A i \in 1..n : Len(d.children[i]) \in Nat
  <2>1. \A i \in NodesOf(d) : d.children[i] \in Seq(NodesOf(d))
    BY DEF WellFormed
  <2> QED
    BY <2>1, Nodes
<1>2. /\ off \in [0..n -> Nat] /\ off[0] = 0 /\ off[n] = Len(edges)
      /\ \A i \in 1..n : off[i] = off[i - 1] + Len(d.children[i])
  BY <1>1 DEF IsLaidOut
<1> HIDE DEF n
<1>3. /\ \A i \in 1..n : i - 1 \in 0..n /\ i \in 0..n /\ off[i] \in Nat /\ off[i - 1] \in Nat
                         /\ off[i - 1] <= off[i]
      /\ \A i \in 0..n : off[i] \in Nat
  <2>1. \A i \in 1..n : i - 1 \in 0..n /\ i \in 0..n
    BY <1>1
  <2>2. \A i \in 0..n : off[i] \in Nat
    BY <1>2
  <2>3. \A i \in 1..n : off[i - 1] <= off[i]
    <3> SUFFICES ASSUME NEW i \in 1..n
                 PROVE  off[i - 1] <= off[i]
      OBVIOUS
    <3>1. off[i] = off[i - 1] + Len(d.children[i]) /\ Len(d.children[i]) \in Nat
      BY <1>1, <1>2
    <3>2. off[i - 1] \in Nat
      BY <2>1, <2>2
    <3> QED
      BY <3>1, <3>2
  <2> QED
    BY <2>1, <2>2, <2>3
<1>4. ASSUME NEW i \in 0..n
      PROVE  \A j \in i..n : off[i] <= off[j]
  <2> DEFINE Bad == {j \in i..n : ~(off[i] <= off[j])}
  <2> SUFFICES ASSUME Bad # {}
               PROVE  FALSE
    OBVIOUS
  <2>1. Bad \in SUBSET Nat
    BY <1>1
  <2>2. PICK j \in Bad : \A x \in Bad : j <= x
    <3> HIDE DEF Bad
    <3> QED
      BY <2>1, MinOfNaturals
  <2>3. off[i] \in Nat /\ j # i
    BY <1>3, <2>2
  <2>4. j - 1 \in i..n /\ j \in 1..n /\ j - 1 \notin Bad
    BY <1>1, <2>2, <2>3
  <2>5. off[i] <= off[j - 1] /\ off[j - 1] <= off[j] /\ off[j - 1] \in Nat /\ off[j] \in Nat
    BY <1>3, <2>4
  <2> QED
    BY <2>2, <2>3, <2>5
<1>5. \A i, j \in 1..n : i < j => off[i] <= off[j - 1]
  <2> SUFFICES ASSUME NEW i \in 1..n, NEW j \in 1..n, i < j
               PROVE  off[i] <= off[j - 1]
    OBVIOUS
  <2>1. i \in 0..n /\ j - 1 \in i..n
    BY <1>1
  <2> QED
    BY <1>4, <2>1
<1>6. \A i \in 1..n : off[i] <= Len(edges)
  <2> SUFFICES ASSUME NEW i \in 1..n
               PROVE  off[i] <= off[n]
    BY <1>2
  <2>1. i \in 0..n /\ n \in i..n
    BY <1>1
  <2> QED
    BY <1>4, <2>1
<1>7. ASSUME NEW k \in 1..Len(edges)
      PROVE  \E i \in 1..n : off[i - 1] < k /\ k <= off[i]
               /\ k - off[i - 1] \in 1..Len(d.children[i])
  <2> DEFINE R == {i \in 0..n : k <= off[i]}
  <2>1. n \in R /\ R \in SUBSET Nat
    BY <1>1, <1>2
  <2>2. PICK i \in R : \A x \in R : i <= x
    <3> HIDE DEF R
    <3> QED
      BY <2>1, MinOfNaturals
  <2>3. i # 0
    BY <1>2, <2>2
  <2>4. i \in 1..n /\ i - 1 \in 0..n /\ i - 1 \notin R
    BY <1>1, <2>2, <2>3
  <2>5. k <= off[i] /\ ~(k <= off[i - 1]) /\ off[i] = off[i - 1] + Len(d.children[i])
        /\ off[i - 1] \in Nat /\ Len(d.children[i]) \in Nat
    BY <1>1, <1>2, <1>3, <2>2, <2>4
  <2>6. k \in Nat
    OBVIOUS
  <2> HIDE DEF R
  <2>7. off[i - 1] < k /\ k - off[i - 1] \in 1..Len(d.children[i])
    BY <2>5, <2>6
  <2> QED
    BY <2>4, <2>5, <2>7
<1> QED
  BY <1>1, <1>2, <1>3, <1>5, <1>6, <1>7

(* So the list has every edge, and each once.                              *)
LEMMA EachEdgeOnce ==
  ASSUME NEW d, IsDagStruct(d), NEW edges, NEW off, IsLaidOut(d, edges, off)
  PROVE  Elems(edges) = NamedEdges(d) /\ IsInjectiveSeq(edges)
<1> DEFINE n == Len(d.names)
           C(i) == d.children[i]
<1>1. /\ n \in Nat /\ NodesOf(d) = 1..n /\ WellFormed(d)
      /\ \A i \in 1..n : C(i) \in Seq(1..n) /\ IsInjectiveSeq(C(i))
      /\ \A i, j \in 1..n : d.names[i] = d.names[j] => i = j
  BY Nodes DEF IsDagStruct, WellFormed, Mirrored, IsInjectiveSeq
<1>2. \A i \in 1..n : \A m \in 1..Len(C(i)) :
        edges[off[i - 1] + m] = <<d.names[i], d.names[C(i)[m]]>> /\ C(i)[m] \in 1..n
  <2>1. \A i \in 1..n : \A m \in 1..Len(C(i)) : C(i)[m] \in 1..n
    BY <1>1
  <2>2. \A i \in 1..n : \A m \in 1..Len(C(i)) : edges[off[i - 1] + m]
          = <<d.names[i], d.names[C(i)[m]]>>
    BY <1>1 DEF IsLaidOut
  <2> QED
    BY <2>1, <2>2
<1>3. /\ \A i \in 1..n : off[i - 1] \in Nat /\ off[i] = off[i - 1] + Len(C(i))
           /\ off[i] <= Len(edges)
                         /\ Len(C(i)) \in Nat
      /\ \A i, j \in 1..n : i < j => off[i] <= off[j - 1]
      /\ \A k \in 1..Len(edges) : \E i \in 1..n :
           off[i - 1] < k /\ k <= off[i] /\ k - off[i - 1] \in 1..Len(C(i))
  <2>1. \A i \in NodesOf(d) : off[i - 1] \in Nat /\ off[i] = off[i - 1] + Len(d.children[i])
                                /\ Len(d.children[i]) \in Nat
    BY <1>1, PlacesInEdges
  <2>2. \A i \in NodesOf(d) : off[i] <= Len(edges)
    BY <1>1, PlacesInEdges
  <2>3. \A i, j \in NodesOf(d) : i < j => off[i] <= off[j - 1]
    BY <1>1, PlacesInEdges
  <2>4. \A k \in 1..Len(edges) : \E i \in NodesOf(d) :
          off[i - 1] < k /\ k <= off[i] /\ k - off[i - 1] \in 1..Len(d.children[i])
    BY <1>1, PlacesInEdges
  <2> QED
    BY <1>1, <2>1, <2>2, <2>3, <2>4
<1>4. Len(edges) \in Nat
  BY DEF IsLaidOut
<1> HIDE DEF n, C
<1>5. ASSUME NEW k \in 1..Len(edges)
      PROVE  \E i \in 1..n : \E m \in 1..Len(C(i)) :
               k = off[i - 1] + m /\ edges[k] = <<d.names[i], d.names[C(i)[m]]>> /\ C(i)[m] \in 1..n
  <2>1. PICK i \in 1..n : off[i - 1] < k /\ k <= off[i] /\ k - off[i - 1] \in 1..Len(C(i))
    BY <1>3
  <2> DEFINE m == k - off[i - 1]
  <2>2. m \in 1..Len(C(i)) /\ off[i - 1] + m = k
    <3>1. off[i - 1] \in Nat /\ k \in Nat
      BY <1>3
    <3> QED
      BY <2>1, <3>1
  <2> HIDE DEF m
  <2>3. edges[off[i - 1] + m] = <<d.names[i], d.names[C(i)[m]]>> /\ C(i)[m] \in 1..n
    BY <1>2, <2>2
  <2>4. edges[k] = <<d.names[i], d.names[C(i)[m]]>>
    BY <2>2, <2>3
  <2> QED
    BY <2>2, <2>3, <2>4
<1>6. Elems(edges) = NamedEdges(d)
  <2>1. ASSUME NEW k \in 1..Len(edges)
        PROVE  edges[k] \in NamedEdges(d)
    <3>1. PICK i \in 1..n :
            \E m \in 1..Len(C(i)) :
               k = off[i - 1] + m /\ edges[k] = <<d.names[i], d.names[C(i)[m]]>> /\ C(i)[m] \in 1..n
      BY <1>5
    <3>2. PICK m \in 1..Len(C(i)) : edges[k] = <<d.names[i], d.names[C(i)[m]]>> /\ C(i)[m] \in 1..n
      BY <3>1
    <3>3. C(i)[m] \in Elems(C(i))
      BY DEF Elems
    <3>4. C(i)[m] \in Elems(d.children[i])
      BY <3>3 DEF C
    <3>5. <<d.names[i], d.names[C(i)[m]]>> \in NamedEdges(d)
      <4> DEFINE c == C(i)[m]
      <4>1. i \in NodesOf(d) /\ c \in NodesOf(d) /\ c \in Elems(d.children[i])
        BY <1>1, <3>2, <3>4
      <4> HIDE DEF c
      <4>2. <<d.names[i], d.names[c]>> \in NamedEdges(d)
        BY <4>1, NamedEdgesAre
      <4> QED
        BY <4>2 DEF c
    <3> QED
      BY <3>2, <3>5
  <2>2. ASSUME NEW e \in NamedEdges(d)
        PROVE  \E k \in 1..Len(edges) : edges[k] = e
    <3>1. PICK p, c \in NodesOf(d) : e = <<d.names[p], d.names[c]>> /\ c \in Elems(d.children[p])
      BY NamedEdgesAre
    <3>2. p \in 1..n /\ c \in Elems(C(p))
      BY <1>1, <3>1 DEF C
    <3>3. PICK m \in 1..Len(C(p)) : C(p)[m] = c
      BY <3>2 DEF Elems
    <3>4. edges[off[p - 1] + m] = e
      BY <1>2, <3>1, <3>2, <3>3
    <3>5. off[p - 1] + m \in 1..Len(edges)
      <4>1. off[p - 1] \in Nat /\ off[p] = off[p - 1] + Len(C(p)) /\ off[p] <= Len(edges)
            /\ Len(C(p)) \in Nat
        BY <1>3, <3>2
      <4>2. m \in Nat /\ 1 <= m /\ m <= Len(C(p))
        BY <4>1
      <4> QED
        BY <1>4, <4>1, <4>2
    <3> QED
      BY <3>4, <3>5
  <2> QED
    BY <2>1, <2>2 DEF Elems
<1>7. IsInjectiveSeq(edges)
  <2> SUFFICES ASSUME NEW j \in 1..Len(edges), NEW k \in 1..Len(edges), edges[j] = edges[k]
               PROVE  j = k
    BY DEF IsInjectiveSeq
  <2>1. PICK i \in 1..n : \E m \in 1..Len(C(i)) :
          j = off[i - 1] + m /\ edges[j] = <<d.names[i], d.names[C(i)[m]]>> /\ C(i)[m] \in 1..n
    BY <1>5
  <2>2. PICK m \in 1..Len(C(i)) :
          j = off[i - 1] + m /\ edges[j] = <<d.names[i], d.names[C(i)[m]]>> /\ C(i)[m] \in 1..n
    BY <2>1
  <2>3. PICK a \in 1..n : \E b \in 1..Len(C(a)) :
          k = off[a - 1] + b /\ edges[k] = <<d.names[a], d.names[C(a)[b]]>> /\ C(a)[b] \in 1..n
    BY <1>5
  <2>4. PICK b \in 1..Len(C(a)) :
          k = off[a - 1] + b /\ edges[k] = <<d.names[a], d.names[C(a)[b]]>> /\ C(a)[b] \in 1..n
    BY <2>3
  <2>5. a = i /\ C(a)[b] = C(i)[m]
    <3>1. d.names[i] = d.names[a] /\ d.names[C(i)[m]] = d.names[C(a)[b]]
      BY <2>2, <2>4
    <3> QED
      BY <1>1, <2>2, <2>4, <3>1
  <2>6. b = m
    <3>1. IsInjectiveSeq(C(i))
      BY <1>1
    <3> QED
      BY <2>5, <3>1 DEF IsInjectiveSeq
  <2> QED
    BY <2>2, <2>4, <2>5, <2>6
<1> QED
  BY <1>6, <1>7

(* The ends of the first k edges of the list.                              *)
EndsOf(edges, k) == {edges[j][1] : j \in 1..k} \cup {edges[j][2] : j \in 1..k}

(* x is d with the first k edges of the list added.                        *)
HasFirstEdges(d, edges, k, x) ==
  /\ IsDagStruct(x)
  /\ NamedEdges(x) = Prefix(edges, k)
  /\ Elems(x.names) = Elems(d.names) \cup EndsOf(edges, k)

(* g[k] is the graph after k edges.                                        *)
IsBuild(d, edges, g) ==
  /\ g[0] = d
  /\ \A k \in 1..Len(edges) : g[k] = WithNamedEdge(g[k - 1], edges[k])
  /\ \A k \in 0..Len(edges) : HasFirstEdges(d, edges, k, g[k])

(* A list of edges that repeats none can be added, one after the other, to *)
(* a graph without edges.                                                  *)
LEMMA EdgesAreAddable ==
  ASSUME NEW d, IsDagStruct(d), NamedEdges(d) = {},
         NEW edges \in Seq(Name \X Name), IsInjectiveSeq(edges),
         \A k \in 1..Len(edges) : edges[k][1] # edges[k][2]
  PROVE  \E g : g = [k \in 0..Len(edges) |-> g[k]] /\ IsBuild(d, edges, g)
<1> DEFINE n == Len(edges)
           Good(x, k) == HasFirstEdges(d, edges, k, x)
           Upto(g, m) == /\ g = [k \in 0..m |-> g[k]]
                         /\ g[0] = d
                         /\ \A k \in 1..m : g[k] = WithNamedEdge(g[k - 1], edges[k])
                         /\ \A k \in 0..m : Good(g[k], k)
           Bad == {m \in 0..n : ~\E g : Upto(g, m)}
<1>1. n \in Nat /\ \A k \in 1..n : edges[k] \in Name \X Name
  OBVIOUS
<1>2. Good(d, 0)
  <2>1. Prefix(edges, 0) = {} /\ EndsOf(edges, 0) = {}
    BY DEF Prefix, EndsOf
  <2> QED
    BY <2>1 DEF HasFirstEdges
<1>3. ASSUME NEW k \in 1..n, NEW x, Good(x, k - 1)
      PROVE  Good(WithNamedEdge(x, edges[k]), k)
  <2> DEFINE e == edges[k]
  <2>1. e \in Name \X Name /\ e[1] # e[2]
    BY <1>1
  <2>2. \A j \in 1..(k - 1) : j \in 1..n /\ j # k
    BY <1>1
  <2>3. k \in 1..k /\ \A j \in 1..k : j = k \/ j \in 1..(k - 1)
    BY <1>1
  <2>4. \A j \in 1..(k - 1) : j \in 1..k
    BY <1>1
  <2>5. e \notin Prefix(edges, k - 1)
    BY <2>2 DEF Prefix, IsInjectiveSeq
  <2>6. Prefix(edges, k) = Prefix(edges, k - 1) \cup {e}
    BY <2>3, <2>4 DEF Prefix
  <2>7. EndsOf(edges, k) = EndsOf(edges, k - 1) \cup {e[1], e[2]}
    BY <2>3, <2>4 DEF EndsOf
  <2>8. IsDagStruct(x) /\ NamedEdges(x) = Prefix(edges, k - 1)
        /\ Elems(x.names) = Elems(d.names) \cup EndsOf(edges, k - 1)
    BY <1>3 DEF HasFirstEdges
  <2> HIDE DEF e
  <2>9. /\ IsDagStruct(WithNamedEdge(x, e))
        /\ NamedEdges(WithNamedEdge(x, e)) = NamedEdges(x) \cup {e}
        /\ Elems(WithNamedEdge(x, e).names) = Elems(x.names) \cup {e[1], e[2]}
    <3>1. IsDagStruct(x) /\ e \in Name \X Name /\ e[1] # e[2] /\ e \notin NamedEdges(x)
      BY <2>1, <2>5, <2>8 DEF e
    <3> QED
      BY <3>1, NamedEdgeAdded, Zenon
  <2>10. HasFirstEdges(d, edges, k, WithNamedEdge(x, e))
    BY <2>6, <2>7, <2>8, <2>9 DEF HasFirstEdges
  <2> QED
    BY <2>10 DEF e
<1> HIDE DEF n, Good
<1>4. Bad = {}
  <2> SUFFICES ASSUME Bad # {}
               PROVE  FALSE
    OBVIOUS
  <2>1. PICK m \in Bad : \A x \in Bad : m <= x
    <3>1. Bad \in SUBSET Nat
      OBVIOUS
    <3> HIDE DEF Bad
    <3> QED
      BY <3>1, MinOfNaturals
  <2>2. m \in 0..n /\ m \in Nat /\ ~\E g : Upto(g, m)
    BY <1>1
  <2>3. CASE m = 0
    <3> DEFINE g == [k \in 0..0 |-> d]
    <3>1. g[0] = d /\ g = [k \in 0..0 |-> g[k]]
      OBVIOUS
    <3>2. \A k \in 0..0 : Good(g[k], k)
      BY <1>2
    <3>3. Upto(g, 0)
      BY <3>1, <3>2
    <3> HIDE DEF g, Upto
    <3> QED
      BY <2>2, <2>3, <3>3
  <2>4. CASE m # 0
    <3>1. m \in 1..n /\ m - 1 \in 0..n /\ m - 1 \notin Bad
      <4> HIDE DEF Bad
      <4>1. m - 1 < m /\ m - 1 \in 0..n /\ m \in 1..n
        BY <1>1, <2>2, <2>4
      <4>2. m - 1 \in Bad => m <= m - 1
        BY <2>1
      <4> QED
        BY <2>2, <4>1, <4>2
    <3>2. PICK f : Upto(f, m - 1)
      <4> HIDE DEF Upto
      <4> QED
        BY <3>1
    <3> DEFINE g == [k \in 0..m |-> IF k = m THEN WithNamedEdge(f[m - 1], edges[m]) ELSE f[k]]
    <3>3. /\ 0 \in 0..m /\ 0 # m /\ m \in 0..m
          /\ \A k \in 0..m : k = m \/ k \in 0..(m - 1)
          /\ \A k \in 1..m : k = m \/ k \in 1..(m - 1)
          /\ \A k \in 1..m : k - 1 \in 0..m /\ k - 1 # m
          /\ \A k \in 0..(m - 1) : k # m /\ k \in 0..m
          /\ m - 1 \in 0..(m - 1)
      BY <2>2, <2>4
    <3>4. /\ g = [k \in 0..m |-> g[k]]
          /\ g[m] = WithNamedEdge(f[m - 1], edges[m])
          /\ \A k \in 0..(m - 1) : g[k] = f[k]
      BY <3>3
    <3> HIDE DEF g
    <3>5. g[0] = d
      <4>1. 0 \in 0..(m - 1)
        BY <2>2, <2>4
      <4> QED
        BY <3>2, <3>4, <4>1
    <3>6. ASSUME NEW k \in 1..m
          PROVE  g[k] = WithNamedEdge(g[k - 1], edges[k])
      <4>1. CASE k = m
        BY <3>3, <3>4, <4>1
      <4>2. CASE k # m
        <5>1. k \in 1..(m - 1) /\ k - 1 \in 0..(m - 1) /\ k \in 0..(m - 1)
          BY <2>2, <4>2
        <5> QED
          BY <3>2, <3>4, <5>1
      <4> QED
        BY <4>1, <4>2
    <3>7. ASSUME NEW k \in 0..m
          PROVE  Good(g[k], k)
      <4>1. CASE k = m
        <5>1. Good(f[m - 1], m - 1)
          BY <3>2, <3>3
        <5> QED
          BY <1>3, <3>1, <3>4, <4>1, <5>1
      <4>2. CASE k # m
        BY <3>2, <3>3, <3>4, <4>2
      <4> QED
        BY <4>1, <4>2
    <3>8. Upto(g, m)
      BY <3>4, <3>5, <3>6, <3>7
    <3> HIDE DEF Upto
    <3> QED
      BY <2>2, <3>8
  <2> QED
    BY <2>3, <2>4
<1>5. n \in 0..n
  BY <1>1
<1>6. PICK g : Upto(g, n)
  <2> HIDE DEF Upto
  <2> QED
    BY <1>4, <1>5
<1>7. g = [k \in 0..Len(edges) |-> g[k]] /\ IsBuild(d, edges, g)
  BY <1>6 DEF IsBuild, n, Good
<1> QED
  BY <1>7

(* WithEdges does so.                                                      *)
LEMMA EdgesAreAdded ==
  ASSUME NEW d, IsDagStruct(d), NamedEdges(d) = {},
         NEW edges \in Seq(Name \X Name), IsInjectiveSeq(edges),
         \A k \in 1..Len(edges) : edges[k][1] # edges[k][2]
  PROVE  \E g : IsBuild(d, edges, g) /\ WithEdges(d, edges) = g[Len(edges)]
<1> DEFINE n == Len(edges)
           eq(f) == f = [k \in 0..n |-> IF k = 0 THEN d ELSE WithNamedEdge(f[k - 1], edges[k])]
           sol == CHOOSE f : eq(f)
<1>1. n \in Nat
  OBVIOUS
<1>2. WithEdges(d, edges) = sol[n]
  BY DEF WithEdges
<1>3. PICK g : g = [k \in 0..n |-> g[k]] /\ IsBuild(d, edges, g)
  BY EdgesAreAddable
<1>4. g[0] = d /\ \A k \in 1..n : g[k] = WithNamedEdge(g[k - 1], edges[k])
  BY <1>3 DEF IsBuild
<1> HIDE DEF n
<1>5. 0 \in 0..n /\ n \in 0..n /\ (\A k \in 1..n : k \in 0..n /\ k # 0)
        /\ \A k \in 0..n : k = 0 \/ k \in 1..n
  BY <1>1
<1>6. eq(sol)
  <2>1. \A k \in 0..n : g[k] = IF k = 0 THEN d ELSE WithNamedEdge(g[k - 1], edges[k])
    BY <1>4, <1>5
  <2>2. eq(g)
    BY <1>3, <2>1
  <2> HIDE DEF eq
  <2> QED
    BY <2>2
<1> HIDE DEF sol
<1>7. sol[0] = d /\ \A k \in 1..n : sol[k] = WithNamedEdge(sol[k - 1], edges[k])
  <2> DEFINE body(k) == IF k = 0 THEN d ELSE WithNamedEdge(sol[k - 1], edges[k])
  <2>1. sol = [k \in 0..n |-> body(k)]
    BY <1>6
  <2> HIDE DEF body
  <2>2. \A k \in 0..n : sol[k] = body(k)
    BY <2>1
  <2> QED
    BY <1>5, <2>2 DEF body
<1>8. sol[n] = g[n]
  <2>1. InStep(n, sol, g)
    BY <1>4, <1>7 DEF InStep
  <2> QED
    BY <1>1, <1>5, <2>1, RecursionIsUnique
<1> QED
  BY <1>2, <1>3, <1>8 DEF n

(* A graph with the first k nodes of d, and without edges.                 *)
Bare(d, k) ==
  [names    |-> [i \in 1..k |-> d.names[i]],
   children |-> [i \in 1..k |-> << >>],
   parents  |-> [i \in 1..k |-> << >>]]

(* WithNodes gives the nodes their old ids.                                *)
LEMMA NodesAreAdded ==
  ASSUME NEW d, WellFormed(d)
  PROVE  /\ IsDagStruct(WithNodes(d.names))
         /\ WithNodes(d.names).names = d.names
         /\ \A i \in NodesOf(d) : WithNodes(d.names).children[i] = << >>
         /\ NamedEdges(WithNodes(d.names)) = {}
<1> DEFINE n == Len(d.names)
           eq(f) == f = [k \in 0..n |-> IF k = 0 THEN EmptyDag ELSE WithNode(f[k - 1], d.names[k])]
           sol == CHOOSE f : eq(f)
           g == [k \in 0..n |-> Bare(d, k)]
<1>1. /\ n \in Nat /\ NodesOf(d) = 1..n /\ d.names = [i \in 1..n |-> d.names[i]]
      /\ \A i \in 1..n : d.names[i] \in Name
      /\ \A i, j \in 1..n : d.names[i] = d.names[j] => i = j
  <2>1. n \in Nat /\ NodesOf(d) = 1..n /\ d.names \in [1..n -> Name]
    BY Nodes, SeqsAreFunctions DEF WellFormed
  <2>2. IsInjectiveSeq(d.names)
    BY DEF WellFormed
  <2> QED
    BY <2>1, <2>2 DEF IsInjectiveSeq
<1>2. WithNodes(d.names) = sol[n]
  BY DEF WithNodes
<1> HIDE DEF n
<1>3. Bare(d, 0) = EmptyDag
  <2>1. /\ [i \in 1..0 |-> d.names[i]] = << >>
        /\ [i \in 1..0 |-> << >>] = << >>
    OBVIOUS
  <2> QED
    BY <2>1 DEF Bare, EmptyDag
<1>4. ASSUME NEW k \in 1..n
      PROVE  WithNode(Bare(d, k - 1), d.names[k]) = Bare(d, k)
  <2> DEFINE x == [i \in 1..(k - 1) |-> d.names[i]]
             y == [i \in 1..(k - 1) |-> << >>]
  <2>1. k - 1 \in Nat /\ \A i \in 1..(k - 1) : i \in 1..n /\ i # k
    BY <1>1
  <2>2. x \in Seq(Name) /\ Len(x) = k - 1
    <3>1. x \in [1..(k - 1) -> Name]
      BY <1>1, <2>1
    <3> HIDE DEF x
    <3> QED
      BY <2>1, <3>1, FunctionsAreSeqs
  <2>3. y \in Seq({<< >>}) /\ Len(y) = k - 1
    <3>1. y \in [1..(k - 1) -> {<< >>}]
      OBVIOUS
    <3> HIDE DEF y
    <3> QED
      BY <2>1, <3>1, FunctionsAreSeqs
  <2>4. d.names[k] \notin Elems(x)
    BY <1>1, <2>1, <2>2 DEF Elems
  <2>5. Append(x, d.names[k]) = [i \in 1..k |-> d.names[i]]
    <3>1. /\ Append(x, d.names[k]) \in Seq(Name) /\ Len(Append(x, d.names[k])) = k
          /\ Append(x, d.names[k])[k] = d.names[k]
          /\ \A i \in 1..(k - 1) : Append(x, d.names[k])[i] = x[i]
      <4> HIDE DEF x
      <4>1. d.names[k] \in Name /\ (k - 1) + 1 = k
        BY <1>1, <2>1
      <4> QED
        BY <2>1, <2>2, <4>1, AppendElems
    <3> DEFINE r == Append(x, d.names[k])
    <3>2. \A i \in 1..k : r[i] = d.names[i]
      <4>1. \A i \in 1..k : i = k \/ i \in 1..(k - 1)
        BY <2>1
      <4> QED
        BY <3>1, <4>1
    <3>3. r \in Seq(Name) /\ Len(r) = k
      BY <3>1
    <3> HIDE DEF r
    <3>4. r \in [1..k -> Name]
      BY <3>3, SeqsAreFunctions
    <3>5. r = [i \in 1..k |-> d.names[i]]
      BY <3>2, <3>4
    <3> QED
      BY <3>5 DEF r
  <2>6. Append(y, << >>) = [i \in 1..k |-> << >>]
    <3> DEFINE V == {<< >>}
               z == << >>
               r == Append(y, z)
    <3>1. z \in V /\ \A v \in V : v = z
      OBVIOUS
    <3>2. r \in Seq(V) /\ Len(r) = k
      <4> HIDE DEF y, V, z
      <4>1. (k - 1) + 1 = k
        BY <2>1
      <4> QED
        BY <2>3, <3>1, <4>1, AppendElems DEF V, z
    <3> HIDE DEF r, V, z
    <3>3. r \in [1..k -> V]
      BY <3>2, SeqsAreFunctions
    <3>4. r = [i \in 1..k |-> z]
      BY <3>1, <3>3
    <3> QED
      BY <3>4 DEF r, z
  <2> DEFINE b == Bare(d, k - 1)
  <2>7. b.names = x /\ b.children = y /\ b.parents = y
    BY DEF Bare
  <2> HIDE DEF x, y, b
  <2>8. WithNode(b, d.names[k]) =
          [names    |-> Append(b.names, d.names[k]),
           children |-> Append(b.children, << >>),
           parents  |-> Append(b.parents, << >>)]
    BY <2>4, <2>7 DEF WithNode
  <2>9. WithNode(b, d.names[k]) = Bare(d, k)
    BY <2>5, <2>6, <2>7, <2>8 DEF Bare
  <2> QED
    BY <2>9 DEF b
<1>5. 0 \in 0..n /\ n \in 0..n /\ (\A k \in 1..n : k \in 0..n /\ k # 0 /\ k - 1 \in 0..n)
      /\ \A k \in 0..n : k = 0 \/ k \in 1..n
  BY <1>1
<1>6. eq(g)
  <2>1. \A k \in 0..n : g[k] = IF k = 0 THEN EmptyDag ELSE WithNode(g[k - 1], d.names[k])
    BY <1>3, <1>4, <1>5
  <2>2. g = [k \in 0..n |-> g[k]]
    OBVIOUS
  <2> HIDE DEF g
  <2> QED
    BY <2>1, <2>2
<1>7. eq(sol)
  <2> HIDE DEF eq, g
  <2> QED
    BY <1>6
<1> HIDE DEF sol
<1>8. sol[n] = Bare(d, n)
  <2> DEFINE body(k) == IF k = 0 THEN EmptyDag ELSE WithNode(sol[k - 1], d.names[k])
  <2>1. sol = [k \in 0..n |-> body(k)]
    BY <1>7
  <2> HIDE DEF body
  <2>2. \A k \in 0..n : sol[k] = body(k)
    BY <2>1
  <2>3. InStep(n, sol, g)
    <3>1. g[0] = EmptyDag /\ \A k \in 1..n : g[k] = WithNode(g[k - 1], d.names[k])
      BY <1>3, <1>4, <1>5
    <3> HIDE DEF g
    <3> QED
      BY <1>5, <2>2, <3>1 DEF body, InStep
  <2>4. sol[n] = g[n]
    <3> HIDE DEF g
    <3> QED
      BY <1>1, <1>5, <2>3, RecursionIsUnique
  <2> QED
    BY <1>5, <2>4
<1> DEFINE b == Bare(d, n)
<1>9. /\ b = [names |-> b.names, children |-> b.children, parents |-> b.parents]
      /\ b.names = d.names /\ b.children = [i \in 1..n |-> << >>]
           /\ b.parents = [i \in 1..n |-> << >>]
  BY <1>1 DEF Bare
<1> HIDE DEF b
<1>10. NodesOf(b) = 1..n
  BY <1>1, <1>9 DEF NodesOf
<1>11. Elems(<< >>) = {} /\ IsInjectiveSeq(<< >>)
  BY DEF Elems, IsInjectiveSeq
<1>12. WellFormed(b)
  BY <1>9, <1>10 DEF WellFormed
<1>13. Mirrored(b)
  BY <1>9, <1>10, <1>11 DEF Mirrored
<1>14. IsDagStruct(b)
  BY <1>12, <1>13 DEF IsDagStruct
<1>15. NamedEdges(b) = {}
  <2> SUFFICES ASSUME NEW e \in NamedEdges(b)
               PROVE  FALSE
    OBVIOUS
  <2>1. PICK p, c \in NodesOf(b) : e = <<b.names[p], b.names[c]>> /\ c \in Elems(b.children[p])
    BY <1>14, NamedEdgesAre
  <2> QED
    BY <1>9, <1>10, <1>11, <2>1
<1> QED
  BY <1>1, <1>2, <1>8, <1>9, <1>14, <1>15 DEF b

(* The edges of d, laid out, may be added to any graph without edges.      *)
LEMMA ListedEdges ==
  ASSUME NEW d, IsDagStruct(d)
  PROVE  \E off :
           /\ IsLaidOut(d, EdgeList(d), off)
           /\ EdgeList(d) \in Seq(Name \X Name) /\ IsInjectiveSeq(EdgeList(d))
           /\ Elems(EdgeList(d)) = NamedEdges(d)
           /\ \A k \in 1..Len(EdgeList(d)) : EdgeList(d)[k][1] # EdgeList(d)[k][2]
<1>1. PICK off : IsLaidOut(d, EdgeList(d), off)
  BY EdgesAreLaidOut DEF IsDagStruct
<1>2. Elems(EdgeList(d)) = NamedEdges(d) /\ IsInjectiveSeq(EdgeList(d))
  BY <1>1, EachEdgeOnce
<1>3. EdgeList(d) \in Seq(Name \X Name)
  BY <1>1 DEF IsLaidOut
<1>4. \A k \in 1..Len(EdgeList(d)) : EdgeList(d)[k] \in NamedEdges(d)
  BY <1>2 DEF Elems
<1>5. \A k \in 1..Len(EdgeList(d)) : EdgeList(d)[k][1] # EdgeList(d)[k][2]
  BY <1>4, NamedEdgesAre
<1> QED
  BY <1>1, <1>2, <1>3, <1>5

(* What from_edges makes of the edges of a graph.                          *)
LEMMA ReadFromEdges ==
  ASSUME NEW d, IsDagStruct(d)
  PROVE  /\ IsDagStruct(FromEdges(d))
         /\ NamedEdges(FromEdges(d)) = NamedEdges(d)
         /\ Elems(FromEdges(d).names) = UNION {{e[1], e[2]} : e \in NamedEdges(d)}
<1> DEFINE edges == EdgeList(d)
           n == Len(edges)
           x == FromEdges(d)
<1>1. /\ edges \in Seq(Name \X Name) /\ IsInjectiveSeq(edges) /\ Elems(edges) = NamedEdges(d)
      /\ \A k \in 1..Len(edges) : edges[k][1] # edges[k][2]
  BY ListedEdges
<1>2. x = WithEdges(EmptyDag, edges)
  BY DEF FromEdges
<1> HIDE DEF x, edges
<1>3. IsDagStruct(EmptyDag) /\ Elems(EmptyDag.names) = {} /\ NamedEdges(EmptyDag) = {}
  <2>1. IsDagStruct(EmptyDag) /\ NodesOf(EmptyDag) = {} /\ EmptyDag.names = << >>
    BY EmptyIsDag
  <2>2. NamedEdges(EmptyDag) = {}
    BY <2>1, NamedEdgesAre
  <2>3. Elems(<< >>) = {}
    BY DEF Elems
  <2> QED
    BY <2>1, <2>2, <2>3
<1>4. PICK g : IsBuild(EmptyDag, edges, g) /\ x = g[Len(edges)]
  BY <1>1, <1>2, <1>3, EdgesAreAdded
<1>5. n \in Nat /\ n \in 0..n
  BY <1>1
<1>6. IsDagStruct(x) /\ NamedEdges(x) = Prefix(edges, n) /\ Elems(x.names) = EndsOf(edges, n)
  <2>1. HasFirstEdges(EmptyDag, edges, n, x)
    BY <1>4, <1>5 DEF IsBuild
  <2> QED
    BY <1>3, <2>1 DEF HasFirstEdges
<1>7. Prefix(edges, n) = NamedEdges(d)
  BY <1>1 DEF Prefix, Elems
<1>8. EndsOf(edges, n) = UNION {{e[1], e[2]} : e \in NamedEdges(d)}
  <2>1. NamedEdges(d) = {edges[k] : k \in 1..n}
    BY <1>1 DEF Elems
  <2>2. ASSUME NEW v \in EndsOf(edges, n)
        PROVE  \E e \in NamedEdges(d) : v \in {e[1], e[2]}
    <3>1. PICK k \in 1..n : v = edges[k][1] \/ v = edges[k][2]
      BY DEF EndsOf
    <3> QED
      BY <2>1, <3>1
  <2>3. ASSUME NEW e \in NamedEdges(d)
        PROVE  {e[1], e[2]} \subseteq EndsOf(edges, n)
    <3>1. PICK k \in 1..n : e = edges[k]
      BY <2>1
    <3> QED
      BY <3>1 DEF EndsOf
  <2> QED
    BY <2>2, <2>3
<1> QED
  BY <1>6, <1>7, <1>8 DEF x

(* How many children of a node have been read when k edges have been.      *)
ReadOf(d, off, i, k) ==
  IF k <= off[i - 1] THEN 0 ELSE IF k <= off[i] THEN k - off[i - 1] ELSE Len(d.children[i])

(* x is the graph when k edges have been read.                             *)
HasReadUpTo(d, off, k, x) ==
  /\ WellFormed(x) /\ x.names = d.names
  /\ \A i \in NodesOf(d) :
       /\ Len(x.children[i]) = ReadOf(d, off, i, k)
       /\ \A m \in 1..ReadOf(d, off, i, k) : x.children[i][m] = d.children[i][m]

(* The next edge is the next child of the node whose turn it is.           *)
LEMMA NextChildRead ==
  ASSUME NEW d, IsDagStruct(d), NEW edges, NEW off, IsLaidOut(d, edges, off),
         NEW k \in 1..Len(edges), NEW x, HasReadUpTo(d, off, k - 1, x),
         WellFormed(WithNamedEdge(x, edges[k]))
  PROVE  HasReadUpTo(d, off, k, WithNamedEdge(x, edges[k]))
<1> DEFINE V == NodesOf(d)
           C(i) == d.children[i]
           y == WithNamedEdge(x, edges[k])
           read(i, j) == ReadOf(d, off, i, j)
<1>1. \A i \in V : C(i) \in Seq(V) /\ Len(C(i)) \in Nat
  BY DEF IsDagStruct, WellFormed
<1>2. /\ \A i \in V : off[i - 1] \in Nat /\ off[i] = off[i - 1] + Len(C(i)) /\ off[i] <= Len(edges)
                      /\ Len(C(i)) \in Nat
      /\ \A i, j \in V : i < j => off[i] <= off[j - 1]
      /\ \E i \in V : off[i - 1] < k /\ k <= off[i] /\ k - off[i - 1] \in 1..Len(C(i))
  <2>1. WellFormed(d)
    BY DEF IsDagStruct
  <2>2. \A i \in V : off[i - 1] \in Nat /\ off[i] = off[i - 1] + Len(C(i)) /\ Len(C(i)) \in Nat
    BY <2>1, PlacesInEdges
  <2>3. \A i \in V : off[i] <= Len(edges)
    BY <2>1, PlacesInEdges
  <2>4. \A i, j \in V : i < j => off[i] <= off[j - 1]
    BY <2>1, PlacesInEdges
  <2>5. \E i \in V : off[i - 1] < k /\ k <= off[i] /\ k - off[i - 1] \in 1..Len(C(i))
    BY <2>1, PlacesInEdges
  <2> QED
    BY <2>2, <2>3, <2>4, <2>5
<1>3. V = 1..Len(d.names) /\ Len(d.names) \in Nat
  BY Nodes DEF IsDagStruct
<1>4. \A i \in V : \A m \in 1..Len(C(i)) : edges[off[i - 1] + m] = <<d.names[i], d.names[C(i)[m]]>>
  BY DEF IsLaidOut
<1>5. PICK i \in V : off[i - 1] < k /\ k <= off[i] /\ k - off[i - 1] \in 1..Len(C(i))
  BY <1>2
<1>16. ASSUME NEW a \in V
       PROVE  /\ off[a - 1] \in Nat /\ Len(C(a)) \in Nat
              /\ off[a] \in Nat /\ off[a] = off[a - 1] + Len(C(a))
  <2>1. off[a - 1] \in Nat /\ Len(C(a)) \in Nat /\ off[a] = off[a - 1] + Len(C(a))
    BY <1>2
  <2> QED
    BY <2>1
<1> DEFINE m == k - off[i - 1]
           c == C(i)[m]
<1>6. m \in 1..Len(C(i)) /\ off[i - 1] + m = k /\ k \in Nat /\ m \in Nat /\ 1 <= m
  <2>1. off[i - 1] \in Nat /\ k \in Nat
    BY <1>16
  <2> QED
    BY <1>5, <2>1
<1>7. c \in V /\ edges[k] = <<d.names[i], d.names[c]>>
  <2> HIDE DEF m
  <2>1. c \in V
    BY <1>1, <1>6
  <2>2. edges[off[i - 1] + m] = <<d.names[i], d.names[c]>>
    BY <1>4, <1>6
  <2> QED
    BY <1>6, <2>1, <2>2
<1>8. NodesOf(x) = V /\ x.names = d.names /\ WellFormed(x)
  BY DEF HasReadUpTo, NodesOf
<1> HIDE DEF c, V
<1>9. y = WithEdge(x, i, c)
  <2>1. edges[k] = <<x.names[i], x.names[c]>>
    BY <1>7, <1>8
  <2>2. WithNamedEdge(x, <<x.names[i], x.names[c]>>) = WithEdge(x, i, c)
    BY <1>7, <1>8, EdgeOfKnownNodes
  <2> QED
    BY <2>1, <2>2
<1>10. x.children \in [V -> Seq(V)]
  BY <1>8 DEF WellFormed
<1>11. /\ y.names = d.names
       /\ y.children[i] = Append(x.children[i], c)
       /\ \A a \in V \ {i} : y.children[a] = x.children[a]
  BY <1>8, <1>9, <1>10 DEF WithEdge
<1> HIDE DEF y, m
<1>12. read(i, k - 1) = m - 1 /\ read(i, k) = m
  <2>1. off[i - 1] \in Nat /\ off[i] \in Nat /\ off[i - 1] < k /\ k <= off[i] /\ off[i - 1] + m = k
        /\ k \in Nat /\ m \in Nat
    BY <1>16, <1>5, <1>6
  <2>2. read(i, k) = m
    <3>1. ~(k <= off[i - 1]) /\ k <= off[i] /\ k - off[i - 1] = m
      BY <2>1
    <3> QED
      BY <3>1 DEF ReadOf
  <2>3. read(i, k - 1) = m - 1
    <3>1. (k - 1 <= off[i - 1] => m - 1 = 0) /\ k - 1 <= off[i] /\ (k - 1) - off[i - 1] = m - 1
      BY <2>1
    <3> QED
      BY <3>1 DEF ReadOf
  <2> QED
    BY <2>2, <2>3
<1>13. ASSUME NEW a \in V, a # i
       PROVE  read(a, k - 1) = read(a, k)
  <2>1. /\ off[i - 1] \in Nat /\ off[i] \in Nat /\ off[i - 1] < k /\ k <= off[i] /\ k \in Nat
        /\ off[a - 1] \in Nat /\ off[a] = off[a - 1] + Len(C(a)) /\ Len(C(a)) \in Nat
    BY <1>16, <1>5, <1>6
  <2>2. a < i \/ i < a
    BY <1>3, <1>13
  <2>3. CASE a < i
    <3>1. off[a] <= off[i - 1]
      BY <1>2, <2>3
    <3>2. ~(k <= off[a - 1]) /\ ~(k <= off[a])
      BY <2>1, <3>1
    <3>3. (k - 1 <= off[a - 1] => Len(C(a)) = 0)
            /\ (k - 1 <= off[a] => (k - 1) - off[a - 1] = Len(C(a)))
      BY <2>1, <3>1
    <3> QED
      BY <3>2, <3>3 DEF ReadOf
  <2>4. CASE i < a
    <3>1. off[i] <= off[a - 1]
      BY <1>2, <2>4
    <3>2. k <= off[a - 1] /\ k - 1 <= off[a - 1]
      BY <2>1, <3>1
    <3> QED
      BY <3>2 DEF ReadOf
  <2> QED
    BY <2>2, <2>3, <2>4
<1> HIDE DEF read
<1>14. \A a \in V : /\ Len(x.children[a]) = read(a, k - 1)
                    /\ \A b \in 1..read(a, k - 1) : x.children[a][b] = C(a)[b]
  BY DEF HasReadUpTo, V, read
<1>15. ASSUME NEW a \in V
       PROVE  /\ Len(y.children[a]) = read(a, k)
              /\ \A b \in 1..read(a, k) : y.children[a][b] = C(a)[b]
  <2>1. CASE a # i
    BY <1>11, <1>13, <1>14, <2>1
  <2>2. CASE a = i
    <3> DEFINE s == x.children[i]
    <3>1. s \in Seq(V) /\ Len(s) = m - 1 /\ (m - 1) + 1 = m /\ m \in Nat
            /\ \A b \in 1..m : b = m \/ b \in 1..(m - 1)
      <4>1. s \in Seq(V)
        BY <1>10
      <4>2. Len(s) = m - 1
        BY <1>12, <1>14
      <4>3. (m - 1) + 1 = m /\ m \in Nat /\ \A b \in 1..m : b = m \/ b \in 1..(m - 1)
        BY <1>6
      <4> QED
        BY <4>1, <4>2, <4>3
    <3>2. \A b \in 1..(m - 1) : s[b] = C(i)[b]
      BY <1>12, <1>14
    <3> HIDE DEF s
    <3>3. /\ Len(Append(s, c)) = m /\ Append(s, c)[m] = c
          /\ \A b \in 1..(m - 1) : Append(s, c)[b] = s[b]
      BY <1>7, <3>1, AppendElems
    <3>4. c = C(i)[m]
      BY DEF c
    <3>5. y.children[a] = Append(s, c) /\ read(a, k) = m
      BY <1>11, <1>12, <2>2 DEF s
    <3> QED
      BY <2>2, <3>1, <3>2, <3>3, <3>4, <3>5
  <2> QED
    BY <2>1, <2>2
<1> QED
  BY <1>11, <1>15 DEF HasReadUpTo, V, read, y

(* Every graph on the way has read the children in order.                  *)
LEMMA ReadInOrder ==
  ASSUME NEW d, IsDagStruct(d), NEW edges, NEW off, IsLaidOut(d, edges, off),
         NEW g, IsBuild(WithNodes(d.names), edges, g)
  PROVE  \A k \in 0..Len(edges) : HasReadUpTo(d, off, k, g[k])
<1> DEFINE n == Len(edges)
           Bad == {k \in 0..n : ~HasReadUpTo(d, off, k, g[k])}
<1>1. n \in Nat
  BY DEF IsLaidOut
<1>2. HasReadUpTo(d, off, 0, g[0])
  <2> DEFINE x == WithNodes(d.names)
  <2>1. /\ IsDagStruct(x) /\ x.names = d.names /\ \A i \in NodesOf(d) : x.children[i] = << >>
    BY NodesAreAdded DEF IsDagStruct
  <2> HIDE DEF x
  <2>2. g[0] = x
    BY DEF IsBuild, x
  <2>3. ASSUME NEW i \in NodesOf(d)
        PROVE  ReadOf(d, off, i, 0) = 0
    <3>1. off[i - 1] \in Nat
      BY PlacesInEdges DEF IsDagStruct
    <3> QED
      BY <3>1 DEF ReadOf
  <2> QED
    BY <2>1, <2>2, <2>3 DEF HasReadUpTo, IsDagStruct
<1> SUFFICES ASSUME Bad # {}
             PROVE  FALSE
  OBVIOUS
<1>3. PICK k \in Bad : \A x \in Bad : k <= x
  <2>1. Bad \in SUBSET Nat
    BY <1>1
  <2> HIDE DEF Bad
  <2> QED
    BY <2>1, MinOfNaturals
<1>4. k \in 1..n /\ k - 1 \in 0..n /\ k - 1 \notin Bad /\ k \in 0..n
  <2>1. k \in 0..n /\ k # 0
    BY <1>2, <1>3
  <2>2. k \in 1..n /\ k - 1 \in 0..n /\ ~(k <= k - 1)
    BY <1>1, <2>1
  <2> HIDE DEF Bad
  <2> QED
    BY <1>3, <2>1, <2>2
<1>5. g[k] = WithNamedEdge(g[k - 1], edges[k]) /\ WellFormed(g[k])
  BY <1>4 DEF IsBuild, HasFirstEdges, IsDagStruct
<1>6. HasReadUpTo(d, off, k - 1, g[k - 1])
  BY <1>4
<1>7. HasReadUpTo(d, off, k, g[k])
  <2>1. k \in 1..Len(edges) /\ WellFormed(WithNamedEdge(g[k - 1], edges[k]))
    BY <1>4, <1>5
  <2>2. HasReadUpTo(d, off, k, WithNamedEdge(g[k - 1], edges[k]))
    BY <1>6, <2>1, NextChildRead
  <2> QED
    BY <1>5, <2>2
<1> QED
  BY <1>3, <1>7

(* What from_json makes of a graph written by to_json.                     *)
LEMMA ReadFromJson ==
  ASSUME NEW d, IsDagStruct(d)
  PROVE  /\ IsDagStruct(FromJson(d))
         /\ NamedEdges(FromJson(d)) = NamedEdges(d)
         /\ FromJson(d).names = d.names /\ FromJson(d).children = d.children
<1> DEFINE edges == EdgeList(d)
           n == Len(edges)
           b == WithNodes(d.names)
           x == FromJson(d)
<1>1. PICK off :
        /\ IsLaidOut(d, edges, off)
        /\ edges \in Seq(Name \X Name) /\ IsInjectiveSeq(edges) /\ Elems(edges) = NamedEdges(d)
        /\ \A k \in 1..Len(edges) : edges[k][1] # edges[k][2]
  BY ListedEdges
<1>2. x = WithEdges(b, edges)
  BY DEF FromJson
<1> HIDE DEF x, edges
<1>3. IsDagStruct(b) /\ NamedEdges(b) = {}
  BY NodesAreAdded DEF IsDagStruct
<1>4. PICK g : IsBuild(b, edges, g) /\ x = g[Len(edges)]
  <2> HIDE DEF b
  <2> QED
    BY <1>1, <1>2, <1>3, EdgesAreAdded
<1>5. n \in Nat /\ n \in 0..n
  BY <1>1
<1>6. IsDagStruct(x) /\ NamedEdges(x) = Prefix(edges, n)
  BY <1>4, <1>5 DEF IsBuild, HasFirstEdges
<1>7. Prefix(edges, n) = NamedEdges(d)
  BY <1>1 DEF Prefix, Elems
<1>8. HasReadUpTo(d, off, n, x)
  BY <1>1, <1>4, <1>5, ReadInOrder
<1>9. x.names = d.names /\ NodesOf(x) = NodesOf(d)
  BY <1>8 DEF HasReadUpTo, NodesOf
<1>10. /\ x.children \in [NodesOf(d) -> Seq(NodesOf(d))]
       /\ d.children \in [NodesOf(d) -> Seq(NodesOf(d))]
  BY <1>6, <1>9 DEF IsDagStruct, WellFormed
<1>11. ASSUME NEW i \in NodesOf(d)
       PROVE  x.children[i] = d.children[i]
  <2>1. off[i - 1] \in Nat /\ off[i] = off[i - 1] + Len(d.children[i]) /\ Len(d.children[i]) \in Nat
    BY <1>1, PlacesInEdges DEF IsDagStruct
  <2>2. off[i] <= n
    BY <1>1, PlacesInEdges DEF IsDagStruct
  <2>3. ReadOf(d, off, i, n) = Len(d.children[i])
    <3>1. (n <= off[i - 1] => Len(d.children[i]) = 0)
            /\ (n <= off[i] => n - off[i - 1] = Len(d.children[i]))
      BY <1>5, <2>1, <2>2
    <3> QED
      BY <3>1 DEF ReadOf
  <2> DEFINE s == x.children[i]
             t == d.children[i]
             V == NodesOf(d)
  <2>4. s \in Seq(V) /\ t \in Seq(V)
    BY <1>10
  <2>5. Len(s) = Len(t) /\ \A m \in 1..Len(t) : s[m] = t[m]
    BY <1>8, <2>3 DEF HasReadUpTo
  <2> HIDE DEF s, t, V
  <2>6. s \in [1..Len(t) -> V] /\ t \in [1..Len(t) -> V]
    BY <2>4, <2>5, SeqsAreFunctions
  <2>7. s = t
    BY <2>5, <2>6
  <2> QED
    BY <2>7 DEF s, t
<1>12. x.children = d.children
  BY <1>10, <1>11
<1> QED
  BY <1>6, <1>7, <1>9, <1>12 DEF x

------------------------------------------------------------------------------
(* The inductive invariant: the graph under construction is a Dag.         *)
IsSound == IsDagStruct(dag)

(* Every operation keeps it one.                                           *)
LEMMA SoundNext ==
  ASSUME IsSound, [Next]_vars
  PROVE  IsSound'
<1> USE DEF IsSound
<1> SUFFICES IsDagStruct(dag')
  OBVIOUS
<1>1. CASE UNCHANGED dag
  BY <1>1
<1>2. ASSUME NEW name \in Name, AddNode(name)
      PROVE  IsDagStruct(dag')
  BY <1>2, NodeAdded DEF AddNode
<1>3. ASSUME NEW d, IsDagStruct(d), NEW source, NEW sink, TryEdge(d, source, sink)
      PROVE  IsDagStruct(dag')
  <2>1. CASE Refusal(d, source, sink) # "none"
    BY <1>3, <2>1 DEF TryEdge
  <2>2. CASE Refusal(d, source, sink) = "none"
    <3>1. source # sink /\ source \in NodesOf(d) /\ sink \in NodesOf(d)
            /\ sink \notin Elems(d.children[source])
      BY <2>2 DEF Refusal
    <3>2. dag' = WithEdge(d, source, sink)
      BY <1>3, <2>2 DEF TryEdge
    <3> QED
      BY <1>3, <3>1, <3>2, EdgeAdded
  <2> QED
    BY <2>1, <2>2
<1>4. ASSUME NEW source, NEW sink, AddEdge(source, sink)
      PROVE  IsDagStruct(dag')
  BY <1>3, <1>4 DEF AddEdge
<1>5. ASSUME NEW source \in Name, NEW sink \in Name, AddEdgeByName(source, sink)
      PROVE  IsDagStruct(dag')
  <2> DEFINE d == WithNode(WithNode(dag, source), sink)
  <2>1. IsDagStruct(d)
    <3>1. IsDagStruct(WithNode(dag, source))
      BY NodeAdded
    <3> QED
      BY <3>1, NodeAdded
  <2>2. TryEdge(d, IdOf(d, source), IdOf(d, sink))
    BY <1>5 DEF AddEdgeByName
  <2> HIDE DEF d
  <2> QED
    BY <1>3, <2>1, <2>2
<1>6. ASSUME NEW keep, Induce(keep)
      PROVE  IsDagStruct(dag')
  BY <1>6, InducedIsDag DEF Induce
<1>7. CASE ReadBack(FromEdges(dag)) \/ ReadBack(FromJson(dag))
  <2>1. dag' = FromEdges(dag) \/ dag' = FromJson(dag)
    BY <1>7 DEF ReadBack
  <2> QED
    BY <2>1, ReadFromEdges, ReadFromJson
<1>8. ASSUME NEW for, StartWalk(for)
      PROVE  UNCHANGED dag
  BY <1>8 DEF StartWalk
<1>9. CASE Visit \/ EndWalk \/ StartLayers \/ TakeLayer \/ EndLayers
  BY <1>1, <1>9 DEF Visit, EndWalk, StartLayers, TakeLayer, EndLayers
<1>10. CASE UNCHANGED vars
  BY <1>1, <1>10 DEF vars
<1>11. CASE Next
  BY <1>1, <1>2, <1>4, <1>5, <1>6, <1>7, <1>8, <1>9, <1>11 DEF Next
<1> QED
  BY <1>10, <1>11

(* The graph is one in every state.                                        *)
LEMMA AlwaysSound == Spec => []IsSound
<1>1. Init => IsSound
  BY EmptyIsDag DEF Init, IsSound
<1>2. IsSound /\ [Next]_vars => IsSound'
  BY SoundNext
<1> QED
  BY <1>1, <1>2, PTL DEF Spec

(* The half of the crate that reads `children` and the half that reads     *)
(* `parents` always see the same edges: however many nodes and edges, and  *)
(* by whatever calls of add_node, add_edge, induced_subgraph, from_edges   *)
(* and from_json the graph came about.                                     *)
THEOREM ListsAlwaysMirror == Spec => []ListsMirror
<1>1. IsSound => ListsMirror
  BY DEF IsSound, IsDagStruct, Mirrored, ListsMirror
<1> QED
  BY <1>1, AlwaysSound, PTL

(* A subgraph has the names of the kept nodes in the old order, and the    *)
(* edges between them.                                                     *)
LEMMA InducedKeepsEdges ==
  ASSUME NEW d, IsDagStruct(d), NEW keep \in SUBSET NodesOf(d),
         NEW g, g = InducedSubgraph(d, keep)
  PROVE  LET inside == {d.names[i] : i \in keep}
         IN  /\ Elems(g.names) = inside
             /\ \A j, k \in NodesOf(g) : j < k => IdOf(d, g.names[j]) < IdOf(d, g.names[k])
             /\ NamedEdges(g) = {e \in NamedEdges(d) : e[1] \in inside /\ e[2] \in inside}
<1> DEFINE kept == Ascending(keep)
           M == DOMAIN kept
           inside == {d.names[i] : i \in keep}
<1>1. /\ IsDagStruct(g) /\ IsCutTo(d, kept, g)
      /\ kept \in Seq(keep) /\ Elems(kept) = keep
      /\ \A j, k \in M : j < k => kept[j] < kept[k]
  BY InducedIsDag
<1> HIDE DEF kept
<1>2. /\ M = NodesOf(g) /\ M = 1..Len(kept) /\ M = 1..Len(g.names) /\ \A k \in M : kept[k] \in keep
      /\ \A i \in keep : \E k \in M : kept[k] = i
      /\ \A k \in M : g.names[k] = d.names[kept[k]]
      /\ \A i, j \in M : j \in Elems(g.children[i]) <=> kept[j] \in Elems(d.children[kept[i]])
  <2>1. M = NodesOf(g) /\ (\A k \in M : g.names[k] = d.names[kept[k]])
        /\ \A i, j \in M : j \in Elems(g.children[i]) <=> kept[j] \in Elems(d.children[kept[i]])
    BY <1>1 DEF IsCutTo
  <2>2. M = 1..Len(kept) /\ \A k \in M : kept[k] \in keep
    BY <1>1
  <2>3. \A i \in keep : \E k \in M : kept[k] = i
    BY <1>1, <2>2 DEF Elems
  <2>4. NodesOf(g) = 1..Len(g.names)
    BY <1>1, Nodes DEF IsDagStruct
  <2> QED
    BY <2>1, <2>2, <2>3, <2>4
<1> HIDE DEF M
<1>3. /\ \A i \in NodesOf(d) : IdOf(d, d.names[i]) = i
      /\ \A i, j \in NodesOf(d) : d.names[i] = d.names[j] => i = j
  BY IdIsPlace DEF IsDagStruct
<1>4. Elems(g.names) = inside
  <2>1. \A i \in M : g.names[i] \in inside
    BY <1>2
  <2>2. ASSUME NEW v \in inside
        PROVE  \E k \in M : g.names[k] = v
    BY <1>2
  <2>3. Elems(g.names) = {g.names[k] : k \in M}
    BY <1>2 DEF Elems
  <2> HIDE DEF inside
  <2> QED
    BY <2>1, <2>2, <2>3
<1>5. \A j, k \in M : j < k => IdOf(d, g.names[j]) < IdOf(d, g.names[k])
  <2>1. \A k \in M : kept[k] \in NodesOf(d)
    BY <1>2
  <2>2. \A k \in M : IdOf(d, g.names[k]) = kept[k]
    BY <1>2, <1>3, <2>1
  <2> QED
    BY <1>1, <2>2 DEF M
<1>6. \A i \in NodesOf(d) : d.names[i] \in inside => \E k \in M : kept[k] = i
  <2> SUFFICES ASSUME NEW i \in NodesOf(d), d.names[i] \in inside
               PROVE  \E k \in M : kept[k] = i
    OBVIOUS
  <2>1. PICK j \in keep : d.names[i] = d.names[j]
    OBVIOUS
  <2>2. i = j
    BY <1>3, <2>1
  <2> QED
    BY <1>2, <2>2
<1>7. ASSUME NEW e \in NamedEdges(g)
      PROVE  e \in NamedEdges(d) /\ e[1] \in inside /\ e[2] \in inside
  <2>1. PICK p, c \in M : e = <<g.names[p], g.names[c]>> /\ c \in Elems(g.children[p])
    <3>1. \E p, c \in NodesOf(g) : e = <<g.names[p], g.names[c]>> /\ c \in Elems(g.children[p])
      BY <1>1, NamedEdgesAre
    <3> QED
      BY <1>2, <3>1
  <2>2. /\ e = <<d.names[kept[p]], d.names[kept[c]]>> /\ kept[c] \in Elems(d.children[kept[p]])
        /\ kept[p] \in keep /\ kept[c] \in keep
    BY <1>2, <2>1
  <2>3. kept[p] \in NodesOf(d) /\ kept[c] \in NodesOf(d)
    BY <2>2
  <2>4. e \in NamedEdges(d)
    BY <2>2, <2>3, NamedEdgesAre
  <2> QED
    BY <2>2, <2>4
<1>8. ASSUME NEW e \in NamedEdges(d), e[1] \in inside, e[2] \in inside
      PROVE  e \in NamedEdges(g)
  <2>1. PICK p, c \in NodesOf(d) : e = <<d.names[p], d.names[c]>> /\ c \in Elems(d.children[p])
    BY NamedEdgesAre
  <2> HIDE DEF inside
  <2>2. PICK i \in M : kept[i] = p
    BY <1>6, <1>8, <2>1
  <2>3. PICK j \in M : kept[j] = c
    BY <1>6, <1>8, <2>1
  <2>4. e = <<g.names[i], g.names[j]>> /\ j \in Elems(g.children[i])
    BY <1>2, <2>1, <2>2, <2>3
  <2> QED
    BY <1>1, <1>2, <2>4, NamedEdgesAre
<1>9. NamedEdges(g) = {e \in NamedEdges(d) : e[1] \in inside /\ e[2] \in inside}
  <2> HIDE DEF inside
  <2> QED
    BY <1>7, <1>8
<1> QED
  BY <1>2, <1>4, <1>5, <1>9

(* Nodes are numbered anew when a graph is cut down, or written out and    *)
(* read back; by name, a copy always has the edges it should have.         *)
THEOREM CopiesAlwaysKeepEdges == Spec => CopiesKeepEdges
<1>1. IsSound => SubgraphKeepsEdges
  <2> SUFFICES ASSUME IsDagStruct(dag), NEW keep \in SUBSET NodesOf(dag), Induce(keep)
               PROVE  LET inside == {dag.names[i] : i \in keep}
                      IN  /\ Elems(dag'.names) = inside
                          /\ \A j, k \in NodesOf(dag') :
                               j < k => IdOf(dag, dag'.names[j]) < IdOf(dag, dag'.names[k])
                          /\ NamedEdges(dag') = {e \in NamedEdges(dag) : e[1] \in inside
                               /\ e[2] \in inside}
    BY DEF IsSound, SubgraphKeepsEdges
  <2>1. dag' = InducedSubgraph(dag, keep)
    BY DEF Induce
  <2> QED
    BY <2>1, InducedKeepsEdges
<1>2. IsSound => EdgesAreReadBack
  BY ReadFromEdges DEF IsSound, EdgesAreReadBack, ReadBack
<1>3. IsSound => JsonIsReadBack
  BY ReadFromJson DEF IsSound, JsonIsReadBack, ReadBack
<1> QED
  BY <1>1, <1>2, <1>3, AlwaysSound, PTL DEF Spec, CopiesKeepEdges

------------------------------------------------------------------------------
(* The in-degree walk                                                      *)

(* An order of the whole graph shows it acyclic.                           *)
LEMMA OrderedIsAcyclic ==
  ASSUME NEW pa, NEW s \in Seq(DOMAIN pa), IsTopologicalOrder(pa, s)
  PROVE  Acyclic(pa)
<1> SUFFICES ASSUME NEW S \in SUBSET DOMAIN pa, S # {}
             PROVE  \E i \in S : pa[i] \cap S = {}
  BY DEF Acyclic
<1> DEFINE K == {k \in 1..Len(s) : s[k] \in S}
<1>1. Len(s) \in Nat /\ Elems(s) = DOMAIN pa
        /\ \A k \in 1..Len(s) : pa[s[k]] \subseteq Prefix(s, k - 1)
  BY DEF IsTopologicalOrder
<1>2. K # {} /\ K \in SUBSET Nat
  BY <1>1 DEF Elems
<1>3. PICK k \in K : \A x \in K : k <= x
  <2> HIDE DEF K
  <2> QED
    BY <1>2, MinOfNaturals
<1>4. \A j \in 1..(k - 1) : j \in 1..Len(s) /\ ~(k <= j)
  BY <1>1, <1>3
<1>5. \A j \in 1..(k - 1) : s[j] \notin S
  BY <1>3, <1>4
<1>6. pa[s[k]] \cap S = {}
  BY <1>1, <1>3, <1>5 DEF Prefix
<1> QED
  BY <1>3, <1>6

(* The elements of two lists put together.                                 *)
LEMMA ConcatElems ==
  ASSUME NEW V, NEW s \in Seq(V), NEW t \in Seq(V)
  PROVE  /\ s \o t \in Seq(V) /\ Elems(s \o t) = Elems(s) \cup Elems(t)
         /\ IsInjectiveSeq(s) /\ IsInjectiveSeq(t) /\ Elems(s) \cap Elems(t) = {}
              => IsInjectiveSeq(s \o t)
<1> DEFINE r == s \o t
           m == Len(s)
           n == Len(t)
<1>1. /\ m \in Nat /\ n \in Nat /\ r \in Seq(V) /\ Len(r) = m + n
      /\ \A k \in 1..m : r[k] = s[k]
      /\ \A k \in 1..n : r[m + k] = t[k]
  BY ConcatProperties
<1> HIDE DEF r
<1>2. \A k \in 1..(m + n) : k \in 1..m \/ (k - m \in 1..n /\ m + (k - m) = k)
  BY <1>1
<1>3. /\ \A k \in 1..m : k \in 1..(m + n)
      /\ \A k \in 1..n : m + k \in 1..(m + n)
  BY <1>1
<1>4. \A k \in 1..(m + n) : (k \in 1..m /\ r[k] = s[k]) \/ (k - m \in 1..n /\ r[k] = t[k - m])
  <2> SUFFICES ASSUME NEW k \in 1..(m + n), k - m \in 1..n, m + (k - m) = k
               PROVE  r[k] = t[k - m]
    BY <1>1, <1>2
  <2>1. r[m + (k - m)] = t[k - m]
    BY <1>1
  <2> QED
    BY <2>1
<1>5. Elems(r) = Elems(s) \cup Elems(t)
  <2>1. ASSUME NEW x \in Elems(r)
        PROVE  x \in Elems(s) \cup Elems(t)
    <3>1. PICK k \in 1..(m + n) : x = r[k]
      BY <1>1 DEF Elems
    <3> QED
      BY <1>4, <3>1 DEF Elems
  <2>2. ASSUME NEW x \in Elems(s) \cup Elems(t)
        PROVE  x \in Elems(r)
    <3>1. CASE x \in Elems(s)
      <4>1. PICK k \in 1..m : x = s[k]
        BY <3>1 DEF Elems
      <4> QED
        BY <1>1, <1>3, <4>1 DEF Elems
    <3>2. CASE x \in Elems(t)
      <4>1. PICK k \in 1..n : x = t[k]
        BY <3>2 DEF Elems
      <4>2. r[m + k] = x /\ m + k \in 1..Len(r)
        BY <1>1, <1>3, <4>1
      <4> QED
        BY <4>2 DEF Elems
    <3> QED
      BY <2>2, <3>1, <3>2
  <2> QED
    BY <2>1, <2>2
<1>6. ASSUME IsInjectiveSeq(s), IsInjectiveSeq(t), Elems(s) \cap Elems(t) = {}
      PROVE  IsInjectiveSeq(r)
  <2> SUFFICES ASSUME NEW j \in 1..(m + n), NEW k \in 1..(m + n), r[j] = r[k]
               PROVE  j = k
    BY <1>1 DEF IsInjectiveSeq
  <2>1. ~(j \in 1..m /\ r[j] = s[j] /\ k - m \in 1..n /\ r[k] = t[k - m])
    BY <1>6 DEF Elems
  <2>2. ~(k \in 1..m /\ r[k] = s[k] /\ j - m \in 1..n /\ r[j] = t[j - m])
    BY <1>6 DEF Elems
  <2>3. CASE j \in 1..m /\ r[j] = s[j] /\ k \in 1..m /\ r[k] = s[k]
    BY <1>6, <2>3 DEF IsInjectiveSeq
  <2>4. CASE j - m \in 1..n /\ r[j] = t[j - m] /\ k - m \in 1..n /\ r[k] = t[k - m]
    <3>1. j - m = k - m
      BY <1>6, <2>4 DEF IsInjectiveSeq
    <3> QED
      BY <1>1, <3>1
  <2> QED
    BY <1>4, <2>1, <2>2, <2>3, <2>4
<1> QED
  BY <1>1, <1>5, <1>6 DEF r

(* Of the nodes, p have been popped and q are queued; deg counts the       *)
(* parents not popped.                                                     *)
IsWalk(d, deg, q, p) ==
  /\ p \in Seq(NodesOf(d)) /\ IsInjectiveSeq(p)
  /\ \A k \in 1..Len(p) : ParentsOf(d)[p[k]] \subseteq Prefix(p, k - 1)
  /\ deg = [i \in NodesOf(d) |-> Cardinality(ParentsOf(d)[i] \ Elems(p))]
  /\ q \in Seq(NodesOf(d)) /\ IsInjectiveSeq(q)
  /\ Elems(q) = Ready(ParentsOf(d), Elems(p))

(* The parents are finitely many nodes; the degrees count them.            *)
LEMMA ParentsAre ==
  ASSUME NEW d, IsDagStruct(d)
  PROVE  /\ ParentsOf(d) \in ParentMaps(NodesOf(d)) /\ DOMAIN ParentsOf(d) = NodesOf(d)
         /\ NodesOf(d) \in SUBSET Nat /\ IsFiniteSet(NodesOf(d))
              /\ Cardinality(NodesOf(d)) = Len(d.names)
         /\ \A i \in NodesOf(d) :
              /\ IsFiniteSet(ParentsOf(d)[i]) /\ i \notin ParentsOf(d)[i]
              /\ InDegrees(d)[i] = Cardinality(ParentsOf(d)[i])
              /\ \A c \in NodesOf(d) : i \in ParentsOf(d)[c] <=> c \in Elems(d.children[i])
<1> DEFINE V == NodesOf(d)
           pa == ParentsOf(d)
<1>1. V = 1..Len(d.names) /\ Len(d.names) \in Nat /\ d.parents \in [V -> Seq(V)]
  BY Nodes DEF IsDagStruct, WellFormed
<1>2. IsFiniteSet(V) /\ Cardinality(V) = Len(d.names) /\ V \in SUBSET Nat
  <2> DEFINE n == Len(d.names)
  <2>1. n \in Nat /\ V = 1..n
    BY <1>1
  <2> HIDE DEF n, V
  <2>2. IsFiniteSet(1..n) /\ Cardinality(1..n) = n
    BY <2>1, FS_Interval
  <2> QED
    BY <2>1, <2>2 DEF n
<1>3. pa = [i \in V |-> Elems(d.parents[i])]
  BY DEF ParentsOf
<1>4. InDegrees(d) = [i \in V |-> Len(d.parents[i])]
  BY DEF InDegrees
<1> HIDE DEF V, pa
<1>5. ASSUME NEW i \in V
      PROVE  Elems(d.parents[i]) \in SUBSET V /\ IsFiniteSet(pa[i])
               /\ InDegrees(d)[i] = Cardinality(pa[i])
  <2>1. d.parents[i] \in Seq(V) /\ IsInjectiveSeq(d.parents[i])
    BY <1>1 DEF IsDagStruct, Mirrored, V
  <2>2. Elems(d.parents[i]) \subseteq V /\ IsFiniteSet(Elems(d.parents[i]))
        /\ Cardinality(Elems(d.parents[i])) = Len(d.parents[i])
    BY <2>1, ElemsOfSeq, InjectiveSeqCardinality
  <2> QED
    BY <1>3, <1>4, <2>2
<1>6. pa \in ParentMaps(V) /\ DOMAIN pa = V
  BY <1>3, <1>5 DEF ParentMaps
<1>7. \A i \in V : i \notin pa[i] /\ \A c \in V : i \in pa[c] <=> c \in Elems(d.children[i])
  BY <1>3 DEF IsDagStruct, Mirrored, V
<1> QED
  BY <1>2, <1>5, <1>6, <1>7 DEF V, pa

(* The nodes without parents begin.                                        *)
LEMMA WalkBegins ==
  ASSUME NEW d, IsDagStruct(d)
  PROVE  IsWalk(d, InDegrees(d), Ascending({i \in NodesOf(d) : InDegrees(d)[i] = 0}), << >>)
<1> DEFINE V == NodesOf(d)
           pa == ParentsOf(d)
           R == {i \in V : InDegrees(d)[i] = 0}
<1>1. /\ pa \in ParentMaps(V) /\ DOMAIN pa = V /\ V \in SUBSET Nat /\ IsFiniteSet(V)
      /\ \A i \in V : IsFiniteSet(pa[i]) /\ InDegrees(d)[i] = Cardinality(pa[i])
  BY ParentsAre
<1>2. InDegrees(d) = [i \in V |-> InDegrees(d)[i]]
  BY DEF InDegrees
<1> HIDE DEF V, pa
<1>3. R \in SUBSET V /\ R \in SUBSET Nat /\ IsFiniteSet(R)
  BY <1>1, FS_Subset
<1>4. R = {i \in V : pa[i] = {}}
  BY <1>1, FS_EmptySet
<1> HIDE DEF R
<1>5. Ascending(R) \in Seq(R) /\ Elems(Ascending(R)) = R /\ IsInjectiveSeq(Ascending(R))
  BY <1>3, AscendingSeq
<1>6. Elems(<< >>) = {} /\ IsInjectiveSeq(<< >>)
  BY DEF Elems, IsInjectiveSeq
<1>7. Ascending(R) \in Seq(V)
  <2> DEFINE s == Ascending(R)
  <2>1. s \in [1..Len(s) -> R] /\ Len(s) \in Nat
    BY <1>5, SeqsAreFunctions
  <2> HIDE DEF s
  <2>2. s \in [1..Len(s) -> V]
    BY <1>3, <2>1
  <2>3. s \in Seq(V)
    BY <2>1, <2>2, FunctionsAreSeqs
  <2> QED
    BY <2>3 DEF s
<1>8. R = Ready(pa, {})
  BY <1>1, <1>4 DEF Ready
<1>9. InDegrees(d) = [i \in V |-> Cardinality(pa[i] \ {})]
  BY <1>1, <1>2
<1>10. << >> \in Seq(V) /\ \A k \in 1..Len(<< >>) : pa[<< >>[k]] \subseteq Prefix(<< >>, k - 1)
  OBVIOUS
<1>11. IsWalk(d, InDegrees(d), Ascending(R), << >>)
  BY <1>5, <1>6, <1>7, <1>8, <1>9, <1>10 DEF IsWalk, V, pa
<1> QED
  BY <1>11 DEF R, V

(* One visit: a queued node is popped, and those of its children follow    *)
(* whose parents have now all been popped.                                 *)
IsVisit(d, deg, q, p, node, deg2, q2, p2) ==
  /\ deg2 = [i \in DOMAIN deg |-> deg[i] - IF i \in Elems(d.children[node]) THEN 1 ELSE 0]
  /\ q2 = Selected(q, NodesOf(d) \ {node})
            \o Selected(d.children[node], {c \in NodesOf(d) : deg2[c] = 0})
  /\ p2 = Append(p, node)

(* It keeps what is known of the walk.                                     *)
LEMMA WalkGoesOn ==
  ASSUME NEW d, IsDagStruct(d), NEW deg, NEW q, NEW p, IsWalk(d, deg, q, p), NEW node \in Elems(q),
         NEW deg2, NEW q2, NEW p2, IsVisit(d, deg, q, p, node, deg2, q2, p2)
  PROVE  IsWalk(d, deg2, q2, p2)
<1> DEFINE V == NodesOf(d)
           pa == ParentsOf(d)
           P == Elems(p)
           P2 == P \cup {node}
           free == {c \in V : deg2[c] = 0}
           old == Selected(q, V \ {node})
           new == Selected(d.children[node], free)
<1>1. /\ pa \in ParentMaps(V) /\ DOMAIN pa = V
      /\ \A i \in V : /\ IsFiniteSet(pa[i]) /\ i \notin pa[i]
                      /\ \A c \in V : i \in pa[c] <=> c \in Elems(d.children[i])
  BY ParentsAre
<1>2. /\ p \in Seq(V) /\ IsInjectiveSeq(p)
      /\ \A k \in 1..Len(p) : pa[p[k]] \subseteq Prefix(p, k - 1)
      /\ deg = [i \in V |-> Cardinality(pa[i] \ P)]
      /\ q \in Seq(V) /\ IsInjectiveSeq(q) /\ Elems(q) = Ready(pa, P)
  BY DEF IsWalk
<1>3. d.children \in [V -> Seq(V)] /\ \A i \in V : IsInjectiveSeq(d.children[i])
  BY DEF IsDagStruct, WellFormed, Mirrored
<1>0. /\ deg2 = [i \in DOMAIN deg |-> deg[i] - IF i \in Elems(d.children[node]) THEN 1 ELSE 0]
      /\ q2 = old \o new /\ p2 = Append(p, node)
  BY DEF IsVisit
<1> HIDE DEF V, pa, P
<1>4. node \in V /\ node \notin P /\ pa[node] \subseteq P /\ node \in Ready(pa, P)
  BY <1>1, <1>2 DEF Ready
<1>5. /\ Append(p, node) \in Seq(V) /\ IsInjectiveSeq(Append(p, node))
           /\ Elems(Append(p, node)) = P2
      /\ Len(Append(p, node)) = Len(p) + 1 /\ Append(p, node)[Len(p) + 1] = node
      /\ \A k \in 1..Len(p) : Append(p, node)[k] = p[k]
  BY <1>2, <1>4, AppendElems DEF P
<1>6. Len(p) \in Nat /\ \A k \in 1..(Len(p) + 1) : k = Len(p) + 1 \/ k \in 1..Len(p)
  BY <1>2
<1>7. ASSUME NEW k \in 1..(Len(p) + 1)
      PROVE  pa[Append(p, node)[k]] \subseteq Prefix(Append(p, node), k - 1)
  <2>1. \A j \in 1..(k - 1) : j \in 1..Len(p)
    BY <1>6
  <2>2. Prefix(Append(p, node), k - 1) = Prefix(p, k - 1)
    BY <1>5, <2>1 DEF Prefix
  <2>3. CASE k = Len(p) + 1
    <3>1. (Len(p) + 1) - 1 = Len(p)
      BY <1>6
    <3>2. Prefix(p, k - 1) = P
      BY <2>3, <3>1 DEF Prefix, P, Elems
    <3> QED
      BY <1>4, <1>5, <2>2, <2>3, <3>2
  <2>4. CASE k \in 1..Len(p)
    BY <1>2, <1>5, <2>2, <2>4
  <2> QED
    BY <1>6, <2>3, <2>4
<1>8. deg2 = [i \in V |-> Cardinality(pa[i] \ P2)]
  <2>1. deg2 = [i \in V |-> deg[i] - IF i \in Elems(d.children[node]) THEN 1 ELSE 0]
    BY <1>0, <1>2
  <2>2. ASSUME NEW i \in V
        PROVE  deg[i] - (IF i \in Elems(d.children[node]) THEN 1 ELSE 0) = Cardinality(pa[i] \ P2)
    <3>1. deg[i] = Cardinality(pa[i] \ P) /\ IsFiniteSet(pa[i] \ P)
            /\ Cardinality(pa[i] \ P) \in Nat
      BY <1>1, <1>2, FS_Subset, FS_CardinalityType
    <3>2. CASE node \in pa[i]
      <4>1. node \in pa[i] \ P /\ pa[i] \ P2 = (pa[i] \ P) \ {node}
        BY <1>4, <3>2
      <4>2. Cardinality((pa[i] \ P) \ {node}) = Cardinality(pa[i] \ P) - 1
        BY <3>1, <4>1, FS_RemoveElement
      <4> QED
        BY <1>1, <1>4, <3>1, <3>2, <4>1, <4>2
    <3>3. CASE node \notin pa[i]
      <4>1. pa[i] \ P2 = pa[i] \ P /\ i \notin Elems(d.children[node])
        BY <1>1, <1>4, <3>3
      <4> HIDE DEF P2
      <4>2. Cardinality(pa[i] \ P2) = Cardinality(pa[i] \ P)
        BY <4>1
      <4> QED
        BY <3>1, <4>1, <4>2
    <3> QED
      BY <3>2, <3>3
  <2> QED
    BY <2>1, <2>2
<1>9. free = {c \in V : pa[c] \subseteq P2}
  <2>1. ASSUME NEW c \in V
        PROVE  deg2[c] = 0 <=> pa[c] \subseteq P2
    <3>1. deg2[c] = Cardinality(pa[c] \ P2) /\ IsFiniteSet(pa[c] \ P2)
      BY <1>1, <1>8, FS_Subset
    <3>2. deg2[c] = 0 <=> pa[c] \ P2 = {}
      BY <3>1, FS_EmptySet
    <3> QED
      BY <3>2
  <2> QED
    BY <2>1
<1> HIDE DEF free
<1>10. /\ old \in Seq(V) /\ Elems(old) = Ready(pa, P) \ {node} /\ IsInjectiveSeq(old)
  <2>1. old \in Seq(V) /\ Elems(old) = Elems(q) \cap (V \ {node}) /\ IsInjectiveSeq(old)
    BY <1>2, SelectedElems
  <2>2. Ready(pa, P) \subseteq V
    BY <1>1 DEF Ready
  <2> QED
    BY <1>2, <2>1, <2>2
<1>11. /\ new \in Seq(V) /\ IsInjectiveSeq(new)
       /\ Elems(new) = {c \in V : node \in pa[c] /\ pa[c] \subseteq P2}
  <2>1. d.children[node] \in Seq(V) /\ IsInjectiveSeq(d.children[node])
    BY <1>3, <1>4
  <2>2. new \in Seq(V) /\ Elems(new) = Elems(d.children[node]) \cap free /\ IsInjectiveSeq(new)
    BY <2>1, SelectedElems
  <2> QED
    BY <1>1, <1>4, <1>9, <2>2
<1> HIDE DEF old, new
<1>12. Elems(old) \cap Elems(new) = {}
  BY <1>4, <1>10, <1>11 DEF Ready
<1>13. \A c \in P : pa[c] \subseteq P
  <2> SUFFICES ASSUME NEW k \in 1..Len(p)
               PROVE  pa[p[k]] \subseteq P
    BY DEF P, Elems
  <2>1. \A j \in 1..(k - 1) : j \in 1..Len(p)
    BY <1>6
  <2>2. Prefix(p, k - 1) \subseteq P
    BY <2>1 DEF Prefix, P, Elems
  <2> QED
    BY <1>2, <2>2
<1>14. Elems(old) \cup Elems(new) = Ready(pa, P2)
  <2>1. ASSUME NEW i \in Ready(pa, P2)
        PROVE  i \in Elems(old) \cup Elems(new)
    BY <1>1, <1>10, <1>11 DEF Ready
  <2>2. ASSUME NEW i \in Elems(old)
        PROVE  i \in Ready(pa, P2)
    BY <1>10 DEF Ready
  <2>3. ASSUME NEW i \in Elems(new)
        PROVE  i \in Ready(pa, P2)
    BY <1>1, <1>4, <1>11, <1>13 DEF Ready
  <2> QED
    BY <2>1, <2>2, <2>3
<1>15. /\ old \o new \in Seq(V) /\ Elems(old \o new) = Ready(pa, P2) /\ IsInjectiveSeq(old \o new)
  BY <1>10, <1>11, <1>12, <1>14, ConcatElems
<1>16. /\ p2 \in Seq(V) /\ IsInjectiveSeq(p2) /\ Elems(p2) = P2
       /\ \A k \in 1..Len(p2) : pa[p2[k]] \subseteq Prefix(p2, k - 1)
  BY <1>0, <1>5, <1>7
<1>17. q2 \in Seq(V) /\ Elems(q2) = Ready(pa, P2) /\ IsInjectiveSeq(q2)
  BY <1>0, <1>15
<1> QED
  BY <1>8, <1>16, <1>17 DEF IsWalk, V, pa

(* When nothing is queued any more, the walk has been everywhere exactly   *)
(* if the graph is acyclic.                                                *)
LEMMA WalkEnds ==
  ASSUME NEW d, IsDagStruct(d), NEW deg, NEW p, IsWalk(d, deg, << >>, p)
  PROVE  /\ Len(p) = Len(d.names) <=> Acyclic(ParentsOf(d))
         /\ Len(p) = Len(d.names) => IsTopologicalOrder(ParentsOf(d), p)
<1> DEFINE V == NodesOf(d)
           pa == ParentsOf(d)
           P == Elems(p)
<1>1. DOMAIN pa = V /\ IsFiniteSet(V) /\ Cardinality(V) = Len(d.names)
  BY ParentsAre
<1>2. /\ p \in Seq(V) /\ IsInjectiveSeq(p) /\ Ready(pa, P) = {}
      /\ \A k \in 1..Len(p) : pa[p[k]] \subseteq Prefix(p, k - 1)
  BY DEF IsWalk, Elems
<1> HIDE DEF V, pa
<1>3. P \subseteq V /\ Cardinality(P) = Len(p)
  BY <1>2, ElemsOfSeq, InjectiveSeqCardinality
<1>4. Len(p) = Len(d.names) <=> P = V
  BY <1>1, <1>3, FS_Subset
<1>5. P = V => IsTopologicalOrder(pa, p)
  BY <1>1, <1>2 DEF IsTopologicalOrder
<1>6. P = V => Acyclic(pa)
  BY <1>1, <1>2, <1>5, OrderedIsAcyclic
<1>7. ASSUME Acyclic(pa), P # V
      PROVE  FALSE
  <2> HIDE DEF P
  <2>1. V \ P \in SUBSET DOMAIN pa /\ V \ P # {}
    BY <1>1, <1>3, <1>7
  <2>2. PICK i \in V \ P : pa[i] \cap (V \ P) = {}
    BY <1>7, <2>1 DEF Acyclic
  <2>3. pa[i] \subseteq V
    BY <1>1, ParentsAre DEF ParentMaps, V, pa
  <2>4. i \in Ready(pa, P)
    BY <1>1, <2>2, <2>3 DEF Ready
  <2> QED
    BY <1>2, <2>4
<1> QED
  BY <1>4, <1>5, <1>6, <1>7 DEF pa

------------------------------------------------------------------------------
(* The walk by layers                                                      *)

(* Deep is a recursion: the nodes of depth k have a parent of depth k - 1. *)
LEMMA DeepSteps ==
  ASSUME NEW pa, IsFiniteSet(DOMAIN pa)
  PROVE  /\ Cardinality(DOMAIN pa) \in Nat
         /\ Deep(pa)[0] = DOMAIN pa
         /\ \A k \in 1..Cardinality(DOMAIN pa) : Deep(pa)[k] = WithParentIn(pa, Deep(pa)[k - 1])
<1> DEFINE n == Cardinality(DOMAIN pa)
           V == SUBSET DOMAIN pa
           step == [k \in 1..n |-> [x \in V |-> WithParentIn(pa, x)]]
           eq(f) == f = [k \in 0..n |-> IF k = 0 THEN DOMAIN pa ELSE WithParentIn(pa, f[k - 1])]
           sol == CHOOSE f : eq(f)
<1>1. n \in Nat
  BY FS_CardinalityType
<1>2. \A x \in V : WithParentIn(pa, x) \in V
  BY DEF WithParentIn
<1>3. Deep(pa) = sol
  BY DEF Deep
<1>4. DOMAIN pa \in V
  OBVIOUS
<1> HIDE DEF n, V
<1>5. IsStep(n, V, step)
  BY <1>2 DEF IsStep
<1>6. PICK g : Follows(n, V, DOMAIN pa, step, g)
  <2> HIDE DEF step
  <2> QED
    BY <1>1, <1>4, <1>5, RecursionExists
<1>7. 0 \in 0..n /\ (\A k \in 1..n : k \in 0..n /\ k # 0 /\ k - 1 \in 0..n)
        /\ \A k \in 0..n : k = 0 \/ k \in 1..n
  BY <1>1
<1>8. /\ g \in [0..n -> V] /\ g[0] = DOMAIN pa
      /\ \A k \in 1..n : g[k] = WithParentIn(pa, g[k - 1])
  <2>1. /\ g \in [0..n -> V] /\ g[0] = DOMAIN pa
        /\ \A k \in 1..n : g[k] = step[k][g[k - 1]]
    BY <1>6 DEF Follows
  <2>2. \A k \in 1..n : g[k - 1] \in V
    BY <1>7, <2>1
  <2> QED
    BY <2>1, <2>2
<1>9. eq(sol)
  <2>1. \A k \in 0..n : g[k] = IF k = 0 THEN DOMAIN pa ELSE WithParentIn(pa, g[k - 1])
    BY <1>7, <1>8
  <2>2. eq(g)
    BY <1>8, <2>1
  <2> HIDE DEF eq
  <2> QED
    BY <2>2
<1> HIDE DEF sol
<1>10. sol[0] = DOMAIN pa /\ \A k \in 1..n : sol[k] = WithParentIn(pa, sol[k - 1])
  <2> DEFINE body(k) == IF k = 0 THEN DOMAIN pa ELSE WithParentIn(pa, sol[k - 1])
  <2>1. sol = [k \in 0..n |-> body(k)]
    BY <1>9
  <2> HIDE DEF body
  <2>2. \A k \in 0..n : sol[k] = body(k)
    BY <2>1
  <2> QED
    BY <1>7, <2>2 DEF body
<1> QED
  BY <1>1, <1>3, <1>10 DEF n

(* The deeper, the fewer; and once no node is lost, none is later.         *)
LEMMA DeeperIsLess ==
  ASSUME NEW pa, IsFiniteSet(DOMAIN pa)
  PROVE  /\ \A k \in 1..Cardinality(DOMAIN pa) : Deep(pa)[k] \subseteq Deep(pa)[k - 1]
         /\ \A k \in 0..Cardinality(DOMAIN pa) : Deep(pa)[k] \subseteq DOMAIN pa
         /\ \A k \in 1..Cardinality(DOMAIN pa) :
              Deep(pa)[k - 1] \subseteq Deep(pa)[k]
                => Deep(pa)[Cardinality(DOMAIN pa)] = Deep(pa)[k - 1]
<1> DEFINE n == Cardinality(DOMAIN pa)
           deep == Deep(pa)
<1>1. /\ n \in Nat /\ deep[0] = DOMAIN pa
      /\ \A k \in 1..n : deep[k] = WithParentIn(pa, deep[k - 1])
  BY DeepSteps
<1> HIDE DEF n, deep
<1>2. \A X, Y \in SUBSET DOMAIN pa : X \subseteq Y
        => WithParentIn(pa, X) \subseteq WithParentIn(pa, Y)
  BY DEF WithParentIn
<1>3. \A k \in 1..n : k - 1 \in 0..n /\ k \in 0..n /\ (k = 1 \/ k - 1 \in 1..n)
  BY <1>1
<1>4. \A k \in 0..n : deep[k] \subseteq DOMAIN pa
  <2> SUFFICES ASSUME NEW k \in 0..n
               PROVE  deep[k] \subseteq DOMAIN pa
    OBVIOUS
  <2>1. k = 0 \/ k \in 1..n
    BY <1>1
  <2> QED
    BY <1>1, <2>1 DEF WithParentIn
<1>5. \A k \in 1..n : deep[k] \subseteq deep[k - 1]
  <2> DEFINE Bad == {k \in 1..n : ~(deep[k] \subseteq deep[k - 1])}
  <2> SUFFICES ASSUME Bad # {}
               PROVE  FALSE
    OBVIOUS
  <2>1. PICK k \in Bad : \A x \in Bad : k <= x
    <3>1. Bad \in SUBSET Nat
      OBVIOUS
    <3> HIDE DEF Bad
    <3> QED
      BY <3>1, MinOfNaturals
  <2>2. k \in 1..n /\ ~(deep[k] \subseteq deep[k - 1]) /\ k \in Nat
    OBVIOUS
  <2>3. CASE k = 1
    <3>1. 1 - 1 = 0 /\ 1 \in 0..n /\ deep[1] \subseteq DOMAIN pa
      BY <1>4, <2>2, <2>3
    <3> QED
      BY <1>1, <2>2, <2>3, <3>1
  <2>4. CASE k # 1
    <3>1. k - 1 \in 1..n /\ ~(k <= k - 1) /\ (k - 1) - 1 \in 0..n /\ k - 1 \in 0..n
      BY <1>1, <2>2, <2>4
    <3>2. deep[k - 1] \subseteq deep[(k - 1) - 1]
      BY <2>1, <3>1
    <3>3. deep[k - 1] \in SUBSET DOMAIN pa /\ deep[(k - 1) - 1] \in SUBSET DOMAIN pa
      BY <1>4, <3>1
    <3>4. deep[k] = WithParentIn(pa, deep[k - 1])
            /\ deep[k - 1] = WithParentIn(pa, deep[(k - 1) - 1])
      BY <1>1, <2>2, <3>1
    <3>5. deep[k] \subseteq deep[k - 1]
      BY <1>2, <3>2, <3>3, <3>4
    <3> QED
      BY <2>2, <3>5
  <2> QED
    BY <2>3, <2>4
<1>6. ASSUME NEW k \in 1..n, deep[k - 1] \subseteq deep[k]
      PROVE  deep[n] = deep[k - 1]
  <2> DEFINE Bad == {j \in k..n : deep[j] # deep[k - 1]}
  <2>1. deep[k] = deep[k - 1]
    BY <1>5, <1>6
  <2>2. Bad = {}
    <3> SUFFICES ASSUME Bad # {}
                 PROVE  FALSE
      OBVIOUS
    <3>1. PICK j \in Bad : \A x \in Bad : j <= x
      <4>1. Bad \in SUBSET Nat
        BY <1>1
      <4> HIDE DEF Bad
      <4> QED
        BY <4>1, MinOfNaturals
    <3>2. j \in k..n /\ j # k /\ deep[j] # deep[k - 1]
      BY <2>1
    <3>3. j \in 1..n /\ j - 1 \in k..n /\ ~(j <= j - 1)
      BY <1>1, <3>2
    <3>4. deep[j - 1] = deep[k - 1]
      BY <3>1, <3>3
    <3>5. deep[j] = deep[k]
      BY <1>1, <3>3, <3>4
    <3> QED
      BY <2>1, <3>2, <3>5
  <2>3. n \in k..n
    BY <1>1
  <2> QED
    BY <2>2, <2>3
<1> QED
  BY <1>4, <1>5, <1>6 DEF n, deep

(* The layers ls have been taken off; deg counts the parents in none.      *)
IsPeeled(d, deg, ls) ==
  /\ ls \in Seq(SUBSET NodesOf(d))
  /\ \A k \in 1..Len(ls) : ls[k] = Deep(ParentsOf(d))[k - 1] \ Deep(ParentsOf(d))[k]
  /\ UNION Elems(ls) = NodesOf(d) \ Deep(ParentsOf(d))[Len(ls)]
  /\ Len(ls) <= Cardinality(UNION Elems(ls))
  /\ deg = [i \in NodesOf(d) |-> Cardinality(ParentsOf(d)[i] \ UNION Elems(ls))]

(* The nodes that come off next.                                           *)
NextLayer(d, deg, ls) ==
  {i \in NodesOf(d) : deg[i] = 0 /\ \A k \in DOMAIN ls : i \notin ls[k]}

(* They are those of the remaining depth that have no parent in it.        *)
LEMMA NextLayerIs ==
  ASSUME NEW d, IsDagStruct(d), NEW deg, NEW ls, IsPeeled(d, deg, ls)
  PROVE  /\ NextLayer(d, deg, ls) =
              Deep(ParentsOf(d))[Len(ls)] \ WithParentIn(ParentsOf(d), Deep(ParentsOf(d))[Len(ls)])
         /\ Len(ls) \in 0..Cardinality(NodesOf(d))
<1> DEFINE V == NodesOf(d)
           pa == ParentsOf(d)
           U == UNION Elems(ls)
           m == Len(ls)
           D == Deep(pa)[m]
<1>1. /\ DOMAIN pa = V /\ IsFiniteSet(V) /\ \A i \in V : pa[i] \in SUBSET V /\ IsFiniteSet(pa[i])
  BY ParentsAre DEF ParentMaps
<1>2. /\ ls \in Seq(SUBSET V) /\ U = V \ D /\ m <= Cardinality(U)
      /\ deg = [i \in V |-> Cardinality(pa[i] \ U)]
  BY DEF IsPeeled
<1>3. m \in Nat /\ DOMAIN ls = 1..m
  BY <1>2
<1> HIDE DEF V, pa
<1>4. m \in 0..Cardinality(V)
  <2> HIDE DEF m, U
  <2>1. U \subseteq V
    BY <1>2
  <2>2. Cardinality(U) <= Cardinality(V) /\ Cardinality(U) \in Nat /\ Cardinality(V) \in Nat
    BY <1>1, <2>1, FS_Subset, FS_CardinalityType
  <2> QED
    BY <1>2, <1>3, <2>2
<1>5. D \subseteq V
  <2> HIDE DEF m
  <2> QED
    BY <1>1, <1>4, DeeperIsLess
<1>6. ASSUME NEW i \in V
      PROVE  (\A k \in DOMAIN ls : i \notin ls[k]) <=> i \notin U
  <2>1. U = UNION {ls[k] : k \in 1..m}
    BY DEF Elems
  <2> HIDE DEF U, m
  <2> QED
    BY <1>3, <2>1
<1>7. ASSUME NEW i \in V
      PROVE  deg[i] = 0 <=> pa[i] \subseteq U
  <2> HIDE DEF U
  <2>1. deg[i] = Cardinality(pa[i] \ U) /\ IsFiniteSet(pa[i] \ U)
    BY <1>1, <1>2, FS_Subset
  <2>2. deg[i] = 0 <=> pa[i] \ U = {}
    BY <2>1, FS_EmptySet
  <2> QED
    BY <2>2
<1> HIDE DEF U, D, m
<1>8. NextLayer(d, deg, ls) = {i \in V : pa[i] \subseteq U /\ i \notin U}
  BY <1>6, <1>7 DEF NextLayer, V
<1>9. \A i \in V : (pa[i] \subseteq U <=> pa[i] \cap D = {}) /\ (i \notin U <=> i \in D)
  BY <1>1, <1>2, <1>5
<1>10. NextLayer(d, deg, ls) = D \ WithParentIn(pa, D)
  BY <1>1, <1>5, <1>8, <1>9 DEF WithParentIn
<1> QED
  BY <1>4, <1>10 DEF V, pa, D, m

(* At first there is no layer.                                             *)
LEMMA PeelBegins ==
  ASSUME NEW d, IsDagStruct(d)
  PROVE  IsPeeled(d, InDegrees(d), << >>)
<1> DEFINE V == NodesOf(d)
           pa == ParentsOf(d)
<1>1. DOMAIN pa = V /\ IsFiniteSet(V) /\ \A i \in V : InDegrees(d)[i] = Cardinality(pa[i])
  BY ParentsAre
<1>2. InDegrees(d) = [i \in V |-> InDegrees(d)[i]]
  BY DEF InDegrees
<1>3. Deep(pa)[0] = V
  BY <1>1, DeepSteps
<1> HIDE DEF V, pa
<1>4. UNION Elems(<< >>) = {}
  BY DEF Elems
<1>5. Cardinality({}) = 0
  BY FS_EmptySet
<1>6. InDegrees(d) = [i \in V |-> Cardinality(pa[i] \ {})]
  BY <1>1, <1>2
<1>7. << >> \in Seq(SUBSET V) /\ Len(<< >>) = 0
  OBVIOUS
<1>8. \A k \in 1..Len(<< >>) : << >>[k] = Deep(pa)[k - 1] \ Deep(pa)[k]
  OBVIOUS
<1> DEFINE ls == << >>
<1>9. /\ ls \in Seq(SUBSET V) /\ Len(ls) = 0 /\ UNION Elems(ls) = {}
      /\ \A k \in 1..Len(ls) : ls[k] = Deep(pa)[k - 1] \ Deep(pa)[k]
  BY <1>4, <1>7, <1>8
<1> HIDE DEF ls
<1>10. UNION Elems(ls) = V \ Deep(pa)[Len(ls)] /\ Len(ls) <= Cardinality(UNION Elems(ls))
  <2>1. V \ Deep(pa)[Len(ls)] = {}
    BY <1>3, <1>9
  <2>2. Cardinality(UNION Elems(ls)) = 0
    BY <1>5, <1>9
  <2> QED
    BY <1>9, <2>1, <2>2
<1>11. InDegrees(d) = [i \in V |-> Cardinality(pa[i] \ UNION Elems(ls))]
  BY <1>6, <1>9
<1>12. IsPeeled(d, InDegrees(d), ls)
  BY <1>9, <1>10, <1>11 DEF IsPeeled, V, pa
<1> QED
  BY <1>12 DEF ls

(* Taking a layer off.                                                     *)
LEMMA PeelGoesOn ==
  ASSUME NEW d, IsDagStruct(d), NEW deg, NEW ls, IsPeeled(d, deg, ls),
         NEW layer, layer = NextLayer(d, deg, ls), layer # {},
         NEW deg2, deg2 = [i \in DOMAIN deg |->
                             deg[i] - Cardinality({p \in layer : i \in Elems(d.children[p])})]
  PROVE  IsPeeled(d, deg2, Append(ls, layer))
<1> DEFINE V == NodesOf(d)
           pa == ParentsOf(d)
           U == UNION Elems(ls)
           m == Len(ls)
           n == Cardinality(V)
           deep == Deep(pa)
           U2 == U \cup layer
           ls2 == Append(ls, layer)
<1>1. /\ DOMAIN pa = V /\ IsFiniteSet(V) /\ \A i \in V : pa[i] \in SUBSET V /\ IsFiniteSet(pa[i])
      /\ \A i, c \in V : i \in pa[c] <=> c \in Elems(d.children[i])
  BY ParentsAre DEF ParentMaps
<1>2. /\ ls \in Seq(SUBSET V) /\ U = V \ deep[m] /\ m <= Cardinality(U)
      /\ deg = [i \in V |-> Cardinality(pa[i] \ U)]
      /\ \A k \in 1..m : ls[k] = deep[k - 1] \ deep[k]
  BY DEF IsPeeled
<1>3. layer = deep[m] \ WithParentIn(pa, deep[m]) /\ m \in 0..n
  BY NextLayerIs
<1>4. /\ n \in Nat /\ \A k \in 1..n : deep[k] = WithParentIn(pa, deep[k - 1])
      /\ \A k \in 0..n : deep[k] \subseteq V
      /\ \A k \in 1..n : deep[k] \subseteq deep[k - 1]
  BY <1>1, DeepSteps, DeeperIsLess
<1>5. m \in Nat
  BY <1>2
<1> HIDE DEF V, pa, U, m, n, deep
<1>6. layer \subseteq V /\ layer \cap U = {}
  BY <1>2, <1>3, <1>4
<1>7. IsFiniteSet(U) /\ IsFiniteSet(layer) /\ IsFiniteSet(U2) /\ Cardinality(U2) <= n
      /\ Cardinality(U) + 1 <= Cardinality(U2) /\ Cardinality(U2) \in Nat /\ Cardinality(U) \in Nat
  <2>1. U \subseteq V /\ U2 \subseteq V /\ U \subseteq U2 /\ U # U2
    BY <1>2, <1>6
  <2> HIDE DEF U2
  <2>2. IsFiniteSet(U) /\ IsFiniteSet(layer) /\ IsFiniteSet(U2)
    BY <1>1, <1>6, <2>1, FS_Subset
  <2>3. Cardinality(U) + 1 <= Cardinality(U2) /\ Cardinality(U2) <= Cardinality(V)
        /\ Cardinality(U2) \in Nat /\ Cardinality(U) \in Nat
    BY <1>1, <2>1, GrowsByOne
  <2> QED
    BY <2>2, <2>3 DEF n
<1>8. m + 1 \in 1..n /\ (m + 1) - 1 = m /\ m + 1 <= Cardinality(U2)
  BY <1>2, <1>4, <1>5, <1>7
<1>9. deep[m + 1] = WithParentIn(pa, deep[m]) /\ layer = deep[m] \ deep[m + 1]
      /\ deep[m + 1] \subseteq deep[m] /\ deep[m] \subseteq V
  <2>1. deep[m + 1] = WithParentIn(pa, deep[(m + 1) - 1]) /\ deep[m + 1] \subseteq deep[(m + 1) - 1]
    BY <1>4, <1>8
  <2> QED
    BY <1>3, <1>4, <1>8, <2>1
<1>10. U2 = V \ deep[m + 1]
  BY <1>2, <1>9
<1>11. layer \in SUBSET V
  BY <1>6
<1>12. /\ ls2 \in Seq(SUBSET V) /\ Len(ls2) = m + 1 /\ Elems(ls2) = Elems(ls) \cup {layer}
       /\ ls2[m + 1] = layer /\ \A k \in 1..m : ls2[k] = ls[k]
  BY <1>2, <1>11, AppendElems DEF m
<1> HIDE DEF ls2
<1>13. UNION Elems(ls2) = U2
  BY <1>12 DEF U
<1>14. ASSUME NEW k \in 1..(m + 1)
       PROVE  ls2[k] = deep[k - 1] \ deep[k]
  <2>1. k = m + 1 \/ k \in 1..m
    BY <1>5
  <2>2. CASE k = m + 1
    BY <1>8, <1>9, <1>12, <2>2
  <2>3. CASE k \in 1..m
    BY <1>2, <1>12, <2>3
  <2> QED
    BY <2>1, <2>2, <2>3
<1>15. deg2 = [i \in V |-> Cardinality(pa[i] \ U2)]
  <2>1. deg2 = [i \in V |-> deg[i] - Cardinality({p \in layer : i \in Elems(d.children[p])})]
    BY <1>2
  <2>2. ASSUME NEW i \in V
        PROVE  deg[i] - Cardinality({p \in layer : i \in Elems(d.children[p])})
                 = Cardinality(pa[i] \ U2)
    <3> DEFINE A == pa[i] \ U
    <3>1. A \ layer = pa[i] \ U2 /\ A \cap layer = {p \in layer : i \in Elems(d.children[p])}
      BY <1>1, <1>6
    <3>2. deg[i] = Cardinality(A) /\ IsFiniteSet(A)
      BY <1>1, <1>2, FS_Subset
    <3> HIDE DEF A, U2
    <3>3. Cardinality(A \ layer) = Cardinality(A) - Cardinality(A \cap layer)
      BY <3>2, FS_Difference
    <3> QED
      BY <3>1, <3>2, <3>3
  <2> QED
    BY <2>1, <2>2
<1> HIDE DEF U2
<1>16. IsPeeled(d, deg2, ls2)
  <2>1. UNION Elems(ls2) = V \ deep[Len(ls2)] /\ Len(ls2) <= Cardinality(UNION Elems(ls2))
    BY <1>8, <1>10, <1>12, <1>13
  <2>2. \A k \in 1..Len(ls2) : ls2[k] = deep[k - 1] \ deep[k]
    BY <1>12, <1>14
  <2>3. deg2 = [i \in V |-> Cardinality(pa[i] \ UNION Elems(ls2))]
    BY <1>13, <1>15
  <2> QED
    BY <1>12, <2>1, <2>2, <2>3 DEF IsPeeled, V, pa, deep
<1> QED
  BY <1>16 DEF ls2

(* When no layer is left, what is left is as deep as a graph can be.       *)
LEMMA PeelEnds ==
  ASSUME NEW d, IsDagStruct(d), NEW deg, NEW ls, IsPeeled(d, deg, ls), NextLayer(d, deg, ls) = {}
  PROVE  UNION Elems(ls) = NodesOf(d) \ Deep(ParentsOf(d))[Cardinality(NodesOf(d))]
<1> DEFINE V == NodesOf(d)
           pa == ParentsOf(d)
           m == Len(ls)
           n == Cardinality(V)
           deep == Deep(pa)
<1>1. DOMAIN pa = V /\ IsFiniteSet(V)
  BY ParentsAre
<1>2. UNION Elems(ls) = V \ deep[m]
  BY DEF IsPeeled
<1>3. deep[m] \subseteq WithParentIn(pa, deep[m]) /\ m \in 0..n
  BY NextLayerIs
<1>4. /\ n \in Nat /\ \A k \in 1..n : deep[k] = WithParentIn(pa, deep[k - 1])
      /\ \A k \in 1..n : deep[k - 1] \subseteq deep[k] => deep[n] = deep[k - 1]
  BY <1>1, DeepSteps, DeeperIsLess
<1> HIDE DEF V, pa, m, n, deep
<1>5. deep[n] = deep[m]
  <2>1. CASE m = n
    BY <2>1
  <2>2. CASE m # n
    <3>1. m + 1 \in 1..n /\ (m + 1) - 1 = m
      BY <1>3, <1>4, <2>2
    <3>2. deep[m + 1] = WithParentIn(pa, deep[(m + 1) - 1])
      BY <1>4, <3>1
    <3>3. deep[(m + 1) - 1] \subseteq deep[m + 1] => deep[n] = deep[(m + 1) - 1]
      BY <1>4, <3>1
    <3> QED
      BY <1>3, <3>1, <3>2, <3>3
  <2> QED
    BY <2>1, <2>2
<1>6. UNION Elems(ls) = V \ deep[n]
  BY <1>2, <1>5
<1> QED
  BY <1>6 DEF V, pa, n, deep

------------------------------------------------------------------------------
(* Both walks in the specification                                         *)

(* What the walk in progress knows.                                        *)
WalkInv ==
  /\ IsSound
  /\ purpose \in {"idle", "validate", "sort", "layers"}
  /\ purpose \in {"validate", "sort"} => IsWalk(dag, inDeg, queue, popped)
  /\ purpose = "layers" => IsPeeled(dag, inDeg, layers)
  /\ purpose # "layers" => layers = << >>

(* validate's and topo_sort's next node is one of the queue.               *)
LEMMA NextPoppedIsQueued ==
  ASSUME NEW V \in SUBSET Nat, NEW q \in Seq(V), q # << >>
  PROVE  NextPopped(q) \in Elems(q)
<1>1. Len(q) \in Nat /\ Len(q) # 0 /\ q[1] \in Elems(q)
  BY DEF Elems
<1>2. Head(q) \in Elems(q)
  BY <1>1
<1>3. \E i \in Elems(q) : \A j \in Elems(q) : i <= j
  <2>1. Elems(q) \in SUBSET Nat /\ Elems(q) # {}
    BY <1>1, ElemsOfSeq
  <2>2. Min(Elems(q)) \in Elems(q) /\ \A j \in Elems(q) : Min(Elems(q)) <= j
    BY <2>1, MinOfNaturals
  <2> QED
    BY <2>2
<1> QED
  BY <1>2, <1>3 DEF NextPopped

(* No walk runs at first.                                                  *)
LEMMA WalkInit == Init => WalkInv
BY EmptyIsDag DEF Init, WalkInv, IsSound

(* Every operation and every step of a walk keeps what the walk knows.     *)
LEMMA WalkNext ==
  ASSUME WalkInv, [Next]_vars
  PROVE  WalkInv'
<1>1. IsSound'
  BY SoundNext DEF WalkInv
<1>2. CASE UNCHANGED walk /\ purpose = "idle"
  BY <1>1, <1>2 DEF WalkInv, walk
<1>3. ASSUME NEW name \in Name, AddNode(name)
      PROVE  WalkInv'
  BY <1>2, <1>3 DEF AddNode
<1>4. ASSUME NEW source, NEW sink, AddEdge(source, sink)
      PROVE  WalkInv'
  BY <1>2, <1>4 DEF AddEdge
<1>5. ASSUME NEW source, NEW sink, AddEdgeByName(source, sink)
      PROVE  WalkInv'
  BY <1>2, <1>5 DEF AddEdgeByName
<1>6. ASSUME NEW keep, Induce(keep)
      PROVE  WalkInv'
  BY <1>2, <1>6 DEF Induce
<1>7. ASSUME NEW d, ReadBack(d)
      PROVE  WalkInv'
  BY <1>2, <1>7 DEF ReadBack
<1>8. ASSUME NEW for \in {"validate", "sort"}, StartWalk(for)
      PROVE  WalkInv'
  <2>1. /\ purpose' = for /\ popped' = << >> /\ dag' = dag /\ inDeg' = InDegrees(dag)
        /\ queue' = Ascending({i \in NodesOf(dag) : InDegrees(dag)[i] = 0})
        /\ layers' = << >>
    BY <1>8 DEF StartWalk, WalkInv
  <2>2. IsWalk(dag, InDegrees(dag), Ascending({i \in NodesOf(dag) : InDegrees(dag)[i] = 0}), << >>)
    BY WalkBegins DEF WalkInv, IsSound
  <2>3. IsWalk(dag', inDeg', queue', popped')
    BY <2>1, <2>2
  <2> QED
    BY <1>1, <2>1, <2>3 DEF WalkInv
<1>9. CASE Visit
  <2> DEFINE node == NextPopped(queue)
  <2>1. /\ purpose' = purpose /\ dag' = dag /\ layers' = layers /\ purpose \in {"validate", "sort"}
        /\ inDeg' = [i \in DOMAIN inDeg |-> inDeg[i] - IF i
             \in Elems(dag.children[node]) THEN 1 ELSE 0]
        /\ queue' = Selected(queue, NodesOf(dag) \ {node})
                      \o Selected(dag.children[node], {c \in NodesOf(dag) : inDeg'[c] = 0})
        /\ popped' = Append(popped, node) /\ queue # << >>
    BY <1>9 DEF Visit, Joins
  <2>2. IsDagStruct(dag) /\ IsWalk(dag, inDeg, queue, popped)
    BY <2>1 DEF WalkInv, IsSound
  <2>3. node \in Elems(queue)
    <3>1. NodesOf(dag) \in SUBSET Nat
      BY <2>2, ParentsAre
    <3>2. queue \in Seq(NodesOf(dag))
      BY <2>2 DEF IsWalk
    <3> QED
      BY <2>1, <3>1, <3>2, NextPoppedIsQueued
  <2> HIDE DEF node
  <2>4. IsWalk(dag, inDeg', queue', popped')
    <3>1. IsVisit(dag, inDeg, queue, popped, node, inDeg', queue', popped')
      BY <2>1 DEF IsVisit
    <3> QED
      BY <2>2, <2>3, <3>1, WalkGoesOn
  <2> QED
    BY <1>1, <2>1, <2>4 DEF WalkInv
<1>10. CASE EndWalk
  BY <1>1, <1>10 DEF EndWalk, WalkInv
<1>11. CASE StartLayers
  <2>1. purpose' = "layers" /\ dag' = dag /\ inDeg' = InDegrees(dag) /\ layers' = << >>
    BY <1>11 DEF StartLayers
  <2>2. IsPeeled(dag, InDegrees(dag), << >>)
    BY PeelBegins DEF WalkInv, IsSound
  <2> QED
    BY <1>1, <2>1, <2>2 DEF WalkInv
<1>12. CASE TakeLayer
  <2>1. /\ purpose = "layers" /\ Layer # {} /\ dag' = dag /\ purpose' = purpose
        /\ inDeg' = [i \in DOMAIN inDeg |->
                       inDeg[i] - Cardinality({p \in Layer : i \in Elems(dag.children[p])})]
        /\ layers' = Append(layers, Layer)
    BY <1>12 DEF TakeLayer, ParentsPlaced
  <2>2. IsDagStruct(dag) /\ IsPeeled(dag, inDeg, layers)
    BY <2>1 DEF WalkInv, IsSound
  <2>3. Layer = NextLayer(dag, inDeg, layers)
    BY DEF Layer, NextLayer
  <2>4. IsPeeled(dag, inDeg', layers')
    <3> DEFINE here == Layer
    <3>1. here = NextLayer(dag, inDeg, layers) /\ here # {}
          /\ layers' = Append(layers, here)
          /\ inDeg' = [i \in DOMAIN inDeg |->
                       inDeg[i] - Cardinality({p \in here : i \in Elems(dag.children[p])})]
      BY <2>1, <2>3
    <3> HIDE DEF here
    <3> QED
      BY <2>2, <3>1, PeelGoesOn
  <2> QED
    BY <1>1, <2>1, <2>4 DEF WalkInv
<1>13. CASE EndLayers
  BY <1>1, <1>13 DEF EndLayers, WalkInv
<1>14. CASE UNCHANGED vars
  BY <1>1, <1>14 DEF vars, walk, WalkInv
<1>15. CASE Next
  BY <1>3, <1>4, <1>5, <1>6, <1>7, <1>8, <1>9, <1>10, <1>11, <1>12, <1>13, <1>15 DEF Next
<1> QED
  BY <1>14, <1>15

(* It holds in every behaviour.                                            *)
LEMMA WalkIsAlwaysRight == Spec => []WalkInv
<1>1. WalkInv /\ [Next]_vars => WalkInv'
  BY WalkNext
<1> QED
  BY <1>1, WalkInit, PTL DEF Spec

(* validate accepts the acyclic graphs that have a node and no others, and *)
(* topo_sort orders every acyclic graph: however large the graph is, the   *)
(* in-degree walk never gets stuck on one, nor gets through a cycle.       *)
THEOREM VerdictIsAlwaysRight == Spec => VerdictIsRight
<1> DEFINE Right ==
             EndWalk =>
               LET pa == ParentsOf(dag)
               IN  /\ answer' = "ok" <=> Acyclic(pa) /\ (purpose = "sort" \/ dag.names # << >>)
                   /\ answer' = "CycleDetected" <=> ~Acyclic(pa)
                   /\ (purpose = "sort" /\ answer' = "ok") => IsTopologicalOrder(pa, popped)
<1>1. WalkInv => Right
  <2> SUFFICES ASSUME WalkInv, EndWalk
               PROVE  LET pa == ParentsOf(dag)
                      IN  /\ answer' = "ok" <=> Acyclic(pa)
                               /\ (purpose = "sort" \/ dag.names # << >>)
                          /\ answer' = "CycleDetected" <=> ~Acyclic(pa)
                          /\ (purpose = "sort" /\ answer' = "ok") => IsTopologicalOrder(pa, popped)
    OBVIOUS
  <2>1. purpose \in {"validate", "sort"} /\ queue = << >> /\ answer' = Verdict(dag, Len(popped))
    BY DEF EndWalk
  <2>2. IsDagStruct(dag) /\ IsWalk(dag, inDeg, << >>, popped)
    BY <2>1 DEF WalkInv, IsSound
  <2>3. /\ Len(popped) = Len(dag.names) <=> Acyclic(ParentsOf(dag))
        /\ Len(popped) = Len(dag.names) => IsTopologicalOrder(ParentsOf(dag), popped)
    BY <2>2, WalkEnds
  <2>4. dag.names = << >> => Acyclic(ParentsOf(dag))
    <3>1. dag.names = << >> => DOMAIN ParentsOf(dag) = {}
      BY DEF ParentsOf, NodesOf
    <3> QED
      BY <3>1 DEF Acyclic
  <2> QED
    BY <2>1, <2>3, <2>4 DEF Verdict
<1> HIDE DEF Right
<1>2. Spec => [][Right]_vars
  BY <1>1, WalkIsAlwaysRight, PTL DEF Spec
<1> QED
  BY <1>2 DEF VerdictIsRight, Right

(* topological_layers puts every node at the length of the longest path to *)
(* it, in graphs of every size, and leaves out exactly the nodes on a      *)
(* cycle or behind one.                                                    *)
THEOREM LayersAreAlwaysDepths == Spec => LayersAreDepths
<1> DEFINE Right ==
             EndLayers =>
               LET pa == ParentsOf(dag)
                   deep == Deep(pa)
               IN  /\ \A k \in DOMAIN layers : layers[k] = deep[k - 1] \ deep[k]
                   /\ UNION Elems(layers) = DOMAIN pa \ deep[Cardinality(DOMAIN pa)]
<1>1. WalkInv => Right
  <2> SUFFICES ASSUME WalkInv, EndLayers
               PROVE  LET pa == ParentsOf(dag)
                          deep == Deep(pa)
                      IN  /\ \A k \in DOMAIN layers : layers[k] = deep[k - 1] \ deep[k]
                          /\ UNION Elems(layers) = DOMAIN pa \ deep[Cardinality(DOMAIN pa)]
    OBVIOUS
  <2>1. IsDagStruct(dag) /\ IsPeeled(dag, inDeg, layers) /\ Layer = {}
    BY DEF EndLayers, WalkInv, IsSound
  <2>2. NextLayer(dag, inDeg, layers) = {}
    BY <2>1 DEF Layer, NextLayer
  <2>3. UNION Elems(layers) = NodesOf(dag) \ Deep(ParentsOf(dag))[Cardinality(NodesOf(dag))]
    BY <2>1, <2>2, PeelEnds
  <2>4. DOMAIN layers = 1..Len(layers)
        /\ \A k \in 1..Len(layers) : layers[k]
             = Deep(ParentsOf(dag))[k - 1] \ Deep(ParentsOf(dag))[k]
    BY <2>1 DEF IsPeeled
  <2>5. DOMAIN ParentsOf(dag) = NodesOf(dag)
    BY <2>1, ParentsAre
  <2> QED
    BY <2>3, <2>4, <2>5
<1> HIDE DEF Right
<1>2. Spec => [][Right]_vars
  BY <1>1, WalkIsAlwaysRight, PTL DEF Spec
<1> QED
  BY <1>2 DEF LayersAreDepths, Right

------------------------------------------------------------------------------
(* Automatic dispatch                                                      *)

SamplingMethods == {"approx", "approx_adaptive"}

(* The methods that may have been passed over before m runs.               *)
Before(m) ==
  CASE m = "exact_dag_sparse" -> {"exact_tree"}
    [] m \in {"exact_dag", "uniform_sparse_adaptive"} -> {"exact_tree", "exact_dag_sparse"}
    [] m \in SamplingMethods -> {"exact_tree", "exact_dag_sparse", "uniform_sparse_adaptive"}
    [] OTHER -> {}

TypeInv == gr \in Graphs /\ quality \in BOOLEAN /\ bad_config \in BOOLEAN

(* What is known of the graph when a method runs.                          *)
MethodInv ==
  /\ method = "exact" => gr.n <= 8
  /\ method = "exact_tree" => gr.tree /\ gr.n > 8
  /\ method = "exact_dag_sparse" =>
       /\ gr.n \in 9..63 /\ gr.n <= MaxNodes /\ Feasible(StateBudget)
       /\ Feasible(IF gr.tree THEN SparsePreflightBudget ELSE PreflightBudget(gr.n))
       /\ gr.tree => ~gr.cheap_tree \/ raised # {}
  /\ method = "exact_dag" => gr.n <= 20 /\ ~gr.tree
  /\ method = "uniform_sparse_adaptive" => gr.n \in 21..63
  /\ method \in Approximate => OverBudget \/ raised # {}
  /\ method \in {"none", "exact", "exact_tree", "exact_dag_sparse", "exact_dag",
                 "uniform_sparse_adaptive"} \cup SamplingMethods

(* Errors of the value function: those taken for refusals were met by the  *)
(* methods before the one that runs, any other one ended the call.         *)
RaisedInv ==
  /\ refused \subseteq Before(method)
  /\ \A x \in raised : IF LooksLikeRefusal(x) THEN x.by \in Before(method)
                                              ELSE /\ x.by = method /\ x.error = result
                                                   /\ result # "none"

(* What is reported about a fallback, and noted for one to come.           *)
ReasonInv ==
  /\ \A why \in fallback_reason \cup {tree_reason} :
       /\ why = "bitmask" =>
            \/ gr.n > 64 /\ gr.cheap_tree
            \/ [by |-> "exact_tree", error |-> "InvalidConfig"] \in raised
       /\ why = "shape" =>
            \/ ~gr.cheap_tree
            \/ [by |-> "exact_tree", error |-> "ExactTreeBudgetExceeded"] \in raised
  /\ tree_reason \in {"none", "bitmask", "shape"}
  /\ fallback_from # "none" => fallback_from \in PassedOver
  /\ method = "exact_dag_sparse" /\ gr.tree => "exact_tree" \in PassedOver
  /\ fallback_reason \cap {"sparse_infeasible", "sparse_message"} # {} =>
       "exact_dag_sparse" \in PassedOver
  /\ "uniform_message" \in fallback_reason => "uniform_sparse_adaptive" \in PassedOver
  /\ "state_budget" \in fallback_reason => ~Feasible(StateBudget)

ResultInv ==
  /\ result \notin {"none", "ok"} /\ ~bad_config => [by |-> method, error |-> result] \in raised
  /\ result = "ok" => RefusalsOf(method) = {}
  /\ result # "none" => method # "none"

DispatchInv == TypeInv /\ MethodInv /\ RaisedInv /\ ReasonInv /\ ResultInv
------------------------------------------------------------------------------
(* The budgets are numbers, and the sparse preflight asks for no more than *)
(* the memory guard allows.                                                *)
LEMMA Budgets ==
  /\ StateBudget \in Nat /\ SparsePreflightBudget \in Nat
  /\ SparsePreflightBudget <= StateBudget /\ 2^19 <= StateBudget
BY SMT DEF StateBudget, MemoryLimitBytes, SparsePreflightBudget

(* A set has no more subsets than a larger one.                            *)
LEMMA PowersGrow ==
  ASSUME NEW m \in Nat, NEW k \in 0..m
  PROVE  2^k \in Nat /\ 2^m \in Nat /\ 2^k <= 2^m
<1>1. IsFiniteSet(1..k) /\ Cardinality(1..k) = k
  <2>1. IsFiniteSet(1..k) /\ Cardinality(1..k) = IF 1 > k THEN 0 ELSE k - 1 + 1
    BY FS_Interval
  <2> QED
    BY <2>1
<1>2. IsFiniteSet(1..m) /\ Cardinality(1..m) = m
  <2>1. IsFiniteSet(1..m) /\ Cardinality(1..m) = IF 1 > m THEN 0 ELSE m - 1 + 1
    BY FS_Interval
  <2> QED
    BY <2>1
<1> DEFINE small == SUBSET (1..k)
           large == SUBSET (1..m)
<1>3. IsFiniteSet(small) /\ Cardinality(small) = 2^k
  BY <1>1, FS_SUBSET
<1>4. IsFiniteSet(large) /\ Cardinality(large) = 2^m
  BY <1>2, FS_SUBSET
<1>5. small \in SUBSET large
  OBVIOUS
<1> HIDE DEF small, large
<1>6. Cardinality(small) <= Cardinality(large) /\ Cardinality(small) \in Nat
        /\ Cardinality(large) \in Nat
  BY <1>3, <1>4, <1>5, FS_Subset, FS_CardinalityType
<1> QED
  BY <1>3, <1>4, <1>6

(* What a preflight lets through on 9 to 63 nodes is within the guard.     *)
LEMMA BudgetsWithinGuard ==
  ASSUME NEW n \in 9..63, NEW ideals \in Nat, ideals <= PreflightBudget(n)
  PROVE  ideals <= StateBudget
<1>1. CASE n <= 20
  <2>1. n - 1 \in 0..19 /\ ideals <= 2^(n - 1)
    BY <1>1 DEF PreflightBudget
  <2>2. 2^(n - 1) \in Nat /\ 2^19 \in Nat /\ 2^(n - 1) <= 2^19
    BY <2>1, PowersGrow
  <2> HIDE DEF StateBudget
  <2> QED
    BY <2>1, <2>2, Budgets
<1>2. CASE n > 20
  BY <1>2, Budgets DEF PreflightBudget
<1> QED
  BY <1>1, <1>2

(* What choose_method reads of the graph and of the options.               *)
LEMMA GraphTypes ==
  ASSUME TypeInv
  PROVE  /\ gr.n \in Nat /\ gr.ideals \in Nat /\ gr.tree \in BOOLEAN /\ gr.cheap_tree \in BOOLEAN
         /\ gr.overflow \in BOOLEAN /\ quality \in BOOLEAN /\ bad_config \in BOOLEAN
BY GraphsAssumption DEF TypeInv

(* Between the limits on nodes, a feasible count never gets InvalidConfig  *)
(* from the sparse programme.                                              *)
LEMMA NodeLimit ==
  ASSUME TypeInv, gr.n \in 9..63, gr.n <= MaxNodes, Feasible(StateBudget)
  PROVE  "InvalidConfig" \notin RefusalsOf("exact_dag_sparse")
<1>1. ~(gr.n > MaxNodes) /\ ~(gr.n > 63)
  BY GraphTypes DEF MaxNodes
<1>2. RefusalsOf("exact_dag_sparse") = IF gr.overflow THEN {"Overflow"} ELSE {}
  BY <1>1, GraphTypes DEF RefusalsOf
<1> QED
  BY <1>2

(* The methods before one do not include it, nor does a method run again.  *)
LEMMA NeverAgain == ASSUME NEW m PROVE m \notin Before(m)
BY DEF Before, SamplingMethods

(* Graph and options stay, and with them what follows from them alone.     *)
LEMMA SameGraph ==
  ASSUME UNCHANGED <<gr, quality, bad_config>>
  PROVE  /\ MaxNodes' = MaxNodes /\ (OverBudget' <=> OverBudget)
         /\ \A k : Feasible(k)' <=> Feasible(k)
         /\ Feasible(IF gr.tree THEN SparsePreflightBudget ELSE PreflightBudget(gr.n))'
              <=> Feasible(IF gr.tree THEN SparsePreflightBudget ELSE PreflightBudget(gr.n))
<1>1. MaxNodes' = MaxNodes
  BY DEF MaxNodes
<1>2. OverBudget' <=> OverBudget
  BY DEF OverBudget
<1>3. \A k : Feasible(k)' <=> Feasible(k)
  BY DEF Feasible
<1>4. Feasible(IF gr.tree THEN SparsePreflightBudget ELSE PreflightBudget(gr.n))'
        <=> Feasible(IF gr.tree THEN SparsePreflightBudget ELSE PreflightBudget(gr.n))
  BY DEF Feasible, PreflightBudget
<1> QED
  BY <1>1, <1>2, <1>3, <1>4

(* The choice of a method keeps the invariant, one case per arm of the     *)
(* dispatch.                                                               *)
LEMMA ChooseInv ==
  ASSUME DispatchInv, Choose
  PROVE  DispatchInv'
<1>1. /\ gr' = gr /\ quality' = quality /\ bad_config' = bad_config /\ tree_reason' = tree_reason
      /\ raised' = raised /\ result' = result /\ result = "none" /\ method = "none"
  BY DEF Choose, args
<1>2. TypeInv /\ refused = {} /\ raised = {} /\ fallback_from = "none"
  <2>1. Before(method) = {}
    BY <1>1 DEF Before, SamplingMethods
  <2>2. refused = {} /\ raised = {}
    BY <1>1, <2>1 DEF DispatchInv, RaisedInv
  <2> QED
    BY <2>2 DEF DispatchInv, ReasonInv, PassedOver, Mistaken
<1>3. /\ MaxNodes' = MaxNodes /\ (OverBudget' <=> OverBudget)
      /\ \A k : Feasible(k)' <=> Feasible(k)
      /\ Feasible(IF gr.tree THEN SparsePreflightBudget ELSE PreflightBudget(gr.n))'
           <=> Feasible(IF gr.tree THEN SparsePreflightBudget ELSE PreflightBudget(gr.n))
  BY <1>1, SameGraph
<1>4. /\ MethodInv' /\ method' # "none" /\ refused' \subseteq Before(method)'
      /\ \/ UNCHANGED <<fallback_from, fallback_reason>>
         \/ /\ fallback_from' = "exact_dag_sparse" /\ "exact_dag_sparse" \in refused'
            /\ fallback_reason' = {"state_budget"} /\ ~Feasible(StateBudget)
      /\ ~(method' = "exact_dag_sparse" /\ gr.tree)
  <2>1. CASE gr.n <= 8
    <3>1. method' = "exact" /\ refused' = {} /\ UNCHANGED <<fallback_from, fallback_reason>>
      BY <1>2, <2>1, GraphTypes DEF Choose, Start
    <3> QED
      BY <1>1, <1>2, <2>1, <3>1 DEF MethodInv, Approximate
  <2>2. CASE gr.n > 8 /\ gr.tree
    <3>1. method' = "exact_tree" /\ refused' = {} /\ UNCHANGED <<fallback_from, fallback_reason>>
      BY <1>2, <2>2, GraphTypes DEF Choose, Start
    <3> QED
      BY <1>1, <1>2, <2>2, <3>1 DEF MethodInv, Approximate
  <2>3. CASE gr.n \in 9..63 /\ ~gr.tree /\ Feasible(PreflightBudget(gr.n))
    <3>1. method' = "exact_dag_sparse" /\ refused' = {}
            /\ UNCHANGED <<fallback_from, fallback_reason>>
      BY <1>2, <2>3, GraphTypes DEF Choose, Start
    <3>2. gr.n <= MaxNodes /\ Feasible(StateBudget)
      BY <1>2, <2>3, GraphTypes, BudgetsWithinGuard DEF MaxNodes, Feasible
    <3> QED
      BY <1>1, <1>2, <1>3, <2>3, <3>1, <3>2 DEF MethodInv, Approximate
  <2>4. CASE gr.n \in 9..63 /\ ~gr.tree /\ ~Feasible(PreflightBudget(gr.n))
    <3>1. refused' = {"exact_dag_sparse"} /\ WithoutSparse
      BY <1>2, <2>4, GraphTypes DEF Choose
    <3>2. CASE gr.n <= 20
      <4>1. method' = "exact_dag" /\ UNCHANGED <<fallback_from, fallback_reason>>
        BY <1>2, <3>1, <3>2, GraphTypes DEF WithoutSparse, Start
      <4> QED
        BY <1>1, <2>4, <3>1, <3>2, <4>1 DEF MethodInv, Approximate, Before
    <3>3. CASE gr.n > 20
      <4>1. OverBudget
        BY <1>2, <2>4, <3>3, GraphTypes, Budgets DEF OverBudget, Feasible, PreflightBudget
      <4>2. \/ /\ quality /\ method' = "uniform_sparse_adaptive"
               /\ UNCHANGED <<fallback_from, fallback_reason>>
            \/ /\ method' = "approx" /\ fallback_from' = "exact_dag_sparse"
               /\ fallback_reason' = {"state_budget"} /\ ~Feasible(StateBudget)
            \/ method' = "approx" /\ UNCHANGED <<fallback_from, fallback_reason>>
        BY <1>2, <2>4, <3>1, <3>3, GraphTypes DEF WithoutSparse, Start, FallBack, PreflightBudget
      <4>3. refused' \subseteq Before(method)'
        BY <3>1, <4>2 DEF Before, SamplingMethods
      <4>4. MethodInv'
        BY <1>3, <1>1, <2>4, <3>3, <4>1, <4>2 DEF MethodInv, SamplingMethods
      <4> QED
        BY <2>4, <3>1, <4>2, <4>3, <4>4
    <3> QED
      BY <1>2, <2>4, <3>2, <3>3, GraphTypes
  <2>5. CASE gr.n > 63 /\ ~gr.tree
    <3>1. method' = ImportanceSampler /\ refused' = {}
            /\ UNCHANGED <<fallback_from, fallback_reason>>
      BY <1>2, <2>5, GraphTypes DEF Choose, Start
    <3>2. OverBudget
      BY <1>2, <2>5, GraphTypes DEF OverBudget
    <3>3. method' \in SamplingMethods
      BY <3>1 DEF ImportanceSampler, SamplingMethods
    <3> QED
      BY <1>3, <2>5, <3>1, <3>2, <3>3 DEF MethodInv, SamplingMethods
  <2> QED
    BY <1>2, <2>1, <2>2, <2>3, <2>4, <2>5, GraphTypes
<1>5. ReasonInv'
  BY <1>1, <1>2, <1>3, <1>4 DEF DispatchInv, ReasonInv, PassedOver, Mistaken
<1>6. RaisedInv'
  BY <1>1, <1>2, <1>4 DEF RaisedInv
<1>7. TypeInv' /\ ResultInv'
  BY <1>1, <1>2, <1>4 DEF TypeInv, ResultInv
<1> QED
  BY <1>4, <1>5, <1>6, <1>7 DEF DispatchInv

(* A method is given up by what it answered: its own refusal, or an error  *)
(* of the value function that looks like one.                              *)
LEMMA GivenUp ==
  ASSUME RaisedInv, NEW outcome, Answer(outcome), result' = result,
         LooksLikeRefusal([by |-> method, error |-> outcome]),
         Before(method) \cup {method} \subseteq Before(method)',
         refused \cup Refuser \subseteq refused'
  PROVE  /\ \A x \in raised' : LooksLikeRefusal(x) /\ x.by \in Before(method)'
         /\ raised \subseteq raised' /\ PassedOver \subseteq PassedOver' /\ method \in PassedOver'
         /\ \/ outcome \in RefusalsOf(method)
            \/ [by |-> method, error |-> outcome] \in raised'
<1> DEFINE met == [by |-> method, error |-> outcome]
<1>1. met.by = method /\ outcome # "ok" /\ result = "none"
  BY DEF LooksLikeRefusal, Answer
<1>2. CASE FromValueFn(method)
  <2>1. raised' = raised \cup {met}
    BY <1>1, <1>2 DEF Answer
  <2>2. \A x \in raised : LooksLikeRefusal(x) /\ x.by \in Before(method)
    BY <1>1 DEF RaisedInv
  <2>3. met \in {y \in raised' : LooksLikeRefusal(y)}
    BY <2>1
  <2>4. method \in Mistaken' /\ Mistaken \subseteq Mistaken'
    BY <1>1, <2>1, <2>3 DEF Mistaken
  <2> QED
    BY <1>1, <2>1, <2>2, <2>4 DEF PassedOver
<1>3. CASE ~FromValueFn(method)
  <2>1. raised' = raised /\ Refuser = {method}
    BY <1>3 DEF Answer, Refuser
  <2>2. outcome \in RefusalsOf(method)
    BY <1>3 DEF Answer, Outcomes, FromValueFn
  <2>3. \A x \in raised : LooksLikeRefusal(x) /\ x.by \in Before(method)
    BY <1>1 DEF RaisedInv
  <2>4. Mistaken' = Mistaken
    BY <2>1 DEF Mistaken
  <2> QED
    BY <2>1, <2>2, <2>3, <2>4 DEF PassedOver
<1> QED
  BY <1>2, <1>3

(* So does the end of exact_tree, with what auto makes of it.              *)
LEMMA TreeRefusesInv ==
  ASSUME DispatchInv, NEW outcome, TreeRefuses(outcome)
  PROVE  DispatchInv'
<1>1. /\ gr' = gr /\ quality' = quality /\ bad_config' = bad_config /\ result' = result
      /\ method = "exact_tree" /\ result = "none" /\ Answer(outcome)
      /\ outcome \in {"ExactTreeBudgetExceeded", "InvalidConfig"}
      /\ tree_reason' = TreeReason(outcome) /\ fallback_from' = "exact_tree"
  BY DEF TreeRefuses, Answer, args, FallBack
<1>2. /\ TypeInv /\ gr.tree /\ gr.n > 8 /\ gr.n \in Nat /\ gr.ideals \in Nat
      /\ gr.cheap_tree \in BOOLEAN
  BY <1>1, GraphTypes DEF DispatchInv, MethodInv
<1>3. \/ /\ gr.n <= 63 /\ Feasible(SparsePreflightBudget) /\ method' = "exact_dag_sparse"
         /\ fallback_reason' = {tree_reason'} /\ refused' = refused \cup Refuser
      \/ /\ ~(gr.n <= 63 /\ Feasible(SparsePreflightBudget)) /\ method' = ImportanceSampler
         /\ fallback_reason' = {tree_reason'} \cup SparseToo
         /\ refused' = refused \cup Refuser \cup IF gr.n <= 63 THEN {"exact_dag_sparse"} ELSE {}
  BY DEF TreeRefuses, FallBack
<1>4. ImportanceSampler \in SamplingMethods /\ Before(method) = {}
  BY <1>1 DEF ImportanceSampler, SamplingMethods, Before
<1>5. /\ {method} \subseteq Before(method)' /\ refused' \subseteq Before(method)'
      /\ refused \cup Refuser \subseteq refused'
  <2>1. refused = {}
    BY <1>4 DEF DispatchInv, RaisedInv
  <2>2. method' = "exact_dag_sparse" => Before(method)' = {"exact_tree"}
    BY DEF Before, SamplingMethods
  <2>3. method' \in SamplingMethods
          => Before(method)' = {"exact_tree", "exact_dag_sparse", "uniform_sparse_adaptive"}
    BY DEF Before, SamplingMethods
  <2> QED
    BY <1>1, <1>3, <1>4, <2>1, <2>2, <2>3 DEF Refuser
<1>6. /\ \A x \in raised' : LooksLikeRefusal(x) /\ x.by \in Before(method)'
      /\ raised \subseteq raised' /\ PassedOver \subseteq PassedOver' /\ method \in PassedOver'
      /\ \/ outcome \in RefusalsOf(method)
         \/ [by |-> method, error |-> outcome] \in raised'
  <2>1. LooksLikeRefusal([by |-> method, error |-> outcome])
    BY <1>1 DEF LooksLikeRefusal
  <2> QED
    BY <1>1, <1>4, <1>5, <2>1, GivenUp DEF DispatchInv
<1>7. /\ outcome = "ExactTreeBudgetExceeded" =>
           ~gr.cheap_tree \/ [by |-> "exact_tree", error |-> "ExactTreeBudgetExceeded"] \in raised'
      /\ outcome = "InvalidConfig" =>
           \/ gr.n > 64 /\ gr.cheap_tree
           \/ [by |-> "exact_tree", error |-> "InvalidConfig"] \in raised'
  BY <1>1, <1>2, <1>6 DEF RefusalsOf
<1>8. RaisedInv'
  BY <1>5, <1>6 DEF RaisedInv
<1>9. ReasonInv'
  <2>1. "exact_dag_sparse" \in PassedOver' \/ "sparse_infeasible" \notin fallback_reason'
    <3>1. CASE gr.n <= 63
      BY <1>1, <1>3, <3>1 DEF PassedOver, TreeReason
    <3>2. CASE ~(gr.n <= 63)
      BY <1>1, <1>3, <3>2 DEF SparseToo, TreeReason
    <3> QED
      BY <3>1, <3>2
  <2>2. fallback_reason' \subseteq {tree_reason', "sparse_infeasible"}
    BY <1>3 DEF SparseToo
  <2>3. /\ tree_reason' \in {"bitmask", "shape"}
        /\ tree_reason' = "bitmask" => outcome = "InvalidConfig"
        /\ tree_reason' = "shape" => outcome = "ExactTreeBudgetExceeded"
    BY <1>1 DEF TreeReason
  <2> QED
    BY <1>1, <1>6, <1>7, <2>1, <2>2, <2>3 DEF ReasonInv
<1>10. MethodInv'
  <2>1. /\ MaxNodes' = MaxNodes /\ (OverBudget' <=> OverBudget)
        /\ \A k : Feasible(k)' <=> Feasible(k)
        /\ Feasible(IF gr.tree THEN SparsePreflightBudget ELSE PreflightBudget(gr.n))'
             <=> Feasible(IF gr.tree THEN SparsePreflightBudget ELSE PreflightBudget(gr.n))
    BY <1>1, SameGraph
  <2>2. ~gr.cheap_tree \/ gr.n > 64 \/ raised' # {}
    BY <1>1, <1>7
  <2>3. CASE gr.n <= 63 /\ Feasible(SparsePreflightBudget)
    <3>1. gr.n \in 9..63 /\ gr.n <= MaxNodes /\ Feasible(StateBudget)
      BY <1>2, <2>3, Budgets DEF MaxNodes, Feasible
    <3> QED
      BY <1>1, <1>2, <1>3, <2>1, <2>2, <2>3, <3>1 DEF MethodInv, Approximate
  <2>4. CASE ~(gr.n <= 63 /\ Feasible(SparsePreflightBudget))
    <3>1. OverBudget \/ raised' # {}
      BY <1>2, <2>2, <2>4, Budgets DEF OverBudget, Feasible
    <3>2. method' \in SamplingMethods
      BY <1>3, <1>4, <2>4
    <3> QED
      BY <2>1, <3>1, <3>2 DEF MethodInv, SamplingMethods
  <2> QED
    BY <2>3, <2>4
<1>11. TypeInv' /\ ResultInv'
  BY <1>1, <1>2, <1>3, <1>4 DEF TypeInv, ResultInv, SamplingMethods
<1> QED
  BY <1>8, <1>9, <1>10, <1>11 DEF DispatchInv

(* So does the end of exact_dag_sparse and what takes its place.           *)
LEMMA SparseRefusesInv ==
  ASSUME DispatchInv, NEW outcome, SparseRefuses(outcome)
  PROVE  DispatchInv'
<1>1. /\ gr' = gr /\ quality' = quality /\ bad_config' = bad_config /\ result' = result
      /\ tree_reason' = tree_reason /\ refused' = refused \cup Refuser
      /\ method = "exact_dag_sparse" /\ result = "none" /\ Answer(outcome)
      /\ outcome \in {"InvalidConfig", "Overflow"}
  BY DEF SparseRefuses, Answer, args, Recoverable
<1>2. /\ TypeInv /\ gr.n \in 9..63 /\ gr.n <= MaxNodes /\ Feasible(StateBudget)
      /\ gr.tree => ~gr.cheap_tree \/ raised # {}
      /\ gr.tree \in BOOLEAN /\ gr.cheap_tree \in BOOLEAN /\ gr.overflow \in BOOLEAN
  BY <1>1, GraphTypes DEF DispatchInv, MethodInv
<1>3. \/ /\ gr.tree /\ method' = ImportanceSampler /\ fallback_from' = "exact_tree"
         /\ fallback_reason' = {tree_reason} \cup SparseToo
      \/ /\ ~gr.tree /\ gr.n <= 20 /\ method' = "exact_dag"
         /\ UNCHANGED <<fallback_from, fallback_reason>>
      \/ /\ ~gr.tree /\ gr.n > 20 /\ method' \in {"approx", "uniform_sparse_adaptive"}
         /\ fallback_from' = "exact_dag_sparse" /\ fallback_reason' = {"sparse_message"}
  BY <1>2 DEF SparseRefuses, Start, FallBack
<1>4. /\ method' \in {"exact_dag", "uniform_sparse_adaptive"} \cup SamplingMethods
      /\ method' \in SamplingMethods => gr.tree \/ gr.n > 20
      /\ method' = "exact_dag" => ~gr.tree /\ gr.n <= 20
      /\ method' = "uniform_sparse_adaptive" => ~gr.tree /\ gr.n > 20
  BY <1>2, <1>3 DEF ImportanceSampler, SamplingMethods
<1>5. Before(method) \cup {method} \subseteq Before(method)' /\ refused \subseteq Before(method)
  <2>1. Before(method) = {"exact_tree"}
    BY <1>1 DEF Before, SamplingMethods
  <2>2. {"exact_tree", "exact_dag_sparse"} \subseteq Before(method)'
    BY <1>4 DEF Before, SamplingMethods
  <2> QED
    BY <1>1, <2>1, <2>2 DEF DispatchInv, RaisedInv
<1>6. /\ \A x \in raised' : LooksLikeRefusal(x) /\ x.by \in Before(method)'
      /\ raised \subseteq raised' /\ PassedOver \subseteq PassedOver' /\ method \in PassedOver'
      /\ \/ outcome \in RefusalsOf(method)
         \/ [by |-> method, error |-> outcome] \in raised'
  <2>1. LooksLikeRefusal([by |-> method, error |-> outcome])
    BY <1>1 DEF LooksLikeRefusal
  <2> QED
    BY <1>1, <1>5, <2>1, GivenUp DEF DispatchInv
<1>7. RaisedInv'
  BY <1>1, <1>5, <1>6 DEF RaisedInv, Refuser
<1>8. MethodInv'
  <2>1. OverBudget' <=> OverBudget
    BY <1>1, SameGraph
  <2>2. gr.overflow \/ raised' # {}
    BY <1>1, <1>2, <1>6, NodeLimit DEF RefusalsOf
  <2>3. gr.tree \/ gr.n > 20 => OverBudget \/ raised' # {}
    BY <1>2, <1>6, <2>2 DEF OverBudget
  <2> QED
    BY <1>1, <1>2, <1>4, <2>1, <2>3 DEF MethodInv, SamplingMethods, Approximate
<1>9. ReasonInv'
  <2>1. fallback_reason' \subseteq fallback_reason \cup {tree_reason, "sparse_infeasible",
                                                         "sparse_message"}
    BY <1>3 DEF SparseToo
  <2>2. "exact_dag_sparse" \in PassedOver' /\ method' # "exact_dag_sparse"
    BY <1>1, <1>4, <1>6 DEF SamplingMethods
  <2>3. fallback_from' # "none" => fallback_from' \in PassedOver'
    BY <1>1, <1>3, <1>6, <2>2 DEF DispatchInv, ReasonInv
  <2>4. ~Feasible(StateBudget)' <=> ~Feasible(StateBudget)
    BY <1>1 DEF Feasible
  <2> QED
    BY <1>1, <1>6, <2>1, <2>2, <2>3, <2>4 DEF DispatchInv, ReasonInv
<1>10. TypeInv' /\ ResultInv'
  BY <1>1, <1>2 DEF TypeInv, ResultInv
<1> QED
  BY <1>7, <1>8, <1>9, <1>10 DEF DispatchInv

(* So does the end of the uniform sampler and the last fall-back.          *)
LEMMA UniformRefusesInv ==
  ASSUME DispatchInv, NEW outcome, UniformRefuses(outcome)
  PROVE  DispatchInv'
<1>1. /\ gr' = gr /\ quality' = quality /\ bad_config' = bad_config /\ result' = result
      /\ tree_reason' = tree_reason /\ refused' = refused \cup Refuser
      /\ method = "uniform_sparse_adaptive" /\ result = "none" /\ Answer(outcome)
      /\ outcome = "Overflow"
      /\ method' = "approx_adaptive" /\ fallback_reason' = {"uniform_message"}
      /\ fallback_from' \in {fallback_from, "uniform_sparse_adaptive"}
  BY DEF UniformRefuses, Answer, args, FallBack
<1>2. /\ Before(method) = {"exact_tree", "exact_dag_sparse"}
      /\ Before(method)' = {"exact_tree", "exact_dag_sparse", "uniform_sparse_adaptive"}
      /\ refused \subseteq Before(method)
  BY <1>1 DEF Before, SamplingMethods, DispatchInv, RaisedInv
<1>3. /\ \A x \in raised' : LooksLikeRefusal(x) /\ x.by \in Before(method)'
      /\ raised \subseteq raised' /\ PassedOver \subseteq PassedOver' /\ method \in PassedOver'
  <2>1. LooksLikeRefusal([by |-> method, error |-> outcome])
    BY <1>1 DEF LooksLikeRefusal
  <2> QED
    BY <1>1, <1>2, <2>1, GivenUp DEF DispatchInv
<1>4. RaisedInv'
  BY <1>1, <1>2, <1>3 DEF RaisedInv, Refuser
<1>5. MethodInv'
  <2>1. OverBudget' \/ raised' # {}
    BY <1>1, <1>3, SameGraph DEF DispatchInv, MethodInv, Approximate
  <2> QED
    BY <1>1, <2>1 DEF MethodInv, SamplingMethods
<1>6. ReasonInv'
  BY <1>1, <1>3 DEF DispatchInv, ReasonInv
<1>7. TypeInv' /\ ResultInv'
  BY <1>1 DEF DispatchInv, TypeInv, ResultInv
<1> QED
  BY <1>4, <1>5, <1>6, <1>7 DEF DispatchInv

(* So does the end of the call, by a result or by an error.                *)
LEMMA ReturnInv ==
  ASSUME DispatchInv, NEW outcome, Return(outcome)
  PROVE  DispatchInv'
<1>1. /\ UNCHANGED <<gr, quality, bad_config, method, tree_reason, refused, fallback_from,
                     fallback_reason>>
      /\ result = "none" /\ result' = outcome /\ method # "none" /\ Answer(outcome)
      /\ ~(method = "exact_tree" /\ outcome \in {"ExactTreeBudgetExceeded", "InvalidConfig"})
      /\ ~(method = "exact_dag_sparse" /\ outcome \in {"InvalidConfig", "Overflow"})
      /\ ~(method = "uniform_sparse_adaptive" /\ outcome = "Overflow")
  BY DEF Return, Answer, args, Recoverable
<1>2. TypeInv /\ raised \subseteq raised'
        /\ \A x \in raised : LooksLikeRefusal(x) /\ x.by \in Before(method)
  BY <1>1 DEF DispatchInv, RaisedInv, Answer
<1>3. PassedOver \subseteq PassedOver'
  BY <1>1, <1>2 DEF PassedOver, Mistaken
<1>4. MethodInv' /\ ReasonInv' /\ TypeInv'
  <2>1. MethodInv'
    BY <1>1, <1>2, SameGraph DEF DispatchInv, MethodInv
  <2>2. Feasible(StateBudget)' <=> Feasible(StateBudget)
    BY <1>1, SameGraph
  <2>3. ReasonInv'
    BY <1>1, <1>2, <1>3, <2>2 DEF DispatchInv, ReasonInv
  <2> QED
    BY <1>1, <1>2, <2>1, <2>3 DEF TypeInv
<1>5. RefusalsOf(method)' = RefusalsOf(method)
  BY <1>1 DEF RefusalsOf, Feasible, MaxNodes
<1>6. Before(method)' = Before(method)
  BY <1>1
<1>7. CASE RefusalsOf(method) # {}
  <2>1. raised' = raised /\ outcome \in RefusalsOf(method)
    BY <1>1, <1>7 DEF Answer, FromValueFn, Outcomes
  <2>2. outcome = "InvalidConfig" /\ bad_config
    <3>1. method # "exact"
      BY <1>2, <1>7, GraphTypes DEF DispatchInv, MethodInv, RefusalsOf
    <3>2. method # "exact_tree"
      BY <1>1, <2>1 DEF RefusalsOf
    <3>3. method # "exact_dag_sparse"
      BY <1>1, <2>1 DEF RefusalsOf
    <3>4. method # "exact_dag"
      BY <1>2, <1>7, GraphTypes DEF DispatchInv, MethodInv, RefusalsOf
    <3>5. CASE method = "uniform_sparse_adaptive"
      BY <1>1, <1>2, <2>1, <3>5, GraphTypes DEF DispatchInv, MethodInv, RefusalsOf
    <3>6. CASE method \in SamplingMethods
      BY <2>1, <3>6 DEF RefusalsOf, SamplingMethods
    <3> QED
      BY <1>1, <3>1, <3>2, <3>3, <3>4, <3>5, <3>6 DEF DispatchInv, MethodInv
  <2>3. RaisedInv' /\ ResultInv'
    BY <1>1, <1>2, <1>6, <2>1, <2>2 DEF DispatchInv, RaisedInv, ResultInv
  <2> QED
    BY <1>4, <2>3 DEF DispatchInv
<1>8. CASE RefusalsOf(method) = {} /\ outcome = "ok"
  <2>1. raised' = raised
    BY <1>8 DEF Return, Answer
  <2>2. RaisedInv' /\ ResultInv'
    BY <1>1, <1>2, <1>5, <1>6, <1>8, <2>1 DEF DispatchInv, RaisedInv, ResultInv
  <2> QED
    BY <1>4, <2>2 DEF DispatchInv
<1>9. CASE RefusalsOf(method) = {} /\ outcome # "ok"
  <2> DEFINE met == [by |-> method, error |-> outcome]
  <2>1. outcome \in Errors
    BY <1>1, <1>9, RaisesAssumption DEF Answer, Outcomes
  <2>2. raised' = raised \cup {met}
    BY <1>9 DEF Return, Answer, FromValueFn
  <2>3. ~LooksLikeRefusal(met)
    BY <1>1 DEF LooksLikeRefusal
  <2>4. met.by = method' /\ met.error = result' /\ result' \notin {"none", "ok"}
    BY <1>1, <1>9, <2>1 DEF Errors
  <2> HIDE DEF met
  <2>5. RaisedInv'
    BY <1>1, <1>2, <1>6, <2>2, <2>3, <2>4 DEF DispatchInv, RaisedInv
  <2>6. ResultInv'
    BY <1>1, <2>2, <2>4 DEF ResultInv, met
  <2> QED
    BY <1>4, <2>5, <2>6 DEF DispatchInv
<1> QED
  BY <1>7, <1>8, <1>9

(* A step that changes nothing keeps it.                                   *)
LEMMA StutterInv ==
  ASSUME DispatchInv, UNCHANGED dispatchVars
  PROVE  DispatchInv'
<1>1. UNCHANGED <<gr, quality, bad_config, method, tree_reason, refused, raised, fallback_from,
                  fallback_reason, result>>
  BY DEF dispatchVars
<1>2. PassedOver' = PassedOver /\ RefusalsOf(method)' = RefusalsOf(method)
  BY <1>1 DEF PassedOver, Mistaken, RefusalsOf, Feasible, MaxNodes
<1>3. MethodInv' /\ TypeInv'
  BY <1>1, SameGraph DEF DispatchInv, MethodInv, TypeInv
<1>4. RaisedInv' /\ ReasonInv' /\ ResultInv'
  BY <1>1, <1>2, SameGraph DEF DispatchInv, RaisedInv, ReasonInv, ResultInv
<1> QED
  BY <1>3, <1>4 DEF DispatchInv

(* It holds in every behaviour.                                            *)
LEMMA Invariant == DispatchSpec => []DispatchInv
<1>1. DispatchInit => DispatchInv
  BY DEF DispatchInit, DispatchInv, TypeInv, MethodInv, RaisedInv, ReasonInv, ResultInv,
         Approximate
<1>2. DispatchInv /\ [DispatchNext]_dispatchVars => DispatchInv'
  BY ChooseInv, TreeRefusesInv, SparseRefusesInv, UniformRefusesInv, ReturnInv, StutterInv
     DEF DispatchNext
<1> QED
  BY <1>1, <1>2, PTL DEF DispatchSpec
------------------------------------------------------------------------------
(* Every call with a valid configuration is answered, or fails with the    *)
(* error that the value function returned to its last method: on every     *)
(* graph, whatever methods refuse and whatever errors are mistaken.        *)
THEOREM DispatchAnswers == DispatchSpec => []AlwaysAnswers
<1>1. DispatchInv => AlwaysAnswers
  BY DEF DispatchInv, ResultInv, AlwaysAnswers
<1> QED
  BY <1>1, Invariant, PTL

(* Which graphs get an approximate answer when no error of the value       *)
(* function was mistaken: those over the budgets of the dispatch, costly   *)
(* trees of up to 20 nodes among them, and no others.                      *)
THEOREM SamplingIsOverBudget == DispatchSpec => []SampledIffOverBudget
<1>1. DispatchInv => SampledIffOverBudget
  <2> SUFFICES ASSUME DispatchInv, result = "ok", raised = {}
               PROVE  method \in Approximate <=> OverBudget
    BY DEF SampledIffOverBudget
  <2>1. /\ TypeInv /\ method # "none" /\ RefusalsOf(method) = {}
        /\ gr.n > 0 /\ (~gr.cheap_tree => gr.n > 8)
    BY GraphsAssumption DEF DispatchInv, ResultInv, TypeInv
  <2>2. CASE method \in Approximate
    BY <2>2 DEF DispatchInv, MethodInv
  <2>3. CASE method = "exact"
    BY <2>1, <2>3, GraphTypes DEF DispatchInv, MethodInv, Approximate, OverBudget
  <2>4. CASE method = "exact_tree"
    <3>1. gr.cheap_tree /\ gr.n <= 64 /\ gr.tree
      BY <2>1, <2>4, GraphTypes DEF DispatchInv, MethodInv, RefusalsOf
    <3> QED
      BY <2>1, <2>4, <3>1, GraphTypes DEF Approximate, OverBudget
  <2>5. CASE method = "exact_dag_sparse"
    <3>1. ~gr.overflow
      BY <2>1, <2>5 DEF RefusalsOf
    <3>2. /\ gr.n \in 9..63 /\ (gr.tree => ~gr.cheap_tree)
          /\ Feasible(IF gr.tree THEN SparsePreflightBudget ELSE PreflightBudget(gr.n))
      BY <2>5 DEF DispatchInv, MethodInv
    <3>3. gr.tree => gr.ideals <= SparsePreflightBudget
      BY <3>2 DEF Feasible
    <3>4. ~gr.tree /\ gr.n > 20
            => gr.ideals <= IF gr.n <= 28 /\ ~quality THEN StateBudget ELSE SparsePreflightBudget
      BY <3>2 DEF Feasible, PreflightBudget
    <3> QED
      BY <2>1, <2>5, <3>1, <3>2, <3>3, <3>4, GraphTypes, Budgets DEF Approximate, OverBudget
  <2>6. CASE method = "exact_dag"
    BY <2>1, <2>6, GraphTypes DEF DispatchInv, MethodInv, Approximate, OverBudget
  <2> QED
    BY <2>1, <2>2, <2>3, <2>4, <2>5, <2>6
       DEF DispatchInv, MethodInv, Approximate, SamplingMethods
<1> QED
  BY <1>1, Invariant, PTL

(* The preflight and the guard inside exact_dag_sparse agree on every      *)
(* graph.                                                                  *)
THEOREM PreflightIsSound == DispatchSpec => []PreflightMatchesGuard
<1>1. DispatchInv => PreflightMatchesGuard
  <2> SUFFICES ASSUME DispatchInv, method = "exact_dag_sparse"
               PROVE  "InvalidConfig" \notin RefusalsOf("exact_dag_sparse")
    BY DEF PreflightMatchesGuard
  <2> QED
    BY NodeLimit DEF DispatchInv, MethodInv
<1> QED
  BY <1>1, Invariant, PTL

(* What is reported about a fallback is what happened.                     *)
THEOREM FallbackIsReportedTruly == DispatchSpec => []FallbackIsTrue
<1>1. DispatchInv => FallbackIsTrue
  <2> SUFFICES ASSUME DispatchInv
               PROVE  FallbackIsTrue
    OBVIOUS
  <2>1. method \notin refused
    BY NeverAgain DEF DispatchInv, RaisedInv
  <2> QED
    BY <2>1 DEF DispatchInv, ReasonInv, FallbackIsTrue
<1> QED
  BY <1>1, Invariant, PTL

(* Which errors of the value function are returned, and which are taken    *)
(* for a refusal and lost: of every kind, on every graph.                  *)
THEOREM RaisedErrorsAreReturnedOrMistaken == DispatchSpec => []PropagatesUnlessMistaken
<1>1. DispatchInv => PropagatesUnlessMistaken
  BY NeverAgain DEF DispatchInv, RaisedInv, PropagatesUnlessMistaken
<1> QED
  BY <1>1, Invariant, PTL
=============================================================================
