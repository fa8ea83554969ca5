------------------------------- MODULE DagBuild -------------------------------
(***************************************************************************)
(* A `Dag` under construction (src/graph.rs), through the Rust API and     *)
(* through the Python `CausalDAG` (src/python.rs), which adds an edge by   *)
(* the names of its ends and makes graphs from lists of edges and JSON;    *)
(* the in-degree walk that `Dag::validate` and `topo_sort` share, and the  *)
(* one by layers of `topological_layers` and `inspect`.                    *)
(*                                                                         *)
(* A node's id is its place in `names`; ids start at 1 here, at 0 in the   *)
(* code.  `children` and `parents` keep the order of insertion.            *)
(***************************************************************************)
EXTENDS CausalGraph, SortedNumbers

CONSTANTS
  Name,
  MaxEdges    (* bound: edges are added only up to this many               *)

Ids == 1..Cardinality(Name)
BadId == Cardinality(Name) + 1

VARIABLES
  dag,        (* [names, children, parents], as in struct Dag              *)
  answer,     (* what the last operation returned                          *)
  purpose,    (* "idle", or what the walk is for: "validate" "sort"        *)
              (* "layers"                                                  *)
  inDeg,      (* the walk's in_deg                                         *)
  queue,      (* the VecDeque of validate, the heap of topo_sort           *)
  popped,     (* the nodes taken from it, in order: visited, or result     *)
  layers      (* the layers found, each a set of nodes                     *)

walk == <<purpose, inDeg, queue, popped, layers>>
vars == <<dag, answer, walk>>

EmptyDag == [names |-> << >>, children |-> << >>, parents |-> << >>]

NodesOf(d) == DOMAIN d.names
IdOf(d, name) == CHOOSE i \in NodesOf(d) : d.names[i] = name
EdgesOf(d) == {e \in NodesOf(d) \X NodesOf(d) : e[2] \in Elems(d.children[e[1]])}
ParentsOf(d) == [i \in NodesOf(d) |-> Elems(d.parents[i])]

Init ==
  /\ dag = EmptyDag
  /\ answer = "none"
  /\ purpose = "idle" /\ inDeg = << >> /\ queue = << >> /\ popped = << >> /\ layers = << >>

------------------------------------------------------------------------------
(* Construction *)

(* A name that is known keeps its id. *)
WithNode(d, name) ==
  IF name \in Elems(d.names)
    THEN d
    ELSE [names    |-> Append(d.names, name),
          children |-> Append(d.children, << >>),
          parents  |-> Append(d.parents, << >>)]

(* Faulty variant: the edge is entered at one end only.                    *)
WithEdgeAtOneEnd(d, from, to) == [d EXCEPT !.children[from] = Append(@, to)]

WithEdge(d, from, to) ==
  [names    |-> d.names,
   children |-> [d.children EXCEPT ![from] = Append(@, to)],
   parents  |-> [d.parents EXCEPT ![to] = Append(@, from)]]

Refusal(d, from, to) ==
  IF from = to THEN "SelfLoop"
  ELSE IF ~({from, to} \subseteq NodesOf(d)) THEN "InvalidNodeId"
  ELSE IF to \in Elems(d.children[from]) THEN "DuplicateEdge" ELSE "none"

(* The graph after add_edge on d, and what add_edge returned. *)
TryEdge(d, from, to) ==
  LET refusal == Refusal(d, from, to)
  IN  IF refusal = "none"
        THEN dag' = WithEdge(d, from, to) /\ answer' = "ok"
        ELSE dag' = d /\ answer' = refusal

AddNode(name) ==
  /\ purpose = "idle"
  /\ dag' = WithNode(dag, name)
  /\ answer' = "ok"
  /\ UNCHANGED walk

AddEdge(from, to) ==
  /\ purpose = "idle"
  /\ Cardinality(EdgesOf(dag)) < MaxEdges
  /\ TryEdge(dag, from, to)
  /\ UNCHANGED walk

(* CausalDAG.add_edge: both nodes are made first and stay even when the    *)
(* edge between them is refused.                                           *)
AddEdgeByName(from, to) ==
  /\ purpose = "idle"
  /\ Cardinality(EdgesOf(dag)) < MaxEdges
  /\ LET d == WithNode(WithNode(dag, from), to)
     IN  TryEdge(d, IdOf(d, from), IdOf(d, to))
  /\ UNCHANGED walk

(* Faulty variant: the edges are taken backwards.                          *)
Targets(d, keep, from) == {to \in keep : to \in Elems(d.children[from])}
Sources(d, keep, to) == {from \in keep : to \in Elems(d.children[from])}

(* The kept nodes, renumbered in their old order; an edge stays if both    *)
(* its ends do.  The edges are added anew source by source, so a node's    *)
(* parents come out in order of id whatever their order was.               *)
InducedSubgraph(d, keep) ==
  LET kept == Ascending(keep)
      newId(i) == CHOOSE k \in DOMAIN kept : kept[k] = i
      renamed(ids) == [k \in DOMAIN ids |-> newId(ids[k])]
  IN  [names    |-> [k \in DOMAIN kept |-> d.names[kept[k]]],
       children |-> [k \in DOMAIN kept |-> renamed(Selected(d.children[kept[k]], keep))],
       parents  |-> [k \in DOMAIN kept |-> renamed(Ascending(Sources(d, keep, kept[k])))]]

(* The caller goes on with the subgraph.                                   *)
Induce(keep) ==
  /\ purpose = "idle"
  /\ IF keep \subseteq NodesOf(dag)
       THEN dag' = InducedSubgraph(dag, keep) /\ answer' = "ok"
       ELSE answer' = "InvalidNodeId" /\ UNCHANGED dag
  /\ UNCHANGED walk

NamedChildren(d, i) ==
  [k \in DOMAIN d.children[i] |-> <<d.names[i], d.names[d.children[i][k]]>>]

(* CausalDAG.edges(), also the edges of to_json.                           *)
EdgeList(d) ==
  LET upTo[i \in 0..Len(d.names)] ==
        IF i = 0 THEN << >> ELSE upTo[i - 1] \o NamedChildren(d, i)
  IN  upTo[Len(d.names)]

(* The lists built from a graph have no edge that add_edge refuses.        *)
WithNamedEdge(d, e) ==
  LET both == WithNode(WithNode(d, e[1]), e[2])
  IN  WithEdge(both, IdOf(both, e[1]), IdOf(both, e[2]))

WithEdges(d, edges) ==
  LET built[k \in 0..Len(edges)] ==
        IF k = 0 THEN d ELSE WithNamedEdge(built[k - 1], edges[k])
  IN  built[Len(edges)]

WithNodes(names) ==
  LET built[k \in 0..Len(names)] ==
        IF k = 0 THEN EmptyDag ELSE WithNode(built[k - 1], names[k])
  IN  built[Len(names)]

(* CausalDAG.from_edges and from_networkx: a node is made by its first     *)
(* edge.                                                                   *)
FromEdges(d) == WithEdges(EmptyDag, EdgeList(d))

(* CausalDAG.from_json: the nodes of the list "nodes" come first.          *)
FromJson(d) == WithEdges(WithNodes(d.names), EdgeList(d))

(* The caller writes the graph out and goes on with what it reads back.    *)
ReadBack(d) ==
  /\ purpose = "idle"
  /\ dag' = d
  /\ answer' = "ok"
  /\ UNCHANGED walk

------------------------------------------------------------------------------
(* The walk.  &Dag is borrowed for its whole length: nothing is added      *)
(* while it runs.                                                          *)

InDegrees(d) == [i \in NodesOf(d) |-> Len(d.parents[i])]

StartWalk(for) ==
  /\ purpose = "idle"
  /\ purpose' = for
  /\ inDeg' = InDegrees(dag)
  /\ queue' = Ascending({i \in NodesOf(dag) : inDeg'[i] = 0})
  /\ popped' = << >>
  /\ answer' = "none"
  /\ UNCHANGED <<dag, layers>>

(* validate takes the oldest, topo_sort the smallest id.                   *)
NextPopped(q) ==
  IF purpose = "sort" THEN CHOOSE i \in Elems(q) : \A j \in Elems(q) : i <= j ELSE Head(q)

Joins(d) == d = 0

Visit ==
  /\ purpose \in {"validate", "sort"}
  /\ queue # << >>
  /\ LET node == NextPopped(queue)
         children == dag.children[node]
         joining == Selected(children, {c \in NodesOf(dag) : Joins(inDeg'[c])})
     IN  /\ inDeg' = [i \in DOMAIN inDeg |-> inDeg[i] - IF i \in Elems(children) THEN 1 ELSE 0]
         /\ queue' = Selected(queue, NodesOf(dag) \ {node}) \o joining
         /\ popped' = Append(popped, node)
  /\ UNCHANGED <<dag, answer, purpose, layers>>

(* Faulty variant: a walk that got anywhere is good enough.                *)
VerdictOfAnyVisit(d, n) == IF n = 0 /\ d.names # << >> THEN "CycleDetected" ELSE "ok"

(* validate refuses the empty graph, before it walks; topo_sort does not.  *)
Verdict(d, n) ==
  CASE d.names = << >> /\ purpose # "sort" -> "EmptyGraph"
    [] n # Len(d.names)                    -> "CycleDetected"
    [] OTHER                               -> "ok"

EndWalk ==
  /\ purpose \in {"validate", "sort"}
  /\ queue = << >>
  /\ answer' = Verdict(dag, Len(popped))
  /\ purpose' = "idle"
  /\ inDeg' = << >>
  /\ popped' = << >>
  /\ UNCHANGED <<dag, queue, layers>>

(* topological_layers, and the depth that inspect reports.                 *)
StartLayers ==
  /\ purpose = "idle"
  /\ purpose' = "layers"
  /\ inDeg' = InDegrees(dag)
  /\ layers' = << >>
  /\ answer' = "none"
  /\ UNCHANGED <<dag, queue, popped>>

Layer == {i \in NodesOf(dag) : inDeg[i] = 0 /\ \A k \in DOMAIN layers : i \notin layers[k]}

(* Faulty variant: a node loses one parent per layer.                      *)
OneParent(layer, i) == IF \E p \in layer : i \in Elems(dag.children[p]) THEN 1 ELSE 0

ParentsPlaced(layer, i) == Cardinality({p \in layer : i \in Elems(dag.children[p])})

TakeLayer ==
  /\ purpose = "layers" /\ Layer # {}
  /\ inDeg' = [i \in DOMAIN inDeg |-> inDeg[i] - ParentsPlaced(Layer, i)]
  /\ layers' = Append(layers, Layer)
  /\ UNCHANGED <<dag, answer, purpose, queue, popped>>

(* Nodes that are left are not reported.                                   *)
EndLayers ==
  /\ purpose = "layers" /\ Layer = {}
  /\ purpose' = "idle" /\ answer' = "ok"
  /\ inDeg' = << >> /\ layers' = << >>
  /\ UNCHANGED <<dag, queue, popped>>

Next ==
  \/ \E name \in Name : AddNode(name)
  \/ \E from, to \in Ids \cup {BadId} : AddEdge(from, to)
  \/ \E from, to \in Name : AddEdgeByName(from, to)
  \/ \E keep \in SUBSET (Ids \cup {BadId}) : Induce(keep)
  \/ ReadBack(FromEdges(dag)) \/ ReadBack(FromJson(dag))
  \/ \E for \in {"validate", "sort"} : StartWalk(for)
  \/ Visit \/ EndWalk
  \/ StartLayers \/ TakeLayer \/ EndLayers

Spec == Init /\ [][Next]_vars
------------------------------------------------------------------------------
(* Half of the crate reads `children`, the other half `parents`: they      *)
(* describe the same edges, each once and none from a node to itself,      *)
(* whichever way the graph was built or cut down.                          *)
ListsMirror ==
  \A i, j \in NodesOf(dag) :
    /\ j \in Elems(dag.children[i]) <=> i \in Elems(dag.parents[j])
    /\ IsInjectiveSeq(dag.children[i])
    /\ IsInjectiveSeq(dag.parents[i])
    /\ i \notin Elems(dag.parents[i])

(* The walk's verdict is right: it ends in "ok" on acyclic graphs only,    *)
(* and on all of them, but for validate on the empty one; when topo_sort   *)
(* succeeds it has an order of the whole graph.                            *)
VerdictIsRight ==
  [][EndWalk =>
       LET pa == ParentsOf(dag)
       IN  /\ answer' = "ok" <=> Acyclic(pa) /\ (purpose = "sort" \/ dag.names # << >>)
           /\ answer' = "CycleDetected" <=> ~Acyclic(pa)
           /\ (purpose = "sort" /\ answer' = "ok") => IsTopologicalOrder(pa, popped)]_vars

WithParentIn(pa, S) == {i \in DOMAIN pa : pa[i] \cap S # {}}

(* The nodes that end a path of k edges.                                   *)
Deep(pa) ==
  LET deep[k \in 0..Cardinality(DOMAIN pa)] ==
        IF k = 0 THEN DOMAIN pa ELSE WithParentIn(pa, deep[k - 1])
  IN  deep

(* The layer of a node is the length of the longest path to it, so that    *)
(* the number of layers gives inspect's max_depth; what is silently left   *)
(* out is the nodes on a cycle or behind one.                              *)
LayersAreDepths ==
  [][EndLayers =>
       LET pa == ParentsOf(dag)
           deep == Deep(pa)
       IN  /\ \A k \in DOMAIN layers : layers[k] = deep[k - 1] \ deep[k]
           /\ UNION Elems(layers) = DOMAIN pa \ deep[Cardinality(DOMAIN pa)]]_vars

NamedEdges(d) ==
  {<<d.names[e[1]], d.names[e[2]]>> :
     e \in {e \in NodesOf(d) \X NodesOf(d) : e[1] \in Elems(d.parents[e[2]])}}

(* A subgraph has all the edges between the kept nodes, which stay in the  *)
(* order of the original and not of the request.                           *)
SubgraphKeepsEdges ==
  \A keep \in SUBSET NodesOf(dag) :
    Induce(keep) =>
      LET inside == {dag.names[i] : i \in keep}
      IN  /\ Elems(dag'.names) = inside
          /\ \A j, k \in NodesOf(dag') : j < k => IdOf(dag, dag'.names[j]) < IdOf(dag, dag'.names[k])
          /\ NamedEdges(dag') = {e \in NamedEdges(dag) : e[1] \in inside /\ e[2] \in inside}

(* A graph made from the edges has them all, and loses the nodes without.  *)
EdgesAreReadBack ==
  ReadBack(FromEdges(dag)) =>
    /\ NamedEdges(dag') = NamedEdges(dag)
    /\ Elems(dag'.names) = UNION {{e[1], e[2]} : e \in NamedEdges(dag)}

(* JSON also keeps every id, and the order of the child lists, on which    *)
(* the samplers depend.                                                    *)
JsonIsReadBack ==
  ReadBack(FromJson(dag)) =>
    /\ dag'.names = dag.names /\ dag'.children = dag.children
    /\ NamedEdges(dag') = NamedEdges(dag)

(* A copy has the edges it should have, by name, though nodes are numbered *)
(* anew.                                                                   *)
CopiesKeepEdges == [][SubgraphKeepsEdges /\ EdgesAreReadBack /\ JsonIsReadBack]_vars
==============================================================================
