--------------------------------- MODULE Cpdag --------------------------------
(***************************************************************************)
(* Partially directed graphs, `Cpdag` (src/cpdag.rs): nodes and edges are  *)
(* added by the caller, a subgraph may take the place of the graph, and    *)
(* `consistent_extension` orients what is undirected by peeling off one    *)
(* sink after the other, always the one with the smallest id.              *)
(*                                                                         *)
(* The adjacency lists hold no duplicates; they are sets of pairs here, an *)
(* undirected edge being entered at both ends.                             *)
(***************************************************************************)
EXTENDS CausalGraph, Integers, FiniteSetsExt, SequencesExt

CONSTANT Name   (* a finite set: it bounds the number of nodes             *)

VARIABLES
  names,        (* names, by id                                            *)
  directed,     (* <<i, j>> for an edge from i to j                        *)
  undirected,
  pc,           (* "build" "peel" "done"                                   *)
  active,       (* in consistent_extension: nodes not yet peeled off       *)
  remaining,    (* remaining_undirected                                    *)
  oriented,     (* the edges of the extension, a vector                    *)
  result        (* "none" "ok" or an error.  CycleDetected is              *)
                (* "DirectedCycle" if validate_pdag finds the cycle and    *)
                (* "CycleDetected" if the closing validate does            *)

graph == <<names, directed, undirected>>
work == <<active, remaining, oriented>>
vars == <<graph, pc, work, result>>

Node == 1..Len(names)

Init ==
  /\ names = << >> /\ directed = {} /\ undirected = {}
  /\ pc = "build"
  /\ active = {} /\ remaining = {} /\ oriented = << >>
  /\ result = "none"

BothWays(a, b) == {<<a, b>>, <<b, a>>}
Adjacent(a, b) == BothWays(a, b) \cap (directed \cup undirected) # {}
------------------------------------------------------------------------------
(* A name that is there already keeps its id and nothing changes.          *)
AddNode(name) ==
  /\ pc = "build"
  /\ name \notin Elems(names)
  /\ names' = Append(names, name)
  /\ UNCHANGED <<directed, undirected, pc, work, result>>

(* No edge yet between the two, of whatever kind and direction: otherwise  *)
(* DuplicateEdge or ConflictingEdge.                                       *)
IsFree(a, b) == ~Adjacent(a, b)

AddDirectedEdge(a, b) ==
  /\ pc = "build"
  /\ a # b /\ IsFree(a, b)
  /\ directed' = directed \cup {<<a, b>>}
  /\ UNCHANGED <<names, undirected, pc, work, result>>

AddUndirectedEdge(a, b) ==
  /\ pc = "build"
  /\ a # b /\ IsFree(a, b)
  /\ undirected' = undirected \cup BothWays(a, b)
  /\ UNCHANGED <<names, directed, pc, work, result>>

(* The id of a node that is kept: nodes are added again in id order.       *)
NewId(keep, i) == Cardinality({j \in keep : j <= i})

InIdOrder(keep) == SetToSortSeq(keep, LAMBDA i, j : i < j)

(* induced_subgraph, whose result is used from here on.                    *)
Induce(keep) ==
  /\ pc = "build"
  /\ LET Inner(edges) ==
           {<<NewId(keep, e[1]), NewId(keep, e[2])>> : e \in {e \in edges : {e[1], e[2]} \subseteq keep}}
     IN  /\ names' = [k \in 1..Cardinality(keep) |-> names[InIdOrder(keep)[k]]]
         /\ directed' = Inner(directed)
         /\ undirected' = Inner(undirected)
  /\ UNCHANGED <<pc, work, result>>
------------------------------------------------------------------------------
ParentsIn(edges) == [i \in Node |-> {w \in Node : <<w, i>> \in edges}]

Return(r) == pc' = "done" /\ result' = r

ExtendNothing ==
  /\ pc = "build" /\ Node = {}
  /\ Return("EmptyGraph")
  /\ UNCHANGED <<graph, work>>

(* validate_cpdag starts with validate_pdag, which refuses a directed      *)
(* cycle; the rest of it is consistent_extension.                          *)
RefuseCycle ==
  /\ pc = "build" /\ Node # {}
  /\ ~Acyclic(ParentsIn(directed))
  /\ Return("DirectedCycle")
  /\ UNCHANGED <<graph, work>>

BeginExtension ==
  /\ pc = "build" /\ Node # {}
  /\ active' = Node
  /\ remaining' = undirected
  /\ oriented' = SetToSeq(directed)
  /\ pc' = "peel"
  /\ UNCHANGED <<graph, result>>

Unoriented(i) == {w \in Node : <<i, w>> \in remaining}
ActiveParents(i) == {w \in active : <<w, i>> \in directed}

IsSink(i) == \A w \in active : <<i, w>> \notin directed

(* Faulty variant: only the undirected neighbours have to be adjacent.     *)
UndirectedClique(i) == \A w, y \in Unoriented(i) : w # y => Adjacent(w, y)

(* Orienting the edges at i towards it makes no new v-structure: whoever   *)
(* gets a new edge to i is adjacent to all other neighbours of i.          *)
MakesNoCollider(i) ==
  \A w \in Unoriented(i) : \A y \in (ActiveParents(i) \cup Unoriented(i)) \ {w} : Adjacent(w, y)

(* find_extension_candidate                                                *)
Candidates == {i \in active : IsSink(i) /\ MakesNoCollider(i)}

Stuck ==
  /\ pc = "peel" /\ active # {} /\ Candidates = {}
  /\ Return("NotExtendable")
  /\ UNCHANGED <<graph, work>>

(* Faulty variant: the edges stay undirected for the others.               *)
StillThere(i) == remaining

WithoutNode(i) == {e \in remaining : i \notin {e[1], e[2]}}
Inwards(w, i) == <<w, i>>

Peel ==
  /\ pc = "peel" /\ Candidates # {}
  /\ LET i == Min(Candidates)
     IN  /\ oriented' = oriented \o SetToSeq({Inwards(w, i) : w \in Unoriented(i) \cap active})
         /\ remaining' = WithoutNode(i)
         /\ active' = active \ {i}
  /\ UNCHANGED <<graph, pc, result>>

(* The oriented edges are added to a new Dag, which is then validated.     *)
Build ==
  /\ pc = "peel" /\ active = {}
  /\ Return(IF ~IsInjectiveSeq(oriented) THEN "DuplicateEdge"
            ELSE IF ~Acyclic(ParentsIn(Elems(oriented))) THEN "CycleDetected"
            ELSE "ok")
  /\ UNCHANGED <<graph, work>>

Next ==
  \/ \E name \in Name : AddNode(name)
  \/ \E a, b \in Node : AddDirectedEdge(a, b) \/ AddUndirectedEdge(a, b)
  \/ \E keep \in SUBSET Node : Induce(keep)
  \/ ExtendNothing \/ RefuseCycle \/ BeginExtension \/ Stuck \/ Peel \/ Build

Spec == Init /\ [][Next]_vars
------------------------------------------------------------------------------
(* a -> c <- b with a and b not adjacent.                                  *)
Colliders(edges) ==
  {t \in Node \X Node \X Node :
     /\ <<t[1], t[3]>> \in edges /\ <<t[2], t[3]>> \in edges
     /\ t[1] # t[2] /\ ~Adjacent(t[1], t[2])}

(* A consistent extension: one direction for every undirected edge, no     *)
(* cycle, and no collider that is not in the graph itself.                 *)
IsExtension(edges) ==
  /\ directed \subseteq edges /\ edges \subseteq directed \cup undirected
  /\ \A e \in undirected : (e \in edges) # (<<e[2], e[1]>> \in edges)
  /\ Acyclic(ParentsIn(edges))
  /\ Colliders(edges) = Colliders(directed)

(* Once every node is peeled off, adding the edges to a new Dag and        *)
(* validating it never fails, and the Dag is a consistent extension.       *)
ExtensionIsConsistent ==
  /\ result \notin {"DuplicateEdge", "CycleDetected"}
  /\ result = "ok" => IsExtension(Elems(oriented))

(* The graph is refused only if it has no consistent extension at all: the *)
(* greedy choice of sinks never spoils it.                                 *)
RefusalIsRight ==
  result \in {"NotExtendable", "DirectedCycle"} =>
    \A some \in SUBSET undirected : ~IsExtension(directed \cup some)
==============================================================================
