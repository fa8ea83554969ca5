---------------------------- MODULE MCExactMethods ----------------------------
EXTENDS ExactMethods

(* Graphs whose nodes are in a topological order already.                  *)
Ascending(n) == {g \in [0..(n - 1) -> SUBSET (0..(n - 1))] : \A i \in 0..(n - 1) : g[i] \subseteq 0..(i - 1)}

(* All graphs with up to two nodes, cyclic ones and the empty one too, all *)
(* acyclic ones with three, the ascending ones with four, a cycle, and one *)
(* graph and one cycle with five nodes, beyond the limit.                  *)
EnumerationGraphs ==
  UNION {ParentMaps(0..(n - 1)) : n \in 0..2} \cup Dags(0..2) \cup Ascending(4)
  \cup {[i \in 0..(n - 1) |-> {(i + 1) % n}] : n \in {4, 5}} \cup {[i \in 0..4 |-> {}]}

(* The same without the cycles on four; one with five nodes, beyond the    *)
(* limit.                                                                  *)
DenseGraphs ==
  UNION {ParentMaps(0..(n - 1)) : n \in 0..2} \cup Dags(0..2) \cup Ascending(4) \cup {[i \in 0..4 |-> {}]}

(* Four nodes: all graphs with at most eight ideals, the diamond and the   *)
(* path among them; the V with a free node, two chains, and one edge with  *)
(* two free nodes, with 10, 9 and 12 ideals and 8, 6 and 12 orders.  Then  *)
(* a cycle, and a path of five nodes, one too many.                        *)
Graph(a, b, c, d) == [i \in 0..3 |-> CASE i = 0 -> a [] i = 1 -> b [] i = 2 -> c [] OTHER -> d]
SparseGraphs ==
  {g \in Dags(0..3) : Cardinality(Ideals(g)) <= 8}
  \cup {Graph({}, {}, {0, 1}, {}), Graph({}, {0}, {}, {2}), Graph({}, {0}, {}, {}),
         Graph({1}, {0}, {}, {}), [i \in 0..4 |-> IF i = 0 THEN {} ELSE {i - 1}]}

(* All graphs with up to two nodes, those with three or four nodes where   *)
(* every node has at most one parent, and five nodes of which all but one  *)
(* have one parent; a path of six nodes, and a graph that is no forest.    *)
TreeGraphs ==
  {g \in UNION {ParentMaps(0..(k - 1)) : k \in 0..2}
         \cup {g \in ParentMaps(0..2) \cup ParentMaps(0..3) : \A i \in DOMAIN g : Cardinality(g[i]) <= 1}
         \cup {[i \in 0..4 |-> IF i = 0 THEN {} ELSE {p[i]}] : p \in [1..4 -> 0..3]}
         \cup {[i \in 0..5 |-> IF i = 0 THEN {} ELSE {i - 1}], [i \in 0..2 |-> 0..(i - 1)]} :
     \A i \in DOMAIN g : i \notin g[i]}

ByMethod(exact, dag, sparse, tree) ==
  [m \in AllMethods |-> CASE m = "exact" -> exact [] m = "exact_dag" -> dag
                          [] m = "exact_dag_sparse" -> sparse [] OTHER -> tree]
MCGraphs == ByMethod(EnumerationGraphs, DenseGraphs, SparseGraphs, TreeGraphs)

(* Not additive, and different for every node.                             *)
MCValueFns ==
  { [U \in SUBSET (0..5) |-> FoldSet(LAMBDA i, sum : sum + i + 1, 0, U) * Cardinality(U)
                               - IF {0, 2} \subseteq U THEN 7 ELSE 0] }
MCNaNSets == {{}, {{0}}, {{}, {0, 1}}, {{0, 1, 2}}}

(* exact_dag_sparse: room for 12, 9 and 5 entries.                         *)
MCConfigs ==
  ByMethod({}, {},
    [max_nodes : {5}, memory_limit_bytes : {960, 720, 479}]
      \cup [max_nodes : {3}, memory_limit_bytes : {960}],
    [max_cartesian_terms : {8}, max_total_terms : {30}]
      \cup [max_cartesian_terms : {4}, max_total_terms : {30}]
      \cup [max_cartesian_terms : {8}, max_total_terms : {12}]
      \cup [max_cartesian_terms : {31}, max_total_terms : {30, 31}])

(* Four nodes without an edge have 24 orders, which fit exact_dag; the     *)
(* graphs of exact_dag_sparse have up to 12, of which more than 7 do not.  *)
MCMaxCount == ByMethod(1, 24, 7, 31)
MCMaxNodes == ByMethod(4, 4, 4, 5)
==============================================================================
