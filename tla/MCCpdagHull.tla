----------------------------- MODULE MCCpdagHull -----------------------------
EXTENDS CpdagHull

CONSTANT DagNodes

(* Every DAG with nodes numbered along some topological order.             *)
NumberedDags ==
  {<< >> \o [i \in 1..DagNodes |-> {j \in 1..i - 1 : <<j, i>> \in edges}] :
     edges \in SUBSET {e \in (1..DagNodes) \X (1..DagNodes) : e[1] < e[2]}}

Symmetry == Permutations(Name)
==============================================================================
