---------------------------- MODULE ShapleyValue ------------------------------
(***************************************************************************)
(* What an exact method promises: the asymmetric Shapley value of a node   *)
(* is the average, over all topological orders, of what the node adds to   *)
(* the value of the nodes before it.  This is how `AsvExplainer::exact`    *)
(* (src/asv.rs) computes it, and what the faster methods are held to.      *)
(***************************************************************************)
EXTENDS CausalGraph, Functions, Integers

Position(s, i) == CHOOSE k \in 1..Len(s) : s[k] = i

(* v(S \cup {i}) - v(S) for the nodes S before i in the order s.           *)
Contribution(v, s, i) == v[Prefix(s, Position(s, i))] - v[Prefix(s, Position(s, i) - 1)]

(* phi[i] / scale is the average contribution of i, without dividing.      *)
IsAverage(pa, v, i, sum, scale) ==
  LET orders == TopologicalOrders(pa)
  IN  sum * Cardinality(orders)
        = scale * SumFunction([s \in orders |-> Contribution(v, s, i)])
==============================================================================
