----------------------------- MODULE OrderCounts -----------------------------
(***************************************************************************)
(* The counts of topological orders that the exact methods and the uniform *)
(* samplers share: `compute_dp_ind` (src/dag_dp.rs), a table over all      *)
(* subsets, and `dp_ind_lazy` (src/dag_dp_sparse.rs), a memoised recursion.*)
(***************************************************************************)
EXTENDS CausalGraph, FiniteSetsExt, Functions

(* The nodes of T without a parent in T: where an order of T may start.    *)
SourcesIn(pa, T) == {i \in T : pa[i] \cap T = {}}

(* The number of orders of the graph induced by T, for every T.  Both      *)
(* codes follow this recurrence, one from below and one from above.        *)
OrdersOf(pa) ==
  LET count[T \in SUBSET DOMAIN pa] ==
        IF T = {} THEN 1
        ELSE SumFunction([i \in SourcesIn(pa, T) |-> count[T \ {i}]])
  IN  [T \in SUBSET DOMAIN pa |-> count[T]]

(* What is left of T after an initial part of it: where the recursion of   *)
(* dp_ind_lazy(T) goes; it keeps nothing for the empty set.                *)
VisitedFrom(pa, T) ==
  {T \ S : S \in {S \in SUBSET T : S # T /\ \A i \in S : pa[i] \cap T \subseteq S}}

(* A set of counts, `known` so far, after dp_ind_lazy(T).                  *)
Remember(pa, known, T) ==
  LET orders == OrdersOf(pa)
  IN  [U \in VisitedFrom(pa, T) \cup DOMAIN known |-> orders[U]]

(* dp_ind_lazy(T) meets a count that a u64 cannot hold.                    *)
CountOverflows(pa, known, T, max) ==
  LET orders == OrdersOf(pa)
  IN  \E U \in VisitedFrom(pa, T) \ DOMAIN known : orders[U] > max
==============================================================================
