---- MODULE MCAutoDispatch ----
EXTENDS AutoDispatch

(* Sizes on both sides of every threshold of the dispatch, and for each    *)
(* the numbers of ideals on both sides of every budget that applies.       *)
Sizes == {1, 8, 9, 20, 21, 28, 29, 63, 64, 65}

IdealCounts(n) ==
  LET thresholds == {250000, 250001, StateBudget, StateBudget + 1, StateBudget + 2}
      ofSize == IF n <= 28 THEN {n + 1, 2^n, 2^(n - 1), 2^(n - 1) + 1} ELSE {n + 1, 2^28}
  IN  {k \in ofSize \cup thresholds : k > n /\ (n > 28 \/ k <= 2^n)}

(* A tree has at most 2^(n-1) + 1 ideals, and one too costly for           *)
(* exact_tree at least 16 nodes; 2^64 orders take 21 nodes without an edge *)
(* or, from 28 nodes on, no more than 250,000 ideals.                      *)
MCGraphs ==
  {a \in UNION {[n : {n}, ideals : IdealCounts(n), tree : BOOLEAN,
                 cheap_tree : BOOLEAN, overflow : BOOLEAN] : n \in Sizes} :
     /\ a.tree /\ a.n <= 28 => a.ideals <= 2^(a.n - 1) + 1
     /\ ~a.cheap_tree => a.tree /\ a.n >= 16 /\ a.ideals >= 250000
     /\ a.overflow => \/ a.n = 21 /\ a.ideals = 2^21
                      \/ a.n \in 28..63 /\ a.ideals >= 250000}
====
