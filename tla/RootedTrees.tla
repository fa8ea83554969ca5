------------------------------ MODULE RootedTrees ----------------------------
(***************************************************************************)
(* What `tree_exact_asv` and `estimate_tree_exact_cost` (src/tree.rs) work *)
(* with: the lists of the order ideals of a rooted tree, the sets that may *)
(* come before a node, the weight the hook length formula gives each, and  *)
(* the lengths of all these lists, computed in saturating arithmetic       *)
(* without building one.  max stands for 2^64 - 1.                         *)
(***************************************************************************)
EXTENDS CausalGraph, SortedNumbers, FiniteSetsExt, Functions, Integers

(* Over a list and over a set of numbers.                                  *)
Times(s) == LET f[k \in 0..Len(s)] == IF k = 0 THEN 1 ELSE f[k - 1] * s[k] IN f[Len(s)]
ProductOver(f, U) == FoldFunctionOnSet(LAMBDA x, y : x * y, 1, f, U)

Factorial(m) == Times([k \in 1..m |-> k])
------------------------------------------------------------------------------
(* find_rooted_tree_root.                                                  *)
Roots(p) == {i \in DOMAIN p : p[i] = {}}
IsRootedTree(p) ==
  /\ Cardinality(Roots(p)) = 1
  /\ \A i \in DOMAIN p \ Roots(p) : Cardinality(p[i]) = 1
Root(p) == CHOOSE i \in Roots(p) : TRUE
Parent(p, i) == CHOOSE j \in p[i] : TRUE

(* children_raw, in the order the edges were added: here by id.            *)
Kids(p, i) == Ascending(Children(p, i))

(* cartesian_product_vecs: one member of every group, joined.              *)
Joined(left, right) ==
  [x \in 1..(Len(left) * Len(right)) |->
     left[((x - 1) \div Len(right)) + 1] \cup right[((x - 1) % Len(right)) + 1]]
Product(groups) ==
  LET f[k \in 0..Len(groups)] == IF k = 0 THEN << {} >> ELSE Joined(f[k - 1], groups[k])
  IN  f[Len(groups)]

(* tree_ideals: the order ideals of the subtree below a node.              *)
TreeIdeals(p) ==
  LET f[r \in DOMAIN p] ==
        LET kids == Kids(p, r)
            combos == Product([k \in 1..Len(kids) |-> f[kids[k]]])
        IN  [x \in 1..(Len(combos) + 1) |-> IF x = 1 THEN {} ELSE combos[x - 1] \cup {r}]
  IN  f
EnumerateOrderIdeals(p, roots) == Product([k \in 1..Len(roots) |-> TreeIdeals(p)[roots[k]]])

(* find_path: the path from the root to a node.                            *)
Path(p) ==
  LET f[i \in DOMAIN p] == IF i = Root(p) THEN << i >> ELSE Append(f[Parent(p, i)], i)
  IN  f

AncestorsOf(p, i) == [k \in 1..(Len(Path(p)[i]) - 1) |-> Path(p)[i][k]]

(* The children, of the k-th node on the path to i, that are not on it.    *)
Side(p, i, k) == Ascending(Children(p, Path(p)[i][k]) \ {Path(p)[i][k + 1]})

Levels(p, i) == [k \in 1..(Len(Path(p)[i]) - 1) |-> EnumerateOrderIdeals(p, Side(p, i, k))]

(* The sets that may come before i, as a list.                             *)
PreSets(p, i) ==
  LET combos == Product(Levels(p, i))
  IN  [x \in 1..Len(combos) |-> combos[x] \cup Elems(AncestorsOf(p, i))]
------------------------------------------------------------------------------
(* The nodes of the subtree below i, i included.                           *)
Below(p, i) == {j \in DOMAIN p : i \in Elems(Path(p)[j])}

(* Faulty variant: the sizes are those of the whole tree.                  *)
WholeSize(p, U, i) == Cardinality(Below(p, i))
SizeIn(p, U, i) == Cardinality(Below(p, i) \cap U)

(* log_lin_ext_of_s: the orders of the tree cut down to U.                 *)
LinExt(p, U) == Factorial(Cardinality(U)) \div ProductOver([j \in U |-> SizeIn(p, U, j)], U)

(* w, times n!.                                                            *)
Weight(p, U, i) ==
  LinExt(p, U) * Factorial(Cardinality(DOMAIN p) - Cardinality(U) - 1)
    * ProductOver([j \in U \cup {i} |-> Cardinality(Below(p, j))], U \cup {i})
------------------------------------------------------------------------------
(* Faulty variant: u64 arithmetic that wraps.                              *)
Wrapped(max, a) == a % (max + 1)

Saturated(max, a) == IF a > max THEN max ELSE a
SaturatingMul(max, a, b) == Saturated(max, a * b)
SaturatingAdd(max, a, b) == Saturated(max, a + b)
SaturatingTimes(max, s) ==
  LET f[k \in 0..Len(s)] == IF k = 0 THEN 1 ELSE SaturatingMul(max, f[k - 1], s[k])
  IN  f[Len(s)]

SaturatingSum(max, f, U) ==
  FoldFunctionOnSet(LAMBDA x, y : SaturatingAdd(max, x, y), 0, f, U)

(* subtree_ideal_counts                                                    *)
IdealCounts(p, max) ==
  LET f[r \in DOMAIN p] ==
        LET kids == Kids(p, r)
        IN  SaturatingAdd(max, 1, SaturatingTimes(max, [k \in 1..Len(kids) |-> f[kids[k]]]))
  IN  f

(* What accumulate_cost multiplies in where it descends to i.              *)
SideProduct(p, max, i) ==
  LET siblings == Ascending(Children(p, Parent(p, i)) \ {i})
  IN  SaturatingTimes(max, [k \in 1..Len(siblings) |-> IdealCounts(p, max)[siblings[k]]])

(* accumulate_cost: the number of sets listed for each node.               *)
RunningProduct(p, max) ==
  LET f[i \in DOMAIN p] ==
        IF i = Root(p) THEN 1 ELSE SaturatingMul(max, f[Parent(p, i)], SideProduct(p, max, i))
  IN  f

MaxCartesianTerms(p, max) == Max({RunningProduct(p, max)[i] : i \in DOMAIN p})
EstimatedTotalTerms(p, max) == SaturatingSum(max, RunningProduct(p, max), DOMAIN p)
==============================================================================
