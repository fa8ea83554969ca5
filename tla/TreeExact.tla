------------------------------- MODULE TreeExact ------------------------------
(***************************************************************************)
(* Exact values of a rooted directed tree: `exact_tree_with_config`        *)
(* (src/asv.rs), `estimate_tree_exact_cost` and `tree_exact_asv`           *)
(* (src/tree.rs).  For every node the sets that may come before it are     *)
(* listed -- its ancestors with an order ideal of every subtree hanging    *)
(* off the path to it -- and each is weighted by the hook length formula.  *)
(* Before that, the lengths of all these lists are computed in saturating  *)
(* arithmetic and compared with two budgets.                               *)
(*                                                                         *)
(* The weights are kept as integers, multiplied by n!; the code has them   *)
(* in logarithms.  MaxCount stands for 2^64 - 1 and MaxNodes for 64.       *)
(***************************************************************************)
EXTENDS ShapleyValue, RootedTrees

CONSTANTS
  InputGraphs,   (* graphs on 0..n-1, trees and others                     *)
  ValueFns,      (* functions on the coalitions to the integers            *)
  Configs,       (* [max_cartesian_terms, max_total_terms] records         *)
  MaxNodes,
  MaxCount

VARIABLES
  pa, v, config,   (* the arguments; they never change                     *)
  pc,              (* "start" "terms" "done"                               *)
  node,            (* the node whose value comes next                      *)
  phi, cache,
  calls,           (* history: calls of the value function                 *)
  result           (* "none" "ok" "InvalidGraph" "NotRootedTree"           *)
                   (* "BudgetExceeded" "InvalidConfig" "ValueError"        *)

args == <<pa, v, config>>
sums == <<node, phi, cache, calls>>
vars == <<args, pc, sums, result>>

Node == DOMAIN pa
n == Cardinality(Node)

Init ==
  /\ pa \in InputGraphs /\ v \in ValueFns /\ config \in Configs
  /\ pc = "start"
  /\ node = 0 /\ phi = [i \in Node |-> 0]
  /\ cache = {} /\ calls = 0
  /\ result = "none"

Return(r) == pc' = "done" /\ result' = r
------------------------------------------------------------------------------
(* estimate_tree_exact_cost, and its two budgets.                          *)
IsFeasible ==
  /\ MaxCartesianTerms(pa, MaxCount) <= config.max_cartesian_terms
  /\ EstimatedTotalTerms(pa, MaxCount) <= config.max_total_terms

(* validate, then the shape, then the preflight, then the bit mask limit.  *)
Verdict ==
  IF Node = {} \/ ~Acyclic(pa) THEN "InvalidGraph"
  ELSE IF ~IsRootedTree(pa) THEN "NotRootedTree"
  ELSE IF ~IsFeasible THEN "BudgetExceeded"
  ELSE IF n > MaxNodes THEN "InvalidConfig"
  ELSE "none"

Refuse ==
  /\ pc = "start" /\ Verdict # "none"
  /\ Return(Verdict)
  /\ UNCHANGED <<args, sums>>

Begin ==
  /\ pc = "start" /\ Verdict = "none"
  /\ pc' = "terms"
  /\ UNCHANGED <<args, sums, result>>

NotStored(U) == U \ cache

LookedUp(i) == LET pre == Elems(PreSets(pa, i)) IN pre \cup {S \cup {i} : S \in pre}

(* What the sets that may come before i add to its value, times n!.        *)
Contributions(i) ==
  LET pre == PreSets(pa, i)
  IN  SumFunction([x \in 1..Len(pre) |-> Weight(pa, pre[x], i) * (v[pre[x] \cup {i}] - v[pre[x]])])

AddNode ==
  /\ pc = "terms" /\ node < n
  /\ phi' = [phi EXCEPT ![node] = Contributions(node)]
  /\ LET asked == NotStored(LookedUp(node))
     IN  /\ calls' = calls + Cardinality(asked)
         /\ cache' = cache \cup asked
  /\ node' = node + 1
  /\ UNCHANGED <<args, pc, result>>

(* The value function raises at some coalition not met before.             *)
ValueFails ==
  /\ pc = "terms" /\ node < n
  /\ \E k \in 1..Cardinality(NotStored(LookedUp(node))) : calls' = calls + k
  /\ Return("ValueError")
  /\ UNCHANGED <<args, node, phi, cache>>

Finish ==
  /\ pc = "terms" /\ node = n
  /\ Return("ok")
  /\ UNCHANGED <<args, sums>>

Next == Refuse \/ Begin \/ AddNode \/ ValueFails \/ Finish

Spec == Init /\ [][Next]_vars
------------------------------------------------------------------------------
(* Exactness: phi is the average over all topological orders.              *)
ExactValues == result = "ok" => \A i \in Node : IsAverage(pa, v, i, phi[i], Factorial(n))

(* Every order ideal is evaluated, once.                                   *)
EvaluatedOnce == result = "ok" => cache = Ideals(pa) /\ calls = Cardinality(Ideals(pa))

(* A tree is refused exactly when its lists, if they were built, would be  *)
(* over one of the budgets, however far the count itself would go; a budget*)
(* of 2^64 - 1 is none.                                                    *)
IsOver(k, budget) == budget < MaxCount /\ k > budget
RefusalIsRight ==
  LET lengths == [i \in Node |-> Len(PreSets(pa, i))]
      isOver == \/ IsOver(Max({lengths[i] : i \in Node}), config.max_cartesian_terms)
                \/ IsOver(SumFunctionOnSet(lengths, Node), config.max_total_terms)
  IN  /\ result = "BudgetExceeded" => isOver
      /\ pc = "terms" => ~isOver
==============================================================================
