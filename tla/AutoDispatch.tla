----------------------------- MODULE AutoDispatch -----------------------------
(***************************************************************************)
(* `AsvExplainer::auto` and `AsvExplainer::auto_quality` (src/asv.rs): the *)
(* choice of a method from the size and the shape of the graph, and the    *)
(* fallback to another when the chosen one refuses.                        *)
(*                                                                         *)
(* A graph is the facts the dispatch depends on: its number of nodes and   *)
(* of order ideals, whether it is a rooted tree and a cheap enough one for *)
(* exact_tree, and whether its number of topological orders overflows a    *)
(* u64.  A method is its outcome on such a graph, as its own code decides  *)
(* it (SparseDp and ImportanceSampling look inside).                       *)
(***************************************************************************)
EXTENDS Naturals, FiniteSets

CONSTANTS
  Graphs,     (* [n, ideals, tree, cheap_tree, overflow] records           *)
  Raises      (* kinds of error the caller's value function may return     *)

(* The kinds of error. A method has the first three for its refusals, but  *)
(* a value function may return any (src/asv.rs 413-416); the last one      *)
(* stands for every kind that no arm of the dispatch names, as is that of  *)
(* a Python callable's exceptions.                                         *)
Errors == {"InvalidConfig", "Overflow", "ExactTreeBudgetExceeded", "ValueFunctionError"}

SparsePreflightBudget == 250000
MemoryLimitBytes == 2147483647    (* 2 GiB, less one for the checker's int  *)
StateBudget == MemoryLimitBytes \div 80

ASSUME GraphsAssumption ==
  /\ Graphs \subseteq [n : Nat, ideals : Nat, tree : BOOLEAN, cheap_tree : BOOLEAN,
                      overflow : BOOLEAN]
  /\ \A a \in Graphs : a.n > 0 /\ a.ideals > a.n /\ (~a.cheap_tree => a.n > 8)

ASSUME RaisesAssumption == Raises \subseteq Errors

VARIABLES
  gr, quality, bad_config, (* the graph; auto_quality or auto; whether the *)
                           (* sampling configuration is an invalid one      *)
  method,                  (* the method being run, "none" before          *)
  tree_reason,             (* why exact_tree refused                       *)
  refused,                 (* history: methods that refused, or were found *)
                           (* out of reach by a preflight                  *)
  raised,                  (* history: the errors of the value function a  *)
                           (* method met, [by, error] records              *)
  fallback_from,           (* as in the explanation returned               *)
  fallback_reason,         (* what it says: a set of claims                *)
  result                   (* "none", "ok" or the error returned           *)

dispatchVars ==
  <<gr, quality, bad_config, method, tree_reason, refused, raised, fallback_from, fallback_reason,
    result>>
args == <<gr, quality, bad_config>>

DispatchInit ==
  /\ gr \in Graphs /\ quality \in BOOLEAN /\ bad_config \in BOOLEAN
  /\ method = "none" /\ tree_reason = "none"
  /\ refused = {} /\ raised = {}
  /\ fallback_from = "none" /\ fallback_reason = {}
  /\ result = "none"

------------------------------------------------------------------------------
(* What the methods do *)

Feasible(state_budget) == gr.ideals <= state_budget

(* Faulty variant: the default limit for every graph.                      *)
DefaultMaxNodes == 28

(* The elevated limit max_nodes = n is given above 28 nodes, and to trees. *)
MaxNodes == IF gr.tree \/ gr.n > 28 THEN gr.n ELSE 28

(* Errors a method returns before it asks for any value.  The memo of the  *)
(* uniform sampler has one entry less than there are ideals.               *)
RefusalsOf(m) ==
  CASE m = "exact_tree" ->
         IF ~gr.cheap_tree THEN {"ExactTreeBudgetExceeded"}
         ELSE IF gr.n > 64 THEN {"InvalidConfig"} ELSE {}
    [] m = "exact_dag_sparse" ->
         (IF gr.n > MaxNodes \/ gr.n > 63 \/ ~Feasible(StateBudget)
            THEN {"InvalidConfig"} ELSE {})
         \cup (IF gr.overflow THEN {"Overflow"} ELSE {})
    [] m = "uniform_sparse_adaptive" ->
         IF gr.n > 63 \/ bad_config THEN {"InvalidConfig"}
         ELSE IF gr.overflow \/ ~Feasible(StateBudget + 1) THEN {"Overflow"} ELSE {}
    [] m = "exact_dag" -> IF gr.n > 20 THEN {"InvalidConfig"} ELSE {}
    [] m = "exact" -> IF gr.n > 64 THEN {"InvalidConfig"} ELSE {}
    [] OTHER -> IF bad_config THEN {"InvalidConfig"} ELSE {}

(* What running m may come to. Once values are wanted, the value function  *)
(* may answer with an error, and the method hands it on: what comes out is *)
(* the same as if the method itself had refused.                           *)
Outcomes(m) == IF RefusalsOf(m) # {} THEN RefusalsOf(m) ELSE {"ok"} \cup Raises
FromValueFn(m) == RefusalsOf(m) = {}

ImportanceSampler == IF quality THEN "approx_adaptive" ELSE "approx"

------------------------------------------------------------------------------
(* The dispatch *)

Start(m) == method' = m /\ UNCHANGED <<fallback_from, fallback_reason>>
FallBack(m, f, why) == method' = m /\ fallback_from' = f /\ fallback_reason' = why

(* Faulty variant: the budget of large graphs from 21 nodes on.            *)
SmallBudget(n) == IF n <= 20 THEN 2^(n - 1) ELSE SparsePreflightBudget

(* The preflight of exact_dag_sparse, by number of nodes.                  *)
PreflightBudget(n) ==
  IF n <= 20 THEN 2^(n - 1)
  ELSE IF n <= 28 /\ ~quality THEN StateBudget ELSE SparsePreflightBudget

(* What takes the place of exact_dag_sparse when the preflight rejects it. *)
WithoutSparse ==
  CASE gr.n <= 20                     -> Start("exact_dag")
    [] gr.n > 20 /\ quality           -> Start("uniform_sparse_adaptive")
    [] gr.n \in 21..28 /\ ~quality    -> FallBack("approx", "exact_dag_sparse", {"state_budget"})
    [] OTHER                          -> Start("approx")

Choose ==
  /\ result = "none" /\ method = "none"
  /\ CASE gr.n <= 8  -> Start("exact")
       [] gr.n > 8 /\ gr.tree -> Start("exact_tree")
       [] gr.n \in 9..63 /\ ~gr.tree ->
            IF Feasible(PreflightBudget(gr.n)) THEN Start("exact_dag_sparse") ELSE WithoutSparse
       [] OTHER -> Start(ImportanceSampler)
  /\ refused' = IF gr.n \in 9..63 /\ ~gr.tree /\ ~Feasible(PreflightBudget(gr.n))
                  THEN {"exact_dag_sparse"} ELSE {}
  /\ UNCHANGED <<args, tree_reason, raised, result>>

(* Faulty variant: only a refused configuration leads on.                  *)
OnlyInvalid == {"InvalidConfig"}
(* Faulty variant: any error of the sparse search leads on.                *)
AnyError == {"InvalidConfig", "Overflow", "ValueFunctionError"}
Recoverable == {"InvalidConfig", "Overflow"}

(* An answer of the running method.                                        *)
Answer(outcome) ==
  /\ result = "none"
  /\ outcome \in Outcomes(method)
  /\ raised' = raised \cup IF FromValueFn(method) /\ outcome # "ok"
                            THEN {[by |-> method, error |-> outcome]} ELSE {}

(* The running method, if it is the method itself that refuses.            *)
Refuser == IF FromValueFn(method) THEN {} ELSE {method}

(* Faulty variant: the cause is guessed from the size.                     *)
ReasonBySize(outcome) == IF gr.n > 64 THEN "bitmask" ELSE "shape"
TreeReason(outcome) == IF outcome = "InvalidConfig" THEN "bitmask" ELSE "shape"

(* Appended up to 63 nodes: "; exact_dag_sparse also infeasible for this   *)
(* DAG".                                                                   *)
SparseToo == IF gr.n <= 63 THEN {"sparse_infeasible"} ELSE {}

TreeRefuses(outcome) ==
  /\ method = "exact_tree"
  /\ Answer(outcome)
  /\ outcome \in {"ExactTreeBudgetExceeded", "InvalidConfig"}
  /\ tree_reason' = TreeReason(outcome)
  /\ IF gr.n <= 63 /\ Feasible(SparsePreflightBudget)
       THEN /\ FallBack("exact_dag_sparse", "exact_tree", {tree_reason'})
            /\ refused' = refused \cup Refuser
       ELSE /\ FallBack(ImportanceSampler, "exact_tree", {tree_reason'} \cup SparseToo)
            /\ refused' = refused \cup Refuser
                            \cup IF gr.n <= 63 THEN {"exact_dag_sparse"} ELSE {}
  /\ UNCHANGED <<args, result>>

SparseRefuses(outcome) ==
  /\ method = "exact_dag_sparse"
  /\ Answer(outcome)
  /\ outcome \in Recoverable
  /\ refused' = refused \cup Refuser
  /\ CASE gr.tree ->
            FallBack(ImportanceSampler, "exact_tree", {tree_reason} \cup SparseToo)
       [] ~gr.tree /\ gr.n <= 20 -> Start("exact_dag")
       [] ~gr.tree /\ gr.n > 20 /\ quality ->
            FallBack("uniform_sparse_adaptive", "exact_dag_sparse", {"sparse_message"})
       [] OTHER -> FallBack("approx", "exact_dag_sparse", {"sparse_message"})
  /\ UNCHANGED <<args, tree_reason, result>>

(* The uniform sampler's message is reported even where the explanation    *)
(* names exact_dag_sparse as the method given up (src/asv.rs 735-740).     *)
UniformRefuses(outcome) ==
  /\ method = "uniform_sparse_adaptive"
  /\ Answer(outcome)
  /\ outcome = "Overflow"
  /\ refused' = refused \cup Refuser
  /\ LET from == IF fallback_from = "exact_dag_sparse" THEN fallback_from
                                                       ELSE "uniform_sparse_adaptive"
     IN  FallBack("approx_adaptive", from, {"uniform_message"})
  /\ UNCHANGED <<args, tree_reason, result>>

(* Everything else goes back to the caller.                                *)
Return(outcome) ==
  /\ method # "none"
  /\ Answer(outcome)
  /\ ~(method = "exact_tree" /\ outcome \in {"ExactTreeBudgetExceeded", "InvalidConfig"})
  /\ ~(method = "exact_dag_sparse" /\ outcome \in Recoverable)
  /\ ~(method = "uniform_sparse_adaptive" /\ outcome = "Overflow")
  /\ result' = outcome
  /\ UNCHANGED <<args, method, tree_reason, refused, fallback_from, fallback_reason>>

DispatchNext ==
  \/ Choose
  \/ \E outcome \in Errors \cup {"ok"} :
       \/ TreeRefuses(outcome) \/ SparseRefuses(outcome) \/ UniformRefuses(outcome)
       \/ Return(outcome)

DispatchSpec == DispatchInit /\ [][DispatchNext]_dispatchVars

------------------------------------------------------------------------------
(* Properties *)

Approximate == {"approx", "approx_adaptive", "uniform_sparse_adaptive"}

(* The kinds of error that a method itself refuses with and the dispatch   *)
(* goes on from, which the value function may return as well.              *)
LooksLikeRefusal(x) ==
  \/ x.by = "exact_tree" /\ x.error \in {"InvalidConfig", "ExactTreeBudgetExceeded"}
  \/ x.by = "exact_dag_sparse" /\ x.error \in {"InvalidConfig", "Overflow"}
  \/ x.by = "uniform_sparse_adaptive" /\ x.error = "Overflow"

(* The methods given up though it was the value function that failed.      *)
Mistaken == {x.by : x \in {y \in raised : LooksLikeRefusal(y)}}
PassedOver == refused \cup Mistaken

(* Whatever a method refuses, some method answers: a call with a valid     *)
(* configuration fails only with the error that the value function         *)
(* returned to the method it ended with (src/asv.rs 413-596, 613-767).     *)
AlwaysAnswers ==
  result \notin {"none", "ok"} /\ ~bad_config => [by |-> method, error |-> result] \in raised

(* A graph that auto gives no exact method it has a budget for.            *)
OverBudget ==
  \/ gr.n > 64 \/ (gr.n = 64 /\ ~(gr.tree /\ gr.cheap_tree))
  \/ /\ gr.tree /\ ~gr.cheap_tree
     /\ gr.overflow \/ gr.ideals > SparsePreflightBudget
  \/ /\ ~gr.tree /\ gr.n > 20
     /\ gr.overflow \/ gr.ideals > (IF gr.n <= 28 /\ ~quality THEN StateBudget
                                                             ELSE SparsePreflightBudget)

(* Unless an error of the value function was mistaken for a refusal, an    *)
(* answer is approximate exactly for the graphs over auto's budgets. Up to *)
(* 20 nodes a graph that is no tree is never one of them: exact_dag takes  *)
(* it. A tree is never given to exact_dag: one that costs exact_tree too   *)
(* much and has over 250,000 ideals is sampled, at 19 and 20 nodes too,    *)
(* where exact_dag would answer (src/asv.rs 464-494, 646-680).             *)
SampledIffOverBudget ==
  result = "ok" /\ raised = {} => (method \in Approximate <=> OverBudget)

(* exact_dag_sparse is only started where neither its node limit nor its   *)
(* memory guard will stop it: "the identical accept/reject decision"       *)
(* (src/asv.rs 525-530).                                                   *)
PreflightMatchesGuard ==
  method = "exact_dag_sparse" => "InvalidConfig" \notin RefusalsOf("exact_dag_sparse")

(* What fallback_from and fallback_reason report is what happened. The     *)
(* method named was given up, and the one that answered did not refuse. A  *)
(* tree is said to exceed the bitmask, or to have too costly a shape, only *)
(* if that is what stopped exact_tree (a tree can be both, and the shape   *)
(* is tested first) or if the value function failed with the error that    *)
(* says so; exact_dag_sparse is said to be infeasible, or a method's       *)
(* message is quoted, only if that method was given up (src/asv.rs         *)
(* 424-494, 504-575, 719-757).                                             *)
FallbackIsTrue ==
  /\ fallback_from # "none" => fallback_from \in PassedOver
  /\ result = "ok" => method \notin refused
  /\ "bitmask" \in fallback_reason =>
       (gr.n > 64 /\ gr.cheap_tree) \/ [by |-> "exact_tree", error |-> "InvalidConfig"] \in raised
  /\ "shape" \in fallback_reason =>
       ~gr.cheap_tree \/ [by |-> "exact_tree", error |-> "ExactTreeBudgetExceeded"] \in raised
  /\ fallback_reason \cap {"sparse_infeasible", "sparse_message"} # {} =>
       "exact_dag_sparse" \in PassedOver
  /\ "uniform_message" \in fallback_reason => "uniform_sparse_adaptive" \in PassedOver
  /\ "state_budget" \in fallback_reason => ~Feasible(StateBudget)

(* An error of the value function ends the call and is returned unchanged  *)
(* (the `Err(e) => return Err(e)` arms), except those of a kind that the   *)
(* method it reached refuses with: they are all taken for refusals, and    *)
(* another method runs (src/asv.rs 442-450, 478, 517, 552, 735).           *)
PropagatesUnlessMistaken ==
  \A x \in raised : IF LooksLikeRefusal(x) THEN x.by # method
                                           ELSE x.by = method /\ x.error = result
==============================================================================
