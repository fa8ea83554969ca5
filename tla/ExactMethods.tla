----------------------------- MODULE ExactMethods -----------------------------
(***************************************************************************)
(* The exact methods of `AsvExplainer` (src/asv.rs), side by side:         *)
(* `exact` (Enumeration), `exact_dag` (DenseDp), `exact_dag_sparse`        *)
(* (SparseDp) and `exact_tree` (TreeExact).  A caller calls one of them;   *)
(* all four are held to the same promises -- the average over all          *)
(* topological orders, one evaluation of every coalition, no refusal that  *)
(* is not justified or comes after costly calls of the value function --   *)
(* which is what lets `auto` (AutoDispatch) put one in another's place.    *)
(*                                                                         *)
(* The integers of the code are the same for all methods; MaxCount and     *)
(* MaxNodes are given by method, so that each meets its limit on graphs of *)
(* the sizes it is checked on.                                             *)
(***************************************************************************)
EXTENDS ShapleyValue, SequencesExt

CONSTANTS
  Methods,       (* those called: a subset of AllMethods                   *)
  Graphs,        (* for every method, the graphs it is called on           *)
  ValueFns,      (* value functions: on the coalitions, to the integers    *)
  NaNSets,       (* for exact_dag: coalitions whose value is NaN           *)
  Configs,       (* for exact_dag_sparse and exact_tree                    *)
  MaxCount,      (* by method: stands for 2^64 - 1                         *)
  MaxNodes       (* by method: stands for 20, 63 and 64                    *)

AllMethods == {"exact", "exact_dag", "exact_dag_sparse", "exact_tree"}

ASSUME ExactAssumption ==
  /\ Methods \subseteq AllMethods
  /\ \A m \in AllMethods : \A g \in Graphs[m] :
       /\ IsFiniteSet(DOMAIN g) /\ DOMAIN g = 0..(Cardinality(DOMAIN g) - 1)
       /\ g \in ParentMaps(DOMAIN g)
       /\ \A f \in ValueFns, U \in SUBSET DOMAIN g : U \in DOMAIN f /\ f[U] \in Int
  /\ \A m \in AllMethods : MaxCount[m] \in Nat \ {0} /\ MaxNodes[m] \in Nat
  /\ \A k \in 0..MaxNodes["exact_dag"] :               (* 20! fits into u64  *)
       Cardinality(TopologicalOrders([i \in 1..k |-> {}])) <= MaxCount["exact_dag"]
  /\ \A c \in Configs["exact_dag_sparse"] : c.memory_limit_bytes \in Nat
  /\ \A c \in Configs["exact_tree"] :
       {c.max_cartesian_terms, c.max_total_terms} \subseteq 0..MaxCount["exact_tree"]

VARIABLES
  method,                          (* the method called                    *)
  pa, v, nan, config,              (* its arguments                        *)
  pc, phi, cache, calls, result,   (* what all methods keep                *)
  inDeg, current, frontiers, orders, walked,   (* Enumeration              *)
  fwd, ind,                        (* the tables of DenseDp and SparseDp   *)
  mask, spoilt, n_samples,         (* DenseDp                              *)
  queue, cur, scan, todo,          (* SparseDp                             *)
  node                             (* TreeExact                            *)

call == <<method, pa, v, nan, config>>
listing == <<inDeg, current, frontiers, orders, walked>>
tables == <<fwd, ind>>
dense == <<mask, spoilt, n_samples>>
search == <<queue, cur, scan, todo>>
vars == <<call, pc, phi, cache, calls, result, listing, tables, dense, search, node>>

E == INSTANCE Enumeration WITH
       InputGraphs <- Graphs["exact"], MaxNodes <- MaxNodes["exact"]
D == INSTANCE DenseDp WITH
       InputGraphs <- Graphs["exact_dag"],
       MaxCount <- MaxCount["exact_dag"], MaxNodes <- MaxNodes["exact_dag"]
S == INSTANCE SparseDp WITH
       InputGraphs <- Graphs["exact_dag_sparse"],
       Configs <- Configs["exact_dag_sparse"],
       MaxCount <- MaxCount["exact_dag_sparse"], MaxNodes <- MaxNodes["exact_dag_sparse"]
T == INSTANCE TreeExact WITH
       InputGraphs <- Graphs["exact_tree"], Configs <- Configs["exact_tree"],
       MaxCount <- MaxCount["exact_tree"], MaxNodes <- MaxNodes["exact_tree"]

------------------------------------------------------------------------------
(* The variables of the methods that were not called stay empty.           *)
NoListing == inDeg = << >> /\ current = << >> /\ frontiers = << >> /\ orders = << >> /\ walked = 0
NoTables == fwd = << >> /\ ind = << >>
NoDense == mask = 0 /\ spoilt = {} /\ n_samples = 0
NoSearch == queue = << >> /\ cur = {} /\ scan = {} /\ todo = {}
NoConfig == config = "none"

Init ==
  /\ method \in Methods
  /\ \/ /\ method = "exact" /\ E!Init /\ nan = {} /\ NoConfig
        /\ NoTables /\ NoDense /\ NoSearch /\ node = 0
     \/ /\ method = "exact_dag" /\ D!Init /\ NoConfig
        /\ NoListing /\ NoSearch /\ node = 0
     \/ /\ method = "exact_dag_sparse" /\ S!Init /\ nan = {}
        /\ NoListing /\ NoDense /\ node = 0
     \/ /\ method = "exact_tree" /\ T!Init /\ nan = {}
        /\ NoListing /\ NoTables /\ NoDense /\ NoSearch

(* The call leads to a step of the method called.                          *)
Called(m) == method = m /\ UNCHANGED call

Exact == Called("exact") /\ E!Next /\ UNCHANGED <<tables, dense, search, node>>
ExactDag == Called("exact_dag") /\ D!Next /\ UNCHANGED <<listing, search, node>>
ExactDagSparse == Called("exact_dag_sparse") /\ S!Next /\ UNCHANGED <<listing, dense, node>>
ExactTree == Called("exact_tree") /\ T!Next /\ UNCHANGED <<listing, tables, dense, search>>

Next == Exact \/ ExactDag \/ ExactDagSparse \/ ExactTree

Spec == Init /\ [][Next]_vars
------------------------------------------------------------------------------
(* What is said of a method, for the call of that method.                  *)
Of(m, claim) == method = m => claim

(* enumerate_topos lists every topological order once, in ascending order. *)
EveryOrderOnce == Of("exact", E!EveryOrderOnce)

(* Both programmes read a count only when everything that belongs to it    *)
(* has been added: the dense one by walking up the masks, the sparse one   *)
(* by taking ideals from its queue first in, first out.                    *)
CountsAreFinal ==
  /\ Of("exact_dag", D!TablesAreFinal)
  /\ Of("exact_dag_sparse", S!ForwardIsFinal)

(* Exactness (docs/correctness.md): what a method returns is the average,  *)
(* over all topological orders, of what a node adds to the value of the    *)
(* nodes before it -- so any two methods that return agree.                *)
ExactValues ==
  /\ Of("exact", E!ExactValues) /\ Of("exact_dag", D!ExactValues)
  /\ Of("exact_dag_sparse", S!ExactValues) /\ Of("exact_tree", T!ExactValues)

(* The value function, which may be a slow model, is asked once for every  *)
(* coalition a topological order passes through and for no other -- more   *)
(* than once only by exact_dag and only for a NaN.                         *)
EvaluatedOnce ==
  /\ Of("exact", E!EvaluatedOnce) /\ Of("exact_dag", D!EvaluatedOnce)
  /\ Of("exact_dag_sparse", S!EvaluatedOnce) /\ Of("exact_tree", T!EvaluatedOnce)

(* A NaN spoils the values it enters and no other (exact_dag).             *)
NaNIsContained == Of("exact_dag", D!NaNIsContained)

Refusals == {"InvalidGraph", "NotRootedTree", "BudgetExceeded", "InvalidConfig", "MaxNodes",
             "MemoryLimit", "Overflow"}

(* A method refuses a graph exactly when what it would compute is over its *)
(* limit: exact only one of more nodes than a coalition has bits, and      *)
(* every such one; no count of exact_dag overflows below its limit on the number of *)
(* nodes; exact_dag_sparse overflows iff the number of orders does not fit *)
(* and is stopped by its memory guard iff the preflight says so; exact_tree*)
(* refuses iff a list it would build is over a budget, though the counts   *)
(* that decide it saturate.  A method that refuses has not called the      *)
(* value function, whatever it found out on the way: another can be tried  *)
(* at no loss.                                                             *)
RefusalsAreRight ==
  /\ Of("exact", E!RefusalIsRight)
  /\ Of("exact_dag", D!LimitRulesOutOverflow)
  /\ Of("exact_dag_sparse", S!VerdictIsExact)
  /\ Of("exact_tree", T!RefusalIsRight)
  /\ result \in Refusals =>
       IF method = "exact_dag" THEN \A U \in DOMAIN calls : calls[U] = 0 ELSE calls = 0

(* src/dag_dp_sparse.rs:12: the run is aborted if the estimated memory of  *)
(* both maps exceeds the limit.                                            *)
MemoryWithinLimit == Of("exact_dag_sparse", S!MemoryWithinLimit)
==============================================================================
