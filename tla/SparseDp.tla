------------------------------- MODULE SparseDp -------------------------------
(***************************************************************************)
(* Exact values by dynamic programming over the order ideals of the graph: *)
(* `dag_exact_asv_sparse` (src/dag_dp_sparse.rs).  A breadth-first search  *)
(* from the empty set counts, for every ideal, the orders that start with  *)
(* it; the orders of what is left over are counted by memoised recursion;  *)
(* and the marginal contributions are added up ideal by ideal, in the      *)
(* arbitrary order of a HashMap.                                           *)
(*                                                                         *)
(* Counts are u64 in the code and overflow is an error: MaxCount stands    *)
(* for 2^64 - 1.  The sums are exact integers, divided at the very end.    *)
(***************************************************************************)
EXTENDS OrderCounts, ShapleyValue, SequencesExt

CONSTANTS
  InputGraphs,   (* graphs on 0..n-1, of several sizes                     *)
  ValueFns,      (* functions on the coalitions to the integers            *)
  Configs,       (* [max_nodes, memory_limit_bytes] records                *)
  MaxNodes,      (* stands for 63                                          *)
  MaxCount

EntryBytes == 80

VARIABLES
  pa, v, config,   (* the arguments; they never change                     *)
  pc,              (* "start" "bfs" "count" "accumulate" "done"            *)
  fwd,             (* dp_fwd                                               *)
  queue,
  cur, scan,       (* the ideal taken from the queue; nodes to extend it by*)
  ind,             (* dp_ind, the memo of dp_ind_lazy                      *)
  todo,            (* ideals whose contributions are to be added           *)
  phi,
  cache,           (* the coalitions with a known value                    *)
  calls,           (* history: calls of the value function                 *)
  result           (* "none" "ok" "InvalidGraph" "MaxNodes" "MemoryLimit"  *)
                   (* "Overflow" "ValueError"                              *)

args == <<pa, v, config>>
search == <<fwd, queue, cur, scan>>
vars == <<args, pc, search, ind, todo, phi, cache, calls, result>>

Node == DOMAIN pa

Init ==
  /\ pa \in InputGraphs /\ v \in ValueFns /\ config \in Configs
  /\ pc = "start"
  /\ fwd = << >> /\ queue = << >> /\ cur = {} /\ scan = {}
  /\ ind = << >> /\ todo = {}
  /\ phi = [i \in Node |-> 0]
  /\ cache = {} /\ calls = 0
  /\ result = "none"

Return(r) == pc' = "done" /\ result' = r

------------------------------------------------------------------------------
Orders == OrdersOf(pa)
Overflows(T) == CountOverflows(pa, ind, T, MaxCount)

(* estimate_sparse_feasible: at most state_budget ideals.                  *)
Feasible(state_budget) == Cardinality(Ideals(pa)) <= state_budget
StateBudget == config.memory_limit_bytes \div EntryBytes

------------------------------------------------------------------------------
Verdict ==
  IF Node = {} \/ ~Acyclic(pa) THEN "InvalidGraph"
  ELSE IF Cardinality(Node) > config.max_nodes \/ Cardinality(Node) > MaxNodes THEN "MaxNodes"
  ELSE "none"

Refuse ==
  /\ pc = "start" /\ Verdict # "none"
  /\ Return(Verdict)
  /\ UNCHANGED <<args, search, ind, todo, phi, cache, calls>>

Begin ==
  /\ pc = "start" /\ Verdict = "none"
  /\ fwd' = [S \in {{}} |-> 1]
  /\ queue' = << {} >>
  /\ pc' = "bfs"
  /\ UNCHANGED <<args, cur, scan, ind, todo, phi, cache, calls, result>>

Pop ==
  /\ pc = "bfs"
  /\ scan = {}
  /\ queue # << >>
  /\ cur' = Head(queue)
  /\ scan' = Ready(pa, Head(queue))
  /\ queue' = Tail(queue)
  /\ UNCHANGED <<args, pc, fwd, ind, todo, phi, cache, calls, result>>

(* Faulty variant: the search goes depth first.                            *)
PushFront(q, S) == << S >> \o q
Push(q, S) == Append(q, S)

ExceedsLimit(n) == n * EntryBytes > config.memory_limit_bytes
ExceedsCount(n) == n > MaxCount

(* The next node by id that extends the current ideal.                     *)
Extend ==
  /\ pc = "bfs"
  /\ scan # {}
  /\ LET i == CHOOSE i \in scan : \A j \in scan : i <= j
         next == cur \cup {i}
         isNew == next \notin DOMAIN fwd
         count == fwd[cur] + IF isNew THEN 0 ELSE fwd[next]
     IN  /\ scan' = scan \ {i}
         /\ fwd' = [S \in DOMAIN fwd \cup {next} |-> IF S = next THEN count ELSE fwd[S]]
         /\ queue' = IF isNew THEN Push(queue, next) ELSE queue
         /\ IF ExceedsCount(count) THEN Return("Overflow")
            ELSE IF isNew /\ ExceedsLimit(Cardinality(DOMAIN fwd')) THEN Return("MemoryLimit")
            ELSE UNCHANGED <<pc, result>>
  /\ UNCHANGED <<args, cur, ind, todo, phi, cache, calls>>

EndSearch ==
  /\ pc = "bfs"
  /\ scan = {} /\ queue = << >>
  /\ pc' = "count"
  /\ UNCHANGED <<args, search, ind, todo, phi, cache, calls, result>>

(* let total = dp_ind_lazy(full_mask)? *)
CountTotal ==
  /\ pc = "count"
  /\ IF Overflows(Node)
       THEN Return("Overflow") /\ UNCHANGED <<ind, todo>>
       ELSE /\ ind' = Remember(pa, ind, Node)
            /\ todo' = DOMAIN fwd
            /\ pc' = "accumulate"
            /\ UNCHANGED result
  /\ UNCHANGED <<args, search, phi, cache, calls>>

Suffix(S, i) == Node \ (S \cup {i})

SuffixCount(S, i) == IF Suffix(S, i) = {} THEN 1 ELSE Orders[Suffix(S, i)]

(* Faulty variant: S itself is not looked up.                              *)
WantedAfter(S) == {S \cup {i} : i \in Ready(pa, S)}
Wanted(S) == {S} \cup {S \cup {i} : i \in Ready(pa, S)}

(* The contributions of all nodes that may come right after S.  The whole  *)
(* graph has none and its value is not asked for here.                     *)
Accumulate(S) ==
  /\ pc = "accumulate"
  /\ S \in todo
  /\ LET extensions == Ready(pa, S)
         rest == {Suffix(S, i) : i \in extensions}
         asked == (IF extensions = {} THEN {} ELSE Wanted(S)) \ cache
     IN  IF \E T \in rest : Overflows(T)
           THEN Return("Overflow") /\ UNCHANGED <<ind, todo, phi, cache, calls>>
           ELSE /\ ind' = [U \in DOMAIN ind \cup UNION {VisitedFrom(pa, T) : T \in rest} |-> Orders[U]]
                /\ phi' = [i \in Node |->
                             phi[i] + IF i \in extensions
                                        THEN fwd[S] * SuffixCount(S, i) * (v[S \cup {i}] - v[S])
                                        ELSE 0]
                /\ cache' = cache \cup asked
                /\ calls' = calls + Cardinality(asked)
                /\ todo' = todo \ {S}
                /\ UNCHANGED <<pc, result>>
  /\ UNCHANGED <<args, search>>

(* The value function raises at one of the coalitions it is asked for.     *)
ValueFails(S) ==
  /\ pc = "accumulate"
  /\ S \in todo
  /\ Ready(pa, S) # {}
  /\ \E k \in 1..Cardinality(Wanted(S) \ cache) : calls' = calls + k
  /\ Return("ValueError")
  /\ UNCHANGED <<args, search, ind, todo, phi, cache>>

Finish ==
  /\ pc = "accumulate"
  /\ todo = {}
  /\ Return("ok")
  /\ UNCHANGED <<args, search, ind, todo, phi, cache, calls>>

Next ==
  \/ Refuse \/ Begin \/ Pop \/ Extend \/ EndSearch \/ CountTotal
  \/ \E S \in todo : Accumulate(S) \/ ValueFails(S)
  \/ Finish

Spec == Init /\ [][Next]_vars
------------------------------------------------------------------------------
(* Type correctness.  Only ideals get a count, only what an ideal leaves   *)
(* over is counted by the recursion, and no count that is used has wrapped.*)
TypeOK ==
  /\ pc \in {"start", "bfs", "count", "accumulate", "done"}
  /\ DOMAIN fwd \cup Elems(queue) \cup {cur} \subseteq Ideals(pa)
  /\ scan \subseteq Ready(pa, cur)
  /\ result # "Overflow" => \A S \in DOMAIN fwd : fwd[S] \in 1..MaxCount
  /\ \A U \in DOMAIN ind : IsIdeal(pa, Node \ U) /\ ind[U] \in 1..MaxCount
  /\ todo \subseteq DOMAIN fwd
  /\ calls \in Nat

(* The search reads dp_fwd[S] when it takes S from the queue: by then      *)
(* every order that starts with S has been counted.  When the queue is     *)
(* empty, every ideal has been reached.                                    *)
ForwardIsFinal ==
  /\ \A S \in DOMAIN fwd \ Elems(queue) :
       pc \in {"bfs", "count"} => fwd[S] = Orders[S]
  /\ pc \in {"count", "accumulate"} => DOMAIN fwd = Ideals(pa)

(* Exactness: phi / total is the average, over all topological orders, of  *)
(* what a node adds to the value of the nodes before it.                   *)
ExactValues ==
  result = "ok" => \A i \in Node : IsAverage(pa, v, i, phi[i], Orders[Node])

(* Overflow is reported exactly when the number of topological orders does *)
(* not fit, whichever of the two counts meets it; and the preflight used   *)
(* by auto() foresees the memory guard's decision.                         *)
VerdictIsExact ==
  /\ result = "Overflow" => Orders[Node] > MaxCount
  /\ result = "ok" => Orders[Node] <= MaxCount
  /\ result = "MemoryLimit" => ~Feasible(StateBudget)
  /\ ~Feasible(StateBudget) => result \notin {"ok", "ValueError"}

(* Every ideal is evaluated, once.                                         *)
EvaluatedOnce ==
  result = "ok" => cache = Ideals(pa) /\ calls = Cardinality(Ideals(pa))

(* Both maps together stay within the limit.                               *)
MemoryWithinLimit ==
  result = "ok" =>
    (Cardinality(DOMAIN fwd) + Cardinality(DOMAIN ind)) * EntryBytes <= config.memory_limit_bytes
==============================================================================
