-------------------------------- MODULE DenseDp -------------------------------
(***************************************************************************)
(* Exact values by dynamic programming over all subsets of the nodes:      *)
(* `dag_exact_asv` (src/dag_dp.rs).  Two tables are filled in ascending    *)
(* order of the bit masks, then the contributions are added up in the same *)
(* order, each coalition's value being kept in an array whose empty        *)
(* entries are NaN.                                                        *)
(*                                                                         *)
(* MaxNodes stands for 20 and MaxCount for 2^64 - 1; what matters of them  *)
(* is that MaxNodes! fits and (MaxNodes + 1)! does not.  A value function  *)
(* is a function to the integers, `nan` the coalitions it answers NaN for. *)
(***************************************************************************)
EXTENDS OrderCounts, ShapleyValue

CONSTANTS
  InputGraphs,   (* graphs on 0..n-1, of several sizes                     *)
  ValueFns,      (* functions on the coalitions to the integers            *)
  NaNSets,       (* sets of coalitions                                     *)
  MaxNodes,
  MaxCount

VARIABLES
  pa, v, nan,      (* the arguments; they never change                     *)
  pc,              (* "start" "forward" "induced" "accumulate" "done"      *)
  mask,            (* the next mask to treat, a number                     *)
  fwd, ind,        (* dp_fwd, dp_ind                                       *)
  phi, spoilt,     (* the sums, and the nodes whose sum is NaN             *)
  cache,           (* the coalitions whose entry is not NaN                *)
  calls,           (* history: calls of the value function, by coalition   *)
  n_samples,
  result           (* "none" "ok" "InvalidGraph" "InvalidConfig"           *)
                   (* "Overflow" "ValueError"                              *)

args == <<pa, v, nan>>
tables == <<fwd, ind>>
sums == <<phi, spoilt, cache, calls, n_samples>>
vars == <<args, pc, mask, tables, sums, result>>

Node == DOMAIN pa
TotalMasks == 2^Cardinality(Node)

(* The nodes of a bit mask.                                                *)
Bits(m) == {i \in Node : (m \div 2^i) % 2 = 1}
S == Bits(mask)

Init ==
  /\ pa \in InputGraphs /\ v \in ValueFns /\ nan \in NaNSets
  /\ pc = "start" /\ mask = 0
  /\ fwd = << >> /\ ind = << >>
  /\ phi = [i \in Node |-> 0] /\ spoilt = {}
  /\ cache = {} /\ calls = [U \in SUBSET Node |-> 0]
  /\ n_samples = 0 /\ result = "none"

Return(r) == pc' = "done" /\ result' = r

(* The loop goes on to the next mask, or ends and `next` begins.           *)
Advance(next) ==
  /\ mask' = (mask + 1) % TotalMasks
  /\ pc' = IF mask + 1 = TotalMasks THEN next ELSE pc
  /\ UNCHANGED result

TooMany(n) == n > MaxNodes

Verdict ==
  IF Node = {} \/ ~Acyclic(pa) THEN "InvalidGraph"
  ELSE IF TooMany(Cardinality(Node)) THEN "InvalidConfig"
  ELSE "none"

Refuse ==
  /\ pc = "start" /\ Verdict # "none"
  /\ Return(Verdict)
  /\ UNCHANGED <<args, mask, tables, sums>>

Begin ==
  /\ pc = "start" /\ Verdict = "none"
  /\ fwd' = [U \in SUBSET Node |-> IF U = {} THEN 1 ELSE 0]
  /\ pc' = "forward"
  /\ UNCHANGED <<args, mask, ind, sums, result>>

MayFollow(U) == Ready(pa, U)

(* Add the orders that start with S to those of every ideal one larger.  A *)
(* mask with no such order is not an ideal and is passed over.             *)
Extended ==
  [U \in SUBSET Node |->
     fwd[U] + IF \E i \in MayFollow(S) : U = S \cup {i} THEN fwd[S] ELSE 0]

Forward ==
  /\ pc = "forward"
  /\ fwd' = Extended
  /\ IF \E U \in SUBSET Node : fwd'[U] > MaxCount
       THEN Return("Overflow") /\ UNCHANGED <<mask, ind>>
       ELSE /\ Advance("induced")
            /\ ind' = IF mask + 1 = TotalMasks THEN [U \in SUBSET Node |-> 0] ELSE ind
  /\ UNCHANGED <<args, sums>>

(* compute_dp_ind: the orders of the graph induced by S, for every S.      *)
InducedCount ==
  IF S = {} THEN 1 ELSE SumFunction([i \in SourcesIn(pa, S) |-> ind[S \ {i}]])

Induced ==
  /\ pc = "induced"
  /\ IF InducedCount > MaxCount
       THEN Return("Overflow") /\ UNCHANGED <<mask, ind>>
       ELSE ind' = [ind EXCEPT ![S] = InducedCount] /\ Advance("accumulate")
  /\ UNCHANGED <<args, fwd, sums>>

Suffix(i) == Node \ (S \cup {i})

(* Faulty variant: every mask is looked up.                                *)
AnyMask == TRUE
IsOrderIdeal == fwd[S] # 0

NotStored(U) == U \ cache

(* The coalitions looked up for S, and those that have to be computed.     *)
LookedUp == {S} \cup {S \cup {i} : i \in Ready(pa, S)}
Asked == IF IsOrderIdeal THEN NotStored(LookedUp) ELSE {}
Called(U) == [c \in SUBSET Node |-> calls[c] + IF c \in U THEN 1 ELSE 0]

(* The weighted contributions of all nodes that may come right after S.    *)
Accumulate ==
  /\ pc = "accumulate"
  /\ LET next == IF IsOrderIdeal THEN Ready(pa, S) ELSE {}
     IN  /\ phi' = [i \in Node |->
                      phi[i] + IF i \in next
                                 THEN fwd[S] * ind[Suffix(i)] * (v[S \cup {i}] - v[S])
                                 ELSE 0]
         /\ spoilt' = spoilt \cup {i \in next : {S, S \cup {i}} \cap nan # {}}
  /\ calls' = Called(Asked)
  /\ cache' = cache \cup (Asked \ nan)
  /\ IF mask + 1 = TotalMasks
       THEN Return("ok") /\ n_samples' = TotalMasks /\ UNCHANGED mask
       ELSE Advance("done") /\ UNCHANGED n_samples
  /\ UNCHANGED <<args, tables>>

(* The value function raises at one of the coalitions it is asked for: at  *)
(* S if that is asked for, else at some extension after the smaller ones.  *)
ValueFails ==
  /\ pc = "accumulate"
  /\ \E c \in Asked :
       calls' = Called({d \in Asked : \A i \in d \ S : \E j \in c \ S : i <= j})
  /\ Return("ValueError")
  /\ UNCHANGED <<args, mask, tables, phi, spoilt, cache, n_samples>>

Next == Refuse \/ Begin \/ Forward \/ Induced \/ Accumulate \/ ValueFails

Spec == Init /\ [][Next]_vars
------------------------------------------------------------------------------
(* The loops read a table at a mask only once all that goes into it has    *)
(* been added: ascending masks put every subset before its supersets.  In  *)
(* particular zero means, for a mask already reached, that it is no ideal. *)
TablesAreFinal ==
  /\ pc = "forward" =>
       \A m \in 0..mask : fwd[Bits(m)] = IF Bits(m) \in Ideals(pa) THEN OrdersOf(pa)[Bits(m)] ELSE 0
  /\ pc = "accumulate" => ind = OrdersOf(pa)

(* No count overflows: the limit on the number of nodes is tight enough,   *)
(* though a subset without its middle nodes has more orders than the graph.*)
LimitRulesOutOverflow == result # "Overflow"

(* Exactness, for the nodes that have a value.                             *)
ExactValues ==
  result = "ok" => \A i \in Node \ spoilt : IsAverage(pa, v, i, phi[i], ind[Node])

(* A NaN of the value function reaches the nodes whose contribution it     *)
(* enters and no other.                                                    *)
NaNIsContained ==
  result = "ok" =>
    spoilt = {i \in Node : \E U \in Ideals(pa) : i \in Ready(pa, U) /\ {U, U \cup {i}} \cap nan # {}}

(* Every ideal is evaluated once -- unless its value is NaN, which the     *)
(* array cannot tell from "not yet computed": then once for itself and     *)
(* once for every ideal it extends by a node.                              *)
EvaluatedOnce ==
  result = "ok" =>
    \A U \in SUBSET Node :
      calls[U] = IF U \notin Ideals(pa) THEN 0
                 ELSE IF U \notin nan THEN 1
                 ELSE 1 + Cardinality({i \in U : IsIdeal(pa, U \ {i})})
==============================================================================
