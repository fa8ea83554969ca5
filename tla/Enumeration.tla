------------------------------ MODULE Enumeration -----------------------------
(***************************************************************************)
(* The brute-force method: `AsvExplainer::exact` (src/asv.rs).  All        *)
(* topological orders are listed by backtracking (`enumerate_topos`,       *)
(* src/topo.rs) over one array of in-degrees that is changed on the way    *)
(* down and repaired on the way up; then the contributions along every     *)
(* order are added up.  The calls of `backtrack` that are open are kept as *)
(* a stack of what is left of their frontiers.                             *)
(***************************************************************************)
EXTENDS ShapleyValue, SortedNumbers, SequencesExt

CONSTANTS
  InputGraphs,   (* graphs on 0..n-1, cyclic ones too                      *)
  ValueFns,      (* functions on the coalitions to the integers            *)
  MaxNodes       (* the bits of a coalition: stands for 64                 *)

VARIABLES
  pa, v,       (* the arguments; they never change                         *)
  pc,          (* "start", "call" or "return" of backtrack, "walk", "done" *)
  inDeg,       (* in_deg, shared by all open calls                         *)
  current,     (* the nodes placed by the open calls                       *)
  frontiers,   (* for every open call, the nodes it has still to try       *)
  orders,      (* result of enumerate_topos                                *)
  walked,      (* orders whose contributions have been added               *)
  phi, cache,
  calls,       (* history: calls of the value function                     *)
  result       (* "none" "ok" "InvalidGraph" "InvalidConfig" "ValueError"  *)

args == <<pa, v>>
listing == <<inDeg, current, frontiers, orders>>
sums == <<walked, phi, cache, calls>>
vars == <<args, pc, listing, sums, result>>

Node == DOMAIN pa

(* usize::MAX, which no in-degree reaches: a placed node.                  *)
Mark == Cardinality(Node)

Init ==
  /\ pa \in InputGraphs /\ v \in ValueFns
  /\ pc = "start"
  /\ inDeg = [i \in Node |-> Cardinality(pa[i])]
  /\ current = << >> /\ frontiers = << >> /\ orders = << >>
  /\ walked = 0 /\ phi = [i \in Node |-> 0]
  /\ cache = {} /\ calls = 0
  /\ result = "none"

Return(r) == pc' = "done" /\ result' = r

Verdict ==
  IF Node = {} \/ ~Acyclic(pa) THEN "InvalidGraph"
  ELSE IF Cardinality(Node) > MaxNodes THEN "InvalidConfig" ELSE "none"

Reject ==
  /\ pc = "start" /\ Verdict # "none"
  /\ Return(Verdict)
  /\ UNCHANGED <<args, listing, sums>>

Start ==
  /\ pc = "start" /\ Verdict = "none"
  /\ pc' = "call"
  /\ UNCHANGED <<args, listing, sums, result>>

(* backtrack with nothing left to place.                                   *)
Emit ==
  /\ pc = "call" /\ Len(current) = Cardinality(Node)
  /\ orders' = Append(orders, current)
  /\ pc' = "return"
  /\ UNCHANGED <<args, inDeg, current, frontiers, sums, result>>

(* backtrack otherwise: the frontier is listed once, before the loop.      *)
List ==
  /\ pc = "call" /\ Len(current) < Cardinality(Node)
  /\ frontiers' = Append(frontiers, Ascending({i \in Node : inDeg[i] = 0}))
  /\ pc' = "loop"
  /\ UNCHANGED <<args, inDeg, current, orders, sums, result>>

(* The next node of the frontier is marked and its children relaxed, and   *)
(* backtrack calls itself.                                                 *)
Place ==
  /\ pc = "loop" /\ Last(frontiers) # << >>
  /\ LET i == Head(Last(frontiers))
     IN  /\ inDeg' = [j \in Node |->
                        IF j = i THEN Mark ELSE IF i \in pa[j] THEN inDeg[j] - 1 ELSE inDeg[j]]
         /\ current' = Append(current, i)
         /\ frontiers' = ReplaceAt(frontiers, Len(frontiers), Tail(Last(frontiers)))
  /\ pc' = "call"
  /\ UNCHANGED <<args, orders, sums, result>>

(* Faulty variant: the node stays marked.                                  *)
Unmarked(i) == [inDeg EXCEPT ![i] = 0]

(* What the node changed is changed back; it had no parent left.           *)
Restored(i) ==
  [j \in Node |-> IF j = i THEN 0 ELSE IF i \in pa[j] THEN inDeg[j] + 1 ELSE inDeg[j]]

(* The inner call is back.                                                 *)
Unplace ==
  /\ pc = "return"
  /\ current # << >>
  /\ inDeg' = Restored(Last(current))
  /\ current' = Front(current)
  /\ pc' = "loop"
  /\ UNCHANGED <<args, frontiers, orders, sums, result>>

(* The frontier is exhausted: the call returns, the outermost one to exact.*)
Close ==
  /\ pc = "loop" /\ Last(frontiers) = << >>
  /\ frontiers' = Front(frontiers)
  /\ pc' = IF current = << >> THEN "walk" ELSE "return"
  /\ UNCHANGED <<args, inDeg, current, orders, sums, result>>

Missing(s) == CoalitionsAlong(s) \ cache

Gain(s, i) == Contribution(v, s, i)

WalkOrder ==
  /\ pc = "walk" /\ walked < Len(orders)
  /\ LET s == orders[walked + 1]
     IN  /\ phi' = [i \in Node |-> phi[i] + Gain(s, i)]
         /\ calls' = calls + Cardinality(Missing(s))
         /\ cache' = cache \cup Missing(s)
  /\ walked' = walked + 1
  /\ UNCHANGED <<args, pc, listing, result>>

(* The value function raises at some coalition not met before.             *)
ValueFails ==
  /\ pc = "walk" /\ walked < Len(orders)
  /\ \E k \in 1..Cardinality(Missing(orders[walked + 1])) : calls' = calls + k
  /\ Return("ValueError")
  /\ UNCHANGED <<args, listing, walked, phi, cache>>

Finish ==
  /\ pc = "walk" /\ walked = Len(orders)
  /\ Return("ok")
  /\ UNCHANGED <<args, listing, sums>>

Next ==
  \/ Reject \/ Start
  \/ Emit \/ List \/ Place \/ Unplace \/ Close
  \/ WalkOrder \/ ValueFails \/ Finish

Spec == Init /\ [][Next]_vars
------------------------------------------------------------------------------
LexLess(s, t) ==
  \E k \in 1..Len(s) : s[k] < t[k] /\ \A j \in 1..(k - 1) : s[j] = t[j]

(* The search over one shared array of in-degrees lists every topological  *)
(* order and nothing else; the orders come out sorted, so none comes twice.*)
EveryOrderOnce ==
  /\ pc = "walk" => Elems(orders) = TopologicalOrders(pa)
  /\ \A k \in 2..Len(orders) : LexLess(orders[k - 1], orders[k])

(* Exactness: phi divided by the number of orders is the average.          *)
ExactValues == result = "ok" => \A i \in Node : IsAverage(pa, v, i, phi[i], Len(orders))

(* The value function sees every coalition that some order passes through  *)
(* once: the order ideals of the graph.                                    *)
EvaluatedOnce == result = "ok" => cache = Ideals(pa) /\ calls = Cardinality(Ideals(pa))

(* A graph is refused exactly when it has more nodes than a coalition has  *)
(* bits (src/asv.rs 143-148); an empty or cyclic one never gets that far.  *)
RefusalIsRight ==
  /\ result = "InvalidConfig" => Cardinality(Node) > MaxNodes
  /\ pc \notin {"start", "done"} \/ result \in {"ok", "ValueError"} =>
       Cardinality(Node) <= MaxNodes
==============================================================================
