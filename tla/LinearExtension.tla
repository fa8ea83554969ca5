--------------------------- MODULE LinearExtension ---------------------------
(***************************************************************************)
(* What every topological-order sampler of the crate promises, with no     *)
(* word about how: an order is started empty and extended, one node at a   *)
(* time, by any node whose parents are all placed, until none is left.     *)
(***************************************************************************)
EXTENDS CausalGraph

CONSTANT Node

VARIABLES
  pa,        (* the graph; never changes                                   *)
  ordering   (* the order being built                                      *)

vars == <<pa, ordering>>

Init ==
  /\ pa \in Dags(Node)
  /\ ordering = << >>

Start ==
  /\ ordering' = << >>
  /\ UNCHANGED pa

Place(i) ==
  /\ i \in Ready(pa, Elems(ordering))
  /\ ordering' = Append(ordering, i)
  /\ UNCHANGED pa

Next == Start \/ \E i \in Node : Place(i)

Spec == Init /\ [][Next]_vars
==============================================================================
