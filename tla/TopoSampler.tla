----------------------------- MODULE TopoSampler -----------------------------
(***************************************************************************)
(* `sample_one_into` (src/sampler.rs): one topological order drawn from    *)
(* the frontier sampler, in scratch buffers that one worker reuses for all *)
(* its samples.  The random index is a choice; the children of a node are  *)
(* relaxed in any order (their order in the adjacency list is the order    *)
(* the edges were added in).  Instead of log q(pi) the model keeps         *)
(* 1/q(pi), the product of the frontier lengths, an exact number.          *)
(***************************************************************************)
EXTENDS CausalGraph, Integers

CONSTANTS
  Node,        (* the nodes of the graph                                   *)
  MaxSamples   (* bound: samples drawn into the same scratch               *)

ASSUME NodeAssumption == IsFiniteSet(Node)
ASSUME SamplesAssumption == MaxSamples \in Nat

VARIABLES
  pa,        (* the graph                                                  *)
  pc,        (* "idle", or in the loop about to "pick" or to "relax"       *)
  inDeg,     (* scratch.in_deg: parents not placed yet                     *)
  frontier,  (* scratch.frontier: a vector, so it can hold duplicates      *)
  ordering,  (* scratch.ordering                                           *)
  pending,   (* children of the last placed node still to be relaxed       *)
  weight,    (* exp(-log_q) of the order so far                            *)
  samples    (* samples begun                                              *)

vars == <<pa, pc, inDeg, frontier, ordering, pending, weight, samples>>

Placed == Elems(ordering)

(* Some vector of the elements of S without repetition.  The code lists    *)
(* them by index; only the length and the members matter, because the      *)
(* index drawn next is uniform.                                            *)
Listing(S) ==
  CHOOSE s \in [1..Cardinality(S) -> S] :
    \A j, k \in 1..Cardinality(S) : s[j] = s[k] => j = k

(* Faulty variant: the last element is dropped instead of the drawn one.   *)
PopLast(s, k) == [j \in 1..(Len(s) - 1) |-> s[j]]

(* Vec::swap_remove: the last element takes the place of the k-th.         *)
SwapRemove(s, k) ==
  [j \in 1..(Len(s) - 1) |-> IF j = k THEN s[Len(s)] ELSE s[j]]

(* SamplerScratch::new, and a DAG that has passed `Dag::validate`.         *)
Init ==
  /\ pa \in Dags(Node)
  /\ pc = "idle"
  /\ inDeg = [i \in Node |-> 0]
  /\ frontier = << >>
  /\ ordering = << >>
  /\ pending = {}
  /\ weight = 1
  /\ samples = 0

(* Faulty variant: the scratch keeps the counts of the previous sample.    *)
StaleInDegrees == IF samples = 0 THEN [i \in Node |-> Cardinality(pa[i])] ELSE inDeg

(* Dag::in_degrees, computed once per graph and copied for every sample.   *)
BaseInDegrees == [i \in Node |-> Cardinality(pa[i])]

(* The buffers are overwritten before the loop: nothing of the previous    *)
(* sample survives.                                                        *)
Begin ==
  /\ pc = "idle"
  /\ samples < MaxSamples
  /\ inDeg' = BaseInDegrees
  /\ frontier' = Listing({i \in Node : Cardinality(pa[i]) = 0})
  /\ ordering' = << >>
  /\ weight' = 1
  /\ pc' = "pick"
  /\ samples' = samples + 1
  /\ UNCHANGED <<pa, pending>>

(* Faulty variant: the length left after the draw.                         *)
ShortWeightFactor == Len(frontier) - 1

(* The factor by which 1/q grows, taken before the node is removed.        *)
WeightFactor == Len(frontier)

(* One turn of the loop up to the children: the weight takes the length of *)
(* the frontier, then an index below that length is drawn.                 *)
Pick(k) ==
  /\ pc = "pick"
  /\ Len(ordering) < Cardinality(Node)
  /\ k \in 1..Len(frontier)
  /\ weight' = weight * WeightFactor
  /\ frontier' = SwapRemove(frontier, k)
  /\ ordering' = Append(ordering, frontier[k])
  /\ pending' = Children(pa, frontier[k])
  /\ pc' = "relax"
  /\ UNCHANGED <<pa, inDeg, samples>>

(* Faulty variants: the test comes before the decrement, or is forgotten.  *)
ReadyBeforeDecrement(c) == inDeg[c] = 0
AlwaysReady(c) == TRUE

(* The decrement about to be made takes the in-degree of c to zero.        *)
BecomesReady(c) == inDeg[c] = 1

RelaxChild(c) ==
  /\ pc = "relax"
  /\ c \in pending
  /\ inDeg' = [inDeg EXCEPT ![c] = @ - 1]
  /\ frontier' = IF BecomesReady(c) THEN Append(frontier, c) ELSE frontier
  /\ pending' = pending \ {c}
  /\ UNCHANGED <<pa, pc, ordering, weight, samples>>

EndTurn ==
  /\ pc = "relax"
  /\ pending = {}
  /\ pc' = "pick"
  /\ UNCHANGED <<pa, inDeg, frontier, ordering, pending, weight, samples>>

(* The loop has run n times; the order and its weight are handed out.      *)
Return ==
  /\ pc = "pick"
  /\ Len(ordering) = Cardinality(Node)
  /\ pc' = "idle"
  /\ UNCHANGED <<pa, inDeg, frontier, ordering, pending, weight, samples>>

PickAny == \E k \in 1..Len(frontier) : Pick(k)
RelaxAny == \E c \in pending : RelaxChild(c)

Next == Begin \/ PickAny \/ RelaxAny \/ EndTurn \/ Return

Spec == Init /\ [][Next]_vars
------------------------------------------------------------------------------
(* Type correctness; in particular `in_deg[c] -= 1` on a usize never goes  *)
(* below zero, whatever the previous sample left in the scratch buffers.   *)
TypeOK ==
  /\ pa \in [Node -> SUBSET Node]
  /\ pc \in {"idle", "pick", "relax"}
  /\ inDeg \in [Node -> Nat]
  /\ frontier \in Seq(Node)
  /\ ordering \in Seq(Node)
  /\ pending \in SUBSET Node
  /\ weight \in Nat
  /\ samples \in 0..MaxSamples

(* A parent's placement has already been counted in the in-degree of c.    *)
Counted(p, c) ==
  /\ p \in Placed
  /\ ~(pc = "relax" /\ c \in pending /\ p = ordering[Len(ordering)])

Uncounted(c) == {p \in pa[c] : ~Counted(p, c)}

(* At every draw the frontier is the set of nodes all of whose parents are *)
(* placed, each held once: no ready node is missing (it could never be     *)
(* drawn, and the order would not have positive probability) and none is   *)
(* listed twice (it would be placed twice and the weight would be wrong).  *)
FrontierExact ==
  pc = "pick" =>
    /\ Elems(frontier) = Ready(pa, Placed)
    /\ IsInjectiveSeq(frontier)

(* `random_range(0..frontier.len())` panics on an empty range: while a     *)
(* node is missing from the order, the frontier holds one.                 *)
NeverDrawsFromEmpty ==
  (pc = "pick" /\ Len(ordering) < Cardinality(Node)) => Len(frontier) > 0

(* Each prefix is an order ideal and no node is placed twice; so the order *)
(* handed out is a topological order of the whole graph.                   *)
OrderedPrefix ==
  /\ IsInjectiveSeq(ordering)
  /\ \A k \in 1..Len(ordering) : pa[ordering[k]] \subseteq Prefix(ordering, k - 1)

ReturnsTopologicalOrder ==
  [][Return => IsTopologicalOrder(pa, ordering)]_vars

(* Each placed node multiplies the weight by the number of nodes any       *)
(* sampler could have placed there: 1/weight is the probability of the     *)
(* prefix, which is what makes w = 1/q an importance weight.               *)
WeightStep ==
  [][Len(ordering') = Len(ordering) + 1 =>
       weight' = weight * Cardinality(Ready(pa, Placed))]_vars

Abstract == INSTANCE LinearExtension
ImplementsLinearExtension == Abstract!Spec

(* Every sample that is begun ends: the sampler never stops inside.        *)
SampleEnds == (pc # "idle") ~> (pc = "idle")
==============================================================================
