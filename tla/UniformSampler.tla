---------------------------- MODULE UniformSampler ----------------------------
(***************************************************************************)
(* `sample_uniform_into` and `sample_uniform_sparse_into` (src/sampler.rs):*)
(* a topological order is drawn with the same probability as any other, by *)
(* giving every node that may come next a share of the counted orders.     *)
(* The first reads the counts from a table over all subsets, the second    *)
(* counts when it needs a count and remembers it for the draws to come.    *)
(*                                                                         *)
(* The random number is a choice; `chance` follows how likely the order so *)
(* far was.                                                                *)
(***************************************************************************)
EXTENDS OrderCounts, Integers

CONSTANTS
  Node,
  MaxSamples,   (* bound: orders drawn within one call                     *)
  MaxCount      (* stands for u64::MAX                                     *)

ASSUME UniformAssumption ==
  /\ IsFiniteSet(Node) /\ Node = 0..(Cardinality(Node) - 1)
  /\ MaxSamples \in Nat /\ MaxCount \in Nat \ {0}

VARIABLES
  pa, sparse,   (* the graph, and which of the two functions draws         *)
  pc,           (* "idle", "step" in the loop, "failed" after an overflow  *)
  ind,          (* dp_ind: the counts known                                *)
  turn,         (* turns of the loop made                                  *)
  ordering,
  chance,       (* probability of the order so far, as a fraction          *)
  samples       (* orders begun                                            *)

vars == <<pa, sparse, pc, ind, turn, ordering, chance, samples>>

Placed == Elems(ordering)

(* The table is complete before the first draw; it exists for at most 20   *)
(* nodes, whose orders a u64 can count.                                    *)
Init ==
  /\ pa \in Dags(Node) /\ sparse \in BOOLEAN
  /\ pc = "idle"
  /\ ind = IF sparse THEN << >> ELSE OrdersOf(pa)
  /\ turn = 0 /\ ordering = << >> /\ chance = <<1, 1>> /\ samples = 0

Begin ==
  /\ pc = "idle"
  /\ samples < MaxSamples
  /\ turn' = 0 /\ ordering' = << >> /\ chance' = <<1, 1>>
  /\ samples' = samples + 1
  /\ pc' = "step"
  /\ UNCHANGED <<pa, sparse, ind>>

(* Faulty variant: the node placed last is not taken out.                  *)
WithLast == Node \ Elems(SubSeq(ordering, 1, Len(ordering) - 1))
Remaining == Node \ Elems(ordering)

(* The nodes all of whose parents have been placed.                        *)
Sources == {i \in Remaining : pa[i] \subseteq Placed}

(* The counts known once the turn has asked for its own: the first, of all *)
(* that remains, visits everything the others need.                        *)
Known == IF sparse THEN Remember(pa, ind, Remaining) ELSE ind

(* A count is looked up, or counted when it is not there.                  *)
CountOf(T) ==
  IF T = {} THEN 1
  ELSE IF T \in DOMAIN Known THEN Known[T] ELSE Remember(pa, Known, T)[T]
OrdersAfter(i) == CountOf(Remaining \ {i})

(* `cum` once the scan, in ascending order, has come to source i.          *)
Cumulated(i) == SumFunctionOnSet([j \in Sources |-> OrdersAfter(j)], {j \in Sources : j <= i})

(* Faulty variant: the bound of a share is taken in.                       *)
BelowOrAt(r, cum) == r <= cum
Below(r, cum) == r < cum

(* The sources at which the scan would stop; it stops at the first.        *)
Hits(r) == {i \in Sources : Below(r, Cumulated(i))}
Drawn(r) == Min(Hits(r))

(* Faulty variant: no overflow is noticed.                                 *)
NeverOverflows == FALSE
Overflow == sparse /\ CountOverflows(pa, ind, Remaining, MaxCount)

(* The source whose share r falls into comes next; were there none, the    *)
(* turn would pass without a node.                                         *)
Settle(r) ==
  IF Hits(r) = {}
    THEN UNCHANGED <<ordering, chance>>
    ELSE LET alike == {q \in 0..(Known[Remaining] - 1) : Hits(q) # {} /\ Drawn(q) = Drawn(r)}
         IN  /\ ordering' = Append(ordering, Drawn(r))
             /\ chance' = <<chance[1] * Cardinality(alike), chance[2] * Known[Remaining]>>

(* One turn: r is drawn below the number of orders of what remains.        *)
Turn ==
  /\ pc = "step"
  /\ turn < Cardinality(Node)
  /\ ~Overflow
  /\ ind' = Known
  /\ turn' = turn + 1
  /\ \E r \in 0..(Known[Remaining] - 1) : Settle(r)
  /\ UNCHANGED <<pa, sparse, pc, samples>>

Fail ==
  /\ pc = "step"
  /\ turn < Cardinality(Node)
  /\ Overflow
  /\ pc' = "failed"
  /\ UNCHANGED <<pa, sparse, ind, turn, ordering, chance, samples>>

Return ==
  /\ pc = "step"
  /\ turn = Cardinality(Node)
  /\ pc' = "idle"
  /\ UNCHANGED <<pa, sparse, ind, turn, ordering, chance, samples>>

Next == Begin \/ Turn \/ Fail \/ Return

Spec == Init /\ [][Next]_vars
------------------------------------------------------------------------------
(* "each linear extension with probability 1/L(G)" (src/sampler.rs:214):   *)
(* whatever order comes out, it was as likely as any other, also when the  *)
(* counts were remembered from an earlier draw.                            *)
Uniform ==
  [][Return => chance[1] * Cardinality(TopologicalOrders(pa)) = chance[2]]_vars

(* An overflow is reported on the first turn of the first draw or never,   *)
(* and only if the topological orders do not fit into a u64: a call that   *)
(* has used one draw can use all of them.                                  *)
OverflowAtOnce ==
  /\ pc = "failed" =>
       samples = 1 /\ turn = 0 /\ Cardinality(TopologicalOrders(pa)) > MaxCount
  /\ sparse /\ turn > 0 => Cardinality(TopologicalOrders(pa)) <= MaxCount

Abstract == INSTANCE LinearExtension
ImplementsLinearExtension == Abstract!Spec
==============================================================================
