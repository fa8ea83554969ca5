----------------------------- MODULE CausalGraph -----------------------------
(***************************************************************************)
(* What the whole crate knows about a causal graph once `Dag` is frozen:   *)
(* the parents of every node.  A graph on the node set V is a function     *)
(* pa \in [V -> SUBSET V]; `Dag::parents` (or the bit masks built from it  *)
(* by `AsvExplainer::new`) is exactly that function.                       *)
(***************************************************************************)
EXTENDS Naturals, Sequences, FiniteSets

(* All graphs on V, with cycles and self loops.                            *)
ParentMaps(V) == [V -> SUBSET V]

Children(pa, i) == {c \in DOMAIN pa : i \in pa[c]}

(* The nodes that may come next after the nodes of S have been placed.     *)
Ready(pa, S) == {i \in DOMAIN pa \ S : pa[i] \subseteq S}

(* S is closed under parents: the coalitions a topological order visits.   *)
IsIdeal(pa, S) == S \subseteq DOMAIN pa /\ \A i \in S : pa[i] \subseteq S

Ideals(pa) == {S \in SUBSET DOMAIN pa : IsIdeal(pa, S)}

(* A graph on a finite set is acyclic iff every nonempty set of its nodes  *)
(* has a member without a parent in the set.                               *)
Acyclic(pa) ==
  \A S \in SUBSET DOMAIN pa : S # {} => \E i \in S : pa[i] \cap S = {}

Dags(V) == {pa \in ParentMaps(V) : Acyclic(pa)}

(* The elements of a sequence, and the set of its first k elements.        *)
Elems(s) == {s[k] : k \in 1..Len(s)}
Prefix(s, k) == {s[j] : j \in 1..k}

IsInjectiveSeq(s) == \A j, k \in 1..Len(s) : s[j] = s[k] => j = k

(* s lists every node once and every node after its parents.               *)
IsTopologicalOrder(pa, s) ==
  /\ Elems(s) = DOMAIN pa
  /\ IsInjectiveSeq(s)
  /\ \A k \in 1..Len(s) : pa[s[k]] \subseteq Prefix(s, k - 1)

TopologicalOrders(pa) ==
  {s \in [1..Cardinality(DOMAIN pa) -> DOMAIN pa] : IsTopologicalOrder(pa, s)}

(* The coalitions a walk along s looks at, the empty one included.         *)
CoalitionsAlong(s) == {Prefix(s, k) : k \in 0..Len(s)}

(* 1/q(s): the product of the frontier lengths on the way (TopoSampler).   *)
FrontierWeight(pa, s) ==
  LET w[k \in 0..Len(s)] ==
        IF k = 0 THEN 1 ELSE w[k - 1] * Cardinality(Ready(pa, Prefix(s, k - 1)))
  IN  w[Len(s)]
==============================================================================
