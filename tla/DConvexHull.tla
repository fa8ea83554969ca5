----------------------------- MODULE DConvexHull -----------------------------
(***************************************************************************)
(* `d_convex_hull` and `strong_d_convex_hull` of a Dag (src/d_convex.rs):  *)
(* two nested fixed points.  The inner one adds the vertices of shortest   *)
(* inducing paths until nothing grows, the outer one adds pairs of parents *)
(* that are not linearly ordered and closes again.  Both give up after     *)
(* n + 1 rounds.                                                           *)
(*                                                                         *)
(* Sets of vertices are sets here.  Which of several shortest paths the    *)
(* breadth-first search returns depends on the order of the edges and of   *)
(* `required`; any of them may be returned here, for each pair.            *)
(***************************************************************************)
EXTENDS CausalGraph, FiniteSetsExt

CONSTANT Graphs       (* the DAGs a call may be made on                    *)

ASSUME GraphsAssumption ==
  \A g \in Graphs :
    DOMAIN g \in SUBSET Nat /\ IsFiniteSet(DOMAIN g) /\ g \in Dags(DOMAIN g)

Kinds == {"d_convex_hull", "strong_d_convex_hull"}

VARIABLES
  pa,                 (* the Dag                                           *)
  call,               (* the method called, one of Kinds                   *)
  required,           (* the argument                                      *)
  h,                  (* the set that grows                                *)
  stage,              (* "idle" "closing" "closed" "done"                  *)
  rounds,             (* of the closure that is running                    *)
  passes,             (* of strong_d_convex_hull's own loop                *)
  answer              (* "none" "ok" "InvalidNodeId"                       *)
                      (* "HullFixedPointNotReached"                        *)

hullVars == <<pa, call, required, h, stage, rounds, passes, answer>>

Vertex == DOMAIN pa

HullInit ==
  /\ pa = << >> /\ call = "d_convex_hull"
  /\ required = {} /\ h = {}
  /\ stage = "idle"
  /\ rounds = 0 /\ passes = 0
  /\ answer = "none"
------------------------------------------------------------------------------
(* The helpers of the module, on a graph g.                                *)

AncestorsOrSelf(g, seeds) ==
  LET after[k \in 0..Cardinality(DOMAIN g)] ==
        IF k = 0 THEN seeds
        ELSE LET before == after[k - 1] IN before \cup UNION {g[v] : v \in before}
  IN  after[Cardinality(DOMAIN g)]

ChildrenOrSelf(g, seeds) == seeds \cup {c \in DOMAIN g : g[c] \cap seeds # {}}

MarkovBoundary(g, m) ==
  LET family == ChildrenOrSelf(g, m)
  IN  (family \cup UNION {g[v] : v \in family}) \ m

Linked(g, a, b) == a \in g[b] \/ b \in g[a]

(* Faulty variant: the parents of a common child are not married.          *)
Unmarried(g, nodes, a, b) == {a, b} \subseteq nodes /\ Linked(g, a, b)

(* a and b are neighbours in the moral graph of the subgraph on nodes.     *)
Moral(g, nodes, a, b) ==
  /\ {a, b} \subseteq nodes
  /\ a # b
  /\ Linked(g, a, b) \/ \E c \in nodes : {a, b} \subseteq g[c]

(* The inner vertices of the shortest paths between the two members of     *)
(* pair, one set for each path, in the moral graph of their ancestors and  *)
(* through members of m only; {} if there is no such path.                 *)
ShortestPaths(g, m, pair) ==
  LET ancestral == AncestorsOrSelf(g, pair)
      inner == m \cap ancestral
      IsPath(s) ==
        LET q == <<Min(pair)>> \o s \o <<Max(pair)>>
        IN  \A j \in 1..Len(s) + 1 : Moral(g, ancestral, q[j], q[j + 1])
      Paths(k) == {s \in [1..k -> inner] : IsPath(s)}
      lengths == {k \in 0..Cardinality(inner) : Paths(k) # {}}
  IN  IF lengths = {} THEN {} ELSE {Elems(s) : s \in Paths(Min(lengths))}

(* The pairs that shortest_inducing_path_vertices looks at.                *)
TargetPairs(g, set) ==
  LET candidates == set \cap MarkovBoundary(g, DOMAIN g \ set)
  IN  {p \in SUBSET candidates : \E a, b \in p : p = {a, b} /\ a # b /\ ~Linked(g, a, b)}

(* One path for each pair that has one.                                    *)
PathChoices(g, set) ==
  LET found == {<<p, ShortestPaths(g, DOMAIN g \ set, p)>> : p \in TargetPairs(g, set)}
      pairs == {f \in found : f[2] # {}}
  IN  {path \in [pairs -> UNION {f[2] : f \in pairs}] : \A f \in pairs : path[f] \in f[2]}

(* Faulty variant: all parents of a vertex with a violation are taken.     *)
WholeParentSets(g, set) ==
  LET relevant == ChildrenOrSelf(g, DOMAIN g \ set) \cap AncestorsOrSelf(g, set)
  IN  UNION {g[w] : w \in {w \in relevant : \E p1, p2 \in g[w] :
               p1 # p2 /\ ~({p1, p2} \subseteq set) /\ ~Linked(g, p1, p2)}}

(* linear_ordering_violation_parents                                       *)
ViolationParents(g, set) ==
  LET relevant == ChildrenOrSelf(g, DOMAIN g \ set) \cap AncestorsOrSelf(g, set)
      violations == {q \in (DOMAIN g) \X (DOMAIN g) :
                       /\ q[1] # q[2] /\ ~Linked(g, q[1], q[2])
                       /\ ~({q[1], q[2]} \subseteq set)
                       /\ \E w \in relevant : {q[1], q[2]} \subseteq g[w]}
  IN  {q[1] : q \in violations}
------------------------------------------------------------------------------
(* An id out of the graph's range is refused; one stands for all of them.  *)
Arguments(g) == SUBSET DOMAIN g \cup {{Cardinality(DOMAIN g) + 1}}

Call(g, kind, ids) ==
  /\ stage = "idle"
  /\ pa' = g /\ call' = kind
  /\ required' = ids
  /\ rounds' = 0 /\ passes' = 0
  /\ IF ids \subseteq DOMAIN g
     THEN h' = ids /\ stage' = "closing" /\ UNCHANGED answer
     ELSE h' = {} /\ stage' = "done" /\ answer' = "InvalidNodeId"

(* Faulty variant: the bound is taken from the argument.                   *)
RoundsOfArgument == Cardinality(required) + 1

MaxRounds == Cardinality(Vertex) + 1

(* Faulty variant: the closure is a single round.                          *)
OneRound(absorbed) == TRUE

(* h.len() is what it was before the round.                                *)
HasNotGrown(absorbed) == absorbed \subseteq h

GiveUpAt(limit, next) ==
  /\ stage' = IF limit THEN "done" ELSE next
  /\ answer' = IF limit THEN "HullFixedPointNotReached" ELSE answer

(* One turn of d_convex_closure.                                           *)
ClosureRound ==
  /\ stage = "closing"
  /\ \E path \in PathChoices(pa, h) :
       LET absorbed == UNION {f[1] \cup path[f] : f \in DOMAIN path}
       IN  /\ h' = h \cup absorbed
           /\ \/ /\ HasNotGrown(absorbed)
                 /\ stage' = "closed"
                 /\ UNCHANGED <<rounds, answer>>
              \/ /\ ~HasNotGrown(absorbed)
                 /\ rounds' = rounds + 1
                 /\ GiveUpAt(rounds + 1 = MaxRounds, "closing")
  /\ UNCHANGED <<pa, call, required, passes>>

ReturnHull ==
  /\ stage = "closed"
  /\ call = "d_convex_hull" \/ ViolationParents(pa, h) = {}
  /\ stage' = "done" /\ answer' = "ok"
  /\ UNCHANGED <<pa, call, required, h, rounds, passes>>

(* The rest of a turn of strong_d_convex_hull.                             *)
AbsorbParents ==
  /\ stage = "closed"
  /\ call = "strong_d_convex_hull" /\ ViolationParents(pa, h) # {}
  /\ h' = h \cup ViolationParents(pa, h)
  /\ rounds' = 0
  /\ passes' = passes + 1
  /\ GiveUpAt(passes + 1 = MaxRounds, "closing")
  /\ UNCHANGED <<pa, call, required>>

HullStep == ClosureRound \/ ReturnHull \/ AbsorbParents

HullNext ==
  \/ /\ stage = "idle"
     /\ \E g \in Graphs : \E kind \in Kinds, ids \in Arguments(g) : Call(g, kind, ids)
  \/ HullStep

HullSpec == HullInit /\ [][HullNext]_hullVars
------------------------------------------------------------------------------
(* The definitions the hulls are held to, by enumeration of paths.         *)

(* A path between a and b no inner vertex of which can be used to block    *)
(* it: a member of set is a collider, and a collider has a or b among its  *)
(* descendants.                                                            *)
InducingPath(g, set, a, b) ==
  LET ancestral == AncestorsOrSelf(g, {a, b})
      Induces(q) ==
        LET Collider(j) == {q[j - 1], q[j + 1]} \subseteq g[q[j]]
        IN  /\ \A j \in 1..Len(q) - 1 : Linked(g, q[j], q[j + 1])
            /\ \A j \in 2..Len(q) - 1 :
                 /\ q[j] \in set => Collider(j)
                 /\ Collider(j) => q[j] \in ancestral
  IN  \E k \in 1..Cardinality(DOMAIN g) - 2 : \E s \in [1..k -> DOMAIN g \ {a, b}] :
        IsInjectiveSeq(s) /\ Induces(<<a>> \o s \o <<b>>)

DConvex(g, set) ==
  \A a, b \in set : a < b /\ ~Linked(g, a, b) => ~InducingPath(g, set, a, b)

(* Every child of what is left out, if it is an ancestor of the set, has   *)
(* pairwise adjacent parents, but for pairs inside the set.                *)
LinearlyOrdered(g, set) ==
  \A w \in ChildrenOrSelf(g, DOMAIN g \ set) \cap AncestorsOrSelf(g, set) :
    \A p1, p2 \in g[w] : p1 # p2 => {p1, p2} \subseteq set \/ Linked(g, p1, p2)

IsConvex(g, kind, set) ==
  DConvex(g, set) /\ (kind = "strong_d_convex_hull" => LinearlyOrdered(g, set))

(* The least convex superset of ids.                                       *)
IsLeastHull(g, kind, ids, set) ==
  /\ ids \subseteq set
  /\ IsConvex(g, kind, set)
  /\ \A other \in {o \cup ids : o \in SUBSET (DOMAIN g \ ids)} :
       ~(set \subseteq other) => ~IsConvex(g, kind, other)

(* What is returned is contained in every (strongly) d-convex superset of  *)
(* required, and is one itself.                                            *)
HullIsLeast == answer = "ok" => IsLeastHull(pa, call, required, h)

(* The n + 1 rounds that the two loops are given are always enough: every  *)
(* round that does not end its loop adds a vertex.                         *)
FixedPointIsReached == answer # "HullFixedPointNotReached"

(* One shortest path for each pair is collected where the documentation    *)
(* speaks of all of them; the vertices of the others get into the hull in  *)
(* a later round.                                                          *)
TieBreakIsImmaterial ==
  answer = "ok" =>
    \A p \in TargetPairs(pa, required) :
      \A path \in ShortestPaths(pa, Vertex \ required, p) : path \subseteq h
==============================================================================
