------------------------------ MODULE CpdagHull ------------------------------
(***************************************************************************)
(* The hull of a Dag the caller has built, or of a Cpdag (src/cpdag.rs):   *)
(* `Cpdag::strong_d_convex_hull` takes one consistent extension and        *)
(* returns the hull of that.                                               *)
(***************************************************************************)
EXTENDS Cpdag, DConvexHull

HullsInit == Init /\ HullInit

CpdagStep == stage = "idle" /\ Next /\ UNCHANGED hullVars

(* A caller without a Cpdag: it has a Dag of its own.                      *)
CallDag ==
  /\ pc = "build" /\ names = << >> /\ stage = "idle"
  /\ \E g \in Graphs : \E kind \in Kinds, ids \in Arguments(g) : Call(g, kind, ids)
  /\ UNCHANGED vars

(* consistent_extension()? has returned the extension.                     *)
CallExtension ==
  /\ result = "ok" /\ stage = "idle"
  /\ LET g == ParentsIn(Elems(oriented))
     IN  \E ids \in Arguments(g) : Call(g, "strong_d_convex_hull", ids)
  /\ UNCHANGED vars

HullsNext ==
  \/ CpdagStep
  \/ CallDag
  \/ CallExtension
  \/ HullStep /\ UNCHANGED vars

HullsSpec == HullsInit /\ [][HullsNext]_<<vars, hullVars>>
------------------------------------------------------------------------------
(* The ways to direct every undirected edge.                               *)
Orientations ==
  LET up == {e \in undirected : e[1] < e[2]}
  IN  {directed \cup t \cup {<<e[2], e[1]>> : e \in up \ t} : t \in SUBSET up}

(* The hull of a Cpdag is the hull in all its consistent extensions, not   *)
(* only in the one it was computed from.                                   *)
SameHullInEveryExtension ==
  result = "ok" /\ answer = "ok" =>
    \A edges \in {o \in Orientations : IsExtension(o)} :
      IsLeastHull(ParentsIn(edges), call, required, h)
==============================================================================
