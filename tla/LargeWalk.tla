------------------------------- MODULE LargeWalk -------------------------------
(***************************************************************************)
(* The serial loop of `approximate_asv_large` (src/approx_large.rs), as    *)
(* far as its buffers go: an order is drawn into the scratch area, then    *)
(* walked with one coalition, which is cleared for each sample and whose   *)
(* words are looked up in the cache for each prefix.  What is done with    *)
(* the values is ImportanceSampling's.                                     *)
(***************************************************************************)
EXTENDS TopoSampler, LargeCoalition

ASSUME NumberedAssumption == Node = 0..(Cardinality(Node) - 1)

VARIABLES
  walking,   (* between the drawing of an order and the end of its walk    *)
  walked,    (* nodes of it that have been inserted                        *)
  coalition  (* its words: they stay what they are between two walks       *)

walkVars == <<walking, walked, coalition>>

WalkInit ==
  /\ Init
  /\ walking = FALSE /\ walked = 0
  /\ coalition = Empty(Cardinality(Node))

Sample ==
  /\ ~walking
  /\ Begin \/ PickAny \/ RelaxAny \/ EndTurn
  /\ UNCHANGED walkVars

(* The order is there: coalition.clear().                                  *)
StartWalk ==
  /\ ~walking
  /\ Return
  /\ walking' = TRUE /\ walked' = 0
  /\ coalition' = Clear(coalition)

Advance ==
  /\ walking /\ walked < Len(ordering)
  /\ coalition' = Insert(coalition, ordering[walked + 1])
  /\ walked' = walked + 1
  /\ UNCHANGED <<vars, walking>>

EndWalk ==
  /\ walking /\ walked = Len(ordering)
  /\ walking' = FALSE
  /\ UNCHANGED <<vars, walked, coalition>>

WalkNext == Sample \/ StartWalk \/ Advance \/ EndWalk

WalkSpec == WalkInit /\ [][WalkNext]_<<vars, walkVars>> /\ WF_<<vars, walkVars>>(WalkNext)
------------------------------------------------------------------------------
(* At every look-up the packed words stand for the nodes walked and no     *)
(* other, whatever the sample before has left in them: the value function  *)
(* is given exactly the prefix, in ascending order, and the words are the  *)
(* cache key of that set alone.                                            *)
CoalitionIsPrefix ==
  walking =>
    /\ ToSortedNodes(coalition) = Ascending(Prefix(ordering, walked))
    /\ \A i \in Node : HasNode(coalition, i) <=> i \in Prefix(ordering, walked)
==============================================================================
