---- MODULE MCStaleHandle ----
(* A caller who keeps the NodeIds that add_node returned and goes on using *)
(* them after cutting the graph down with induced_subgraph.                *)
EXTENDS DagBuild

VARIABLES
  held,   (* the ids kept, each with the name it was given for             *)
  used    (* the ids passed to the last add_edge                           *)

HandleInit == Init /\ held = {} /\ used = {}

KeepHandle(name) ==
  /\ AddNode(name)
  /\ held' = held \cup {[id |-> IdOf(dag', name), name |-> name]}
  /\ used' = {}

UseHandles(h, k) ==
  /\ AddEdge(h.id, k.id)
  /\ used' = {h, k}
  /\ UNCHANGED held

CutDown(keep) ==
  /\ Induce(keep)
  /\ used' = {}
  /\ UNCHANGED held

HandleNext ==
  \/ \E name \in Name : KeepHandle(name)
  \/ \E h, k \in held : UseHandles(h, k)
  \/ \E keep \in SUBSET NodesOf(dag) : CutDown(keep)

HandleSpec == HandleInit /\ [][HandleNext]_<<vars, held, used>>

Stale(h) == h.id \notin NodesOf(dag) \/ dag.names[h.id] # h.name

(* src/graph.rs, on NodeId: valid only for the Dag that created it;        *)
(* passing one from a different or stale Dag returns an error.             *)
StaleHandlesRefused == (\E h \in used : Stale(h)) => answer # "ok"
====
