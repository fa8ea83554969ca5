---- MODULE MCDagBuild ----
(* Four names: every graph on up to four nodes and four edges, cycles      *)
(* included, in every order of construction.                               *)
EXTENDS DagBuild, TLC

MCSymmetry == Permutations(Name)
====
