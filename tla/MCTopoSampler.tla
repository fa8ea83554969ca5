---- MODULE MCTopoSampler ----
(* Every DAG on the nodes, two samples into one scratch area and one       *)
(* coalition.                                                              *)
EXTENDS LargeWalk
====
