------------------------------ MODULE Estimators ------------------------------
(***************************************************************************)
(* One call of one of the twelve approximate methods: the eight estimators *)
(* over frontier draws (ImportanceSampling) and the four over uniform ones *)
(* (UniformSampling).  `config.weights` says which kind of draws.          *)
(***************************************************************************)
EXTENDS UniformSampling

CONSTANT FrontierGraphs    (* bound: where the first eight are checked      *)

ASSUME FrontierGraphsAssumption == FrontierGraphs \subseteq InputGraphs

evars == <<vars, memo>>

Init ==
  /\ memo = {}
  /\ \/ Start(0) /\ ~Uniform /\ pa \in FrontierGraphs
     \/ Start(1) /\ Uniform

EstimatorNext == (~Uniform /\ Shared(Next)) \/ (Uniform /\ UniformNext)

(* One thread of straight-line code; the value function is assumed to      *)
(* return or raise.                                                        *)
Spec == Init /\ [][EstimatorNext]_evars /\ WF_evars(EstimatorNext)
------------------------------------------------------------------------------
(* Every call returns: no batch size, memory limit or failure makes the    *)
(* rounds go on for ever (the `batch_size == 0` checks of src/approx.rs).  *)
Terminates == <>(pc = "done")
==============================================================================
