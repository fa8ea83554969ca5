----------------------------- MODULE MCEstimators -----------------------------
EXTENDS Estimators

(* The chain 0 -> 1 -> 2 beside the free node 3: its four topological      *)
(* orders have frontier weights 2, 4, 8 and 8, so the maximum can rise     *)
(* twice within one call.  And two chains of two: 6 orders, too many to    *)
(* count.                                                                  *)
ChainAndOne == [i \in Node |-> CASE i = 1 -> {0} [] i = 2 -> {1} [] OTHER -> {}]
TwoChains == [i \in Node |-> CASE i = 1 -> {0} [] i = 3 -> {2} [] OTHER -> {}]
MCGraphs == {ChainAndOne, TwoChains}
MCFrontierGraphs == {ChainAndOne}

(* An interaction, negative values and a quadratic; a constant; and two    *)
(* that are NaN on a coalition some or all orders pass through.            *)
MCValueFns ==
  { [S \in SUBSET Node |-> Cardinality(S) * Cardinality(S) - IF {1, 3} \subseteq S THEN 7 ELSE 3],
    [S \in SUBSET Node |-> 2],
    [S \in SUBSET Node |-> IF S = {0} THEN NaN ELSE Cardinality(S)],
    [S \in SUBSET Node |-> IF S = {} THEN NaN ELSE Cardinality(S)] }

Config(weights, large, table, limits, variant, targets, batches, mins) ==
  [weights : {weights}, large : {large}, table : table, memory_limit_bytes : limits,
   variant : {variant}, target : targets, batch : batches, min : mins]

FrontierConfigs ==
  UNION {Config("frontier", FALSE, {FALSE}, {0}, c[1], c[2], c[3], c[4]) :
    c \in {<<"serial", {0, 3}, {0}, {0}>>, <<"batched", {0, 3}, {0, 2}, {0}>>,
           <<"adaptive", {0, 2, 4}, {0, 1, 2}, {0, 3}>>,
           <<"adaptive_batched", {0, 2, 4}, {0, 1, 2}, {0, 3}>>}}

(* The large copies, with a cache that holds half of the eight coalitions  *)
(* and batches of two.                                                     *)
LargeConfigs ==
  UNION {Config("frontier", TRUE, {FALSE}, {0}, c[1], c[2], c[3], c[4]) :
    c \in {<<"serial", {0, 3}, {0}, {0}>>, <<"batched", {0, 3}, {0, 2}, {0}>>,
           <<"adaptive", {3}, {0, 1, 2}, {2, 4}>>,
           <<"adaptive_batched", {3}, {0, 1, 2}, {2, 4}>>}}

(* Just room for the seven entries of the memo of the chain and one; none. *)
UniformConfigs ==
  Config("uniform", FALSE, BOOLEAN, {560, 559}, "serial", {0, 3}, {0}, {0})
  \cup UNION {Config("uniform", FALSE, {FALSE}, {560, 559}, m, {0, 3}, {0, 1, 2}, {0, 2, 4}) :
                m \in {"adaptive", "adaptive_batched"}}

MCConfigs == FrontierConfigs \cup LargeConfigs \cup UniformConfigs

MCRelTol == <<1, 10>>
MCEssRatioMin == <<3, 4>>
==============================================================================
