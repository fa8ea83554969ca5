CONSTANTS
  Methods = {"exact", "exact_dag", "exact_dag_sparse", "exact_tree"}
  Graphs <- MCGraphs
  ValueFns <- MCValueFns
  NaNSets <- MCNaNSets
  Configs <- MCConfigs
  MaxCount <- MCMaxCount
  MaxNodes <- MCMaxNodes
SPECIFICATION Spec
INVARIANTS EveryOrderOnce CountsAreFinal ExactValues EvaluatedOnce NaNIsContained
  RefusalsAreRight
CHECK_DEADLOCK FALSE
