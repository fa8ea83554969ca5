CONSTANTS
  Methods = {"exact_dag_sparse"}
  Graphs <- MCGraphs
  ValueFns <- MCValueFns
  NaNSets <- MCNaNSets
  Configs <- MCConfigs
  MaxCount <- MCMaxCount
  MaxNodes <- MCMaxNodes
SPECIFICATION Spec
INVARIANT MemoryWithinLimit
CHECK_DEADLOCK FALSE
