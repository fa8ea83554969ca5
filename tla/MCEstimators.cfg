CONSTANTS
  Node = {0, 1, 2, 3}
  NaN = NaN
  InputGraphs <- MCGraphs
  FrontierGraphs <- MCFrontierGraphs
  ValueFns <- MCValueFns
  Configs <- MCConfigs
  Scale = 48
  RelTol <- MCRelTol
  EssRatioMin <- MCEssRatioMin
  CacheCap = 4
  ChunkSize = 2
  MaxCount = 5
SPECIFICATION Spec
INVARIANTS SumsAreCommensurate EvaluatedOnce UnwrapNeverFails ReportsDraws
  ConvergedComparesTwoTests OverflowCostsNoCalls
PROPERTIES Terminates
CHECK_DEADLOCK FALSE
