CONSTANTS
  Graphs <- MCGraphs
  Raises = {"InvalidConfig", "Overflow", "ExactTreeBudgetExceeded", "ValueFunctionError"}
SPECIFICATION DispatchSpec
CHECK_DEADLOCK FALSE
INVARIANTS
  AlwaysAnswers SampledIffOverBudget PreflightMatchesGuard FallbackIsTrue
  PropagatesUnlessMistaken
