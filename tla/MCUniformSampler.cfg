CONSTANTS
  Node = {0, 1, 2, 3}
  MaxSamples = 2
  MaxCount = 8
SPECIFICATION Spec
INVARIANT OverflowAtOnce
PROPERTIES Uniform ImplementsLinearExtension
CHECK_DEADLOCK FALSE
