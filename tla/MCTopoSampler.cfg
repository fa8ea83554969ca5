CONSTANTS
  Node = {0, 1, 2, 3}
  MaxSamples = 2
  Bits = 3
SPECIFICATION WalkSpec
INVARIANTS TypeOK FrontierExact CoalitionIsPrefix
PROPERTIES WeightStep ImplementsLinearExtension SampleEnds
CHECK_DEADLOCK FALSE
