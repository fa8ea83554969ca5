CONSTANTS
  Samples = {4}
  Seeds = {42, 43}
  Threads = {0, 1, 2}
  PoolSizes = {2}
  None = None
  Width = 6
SPECIFICATION Spec
INVARIANT UsesAllSamples
CHECK_DEADLOCK FALSE
