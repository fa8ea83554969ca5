CONSTANTS
  Samples = {1, 3}
  Seeds = {63}
  Threads = {0, 2, 4}
  PoolSizes = {1, 2, 3}
  None = None
  Width = 6
SPECIFICATION Spec
INVARIANTS StreamsDiffer ResultIsComplete
PROPERTIES Returns
CHECK_DEADLOCK FALSE
