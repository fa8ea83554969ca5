CONSTANTS
  Name = {a, b, c}
  MaxEdges = 2
SPECIFICATION HandleSpec
INVARIANT StaleHandlesRefused
