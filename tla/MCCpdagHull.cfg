SPECIFICATION HullsSpec
CONSTANTS
  Name = {a, b, c, d}
  DagNodes = 5
  Graphs <- NumberedDags
SYMMETRY Symmetry
INVARIANTS
  ExtensionIsConsistent
  RefusalIsRight
  HullIsLeast
  FixedPointIsReached
  TieBreakIsImmaterial
  SameHullInEveryExtension
CHECK_DEADLOCK FALSE
