CONSTANTS
  Name = {a, b, c, d}
  MaxEdges = 4
SPECIFICATION Spec
SYMMETRY MCSymmetry
INVARIANTS ListsMirror
PROPERTIES VerdictIsRight LayersAreDepths CopiesKeepEdges
