SPECIFICATION Spec
CONSTANTS
  Inos = {ROOT, i1, i2, i3, i4}
  ROOT = ROOT
  Names = {a, b}
  MaxDepth = 3
  MaxLink = 127
  EPB = 2
  MaxUsedFull = 4
  MaxSurplus = 2
SYMMETRY MCSymmetry
CONSTRAINT MCSmallWhenFull
INVARIANTS TreeShape LinksCoverEntries
PROPERTIES IsAFileTree
