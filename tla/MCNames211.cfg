SPECIFICATION Spec
CONSTANTS
  ROOT = ROOT
  Inos = {ROOT, i1, i2, i3}
  Slots = {rootslot, s1, s2}
  rootslot = rootslot
  Names = {a, b}
  MaxDepth = 2
  NCache = 2
  FDs = {fd1}
  None = None
  MaxSurplus = 0
SYMMETRY MCSymmetry
CONSTRAINT MCFewLinks
INVARIANTS SlotsInStep CacheAgrees 
PROPERTY IsAFileTree
