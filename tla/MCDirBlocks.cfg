SPECIFICATION Spec
CONSTANTS
  na = na
  nb = nb
  nc = nc
  nd = nd
  Names = {na, nb, nc, nd}
  Size <- MCSize
  DIRBLKSIZ = 10
  Inos = {i1, i2}
  SELF = SELF
  PARENT = PARENT
  MaxBlocks = 3
  None = None
INVARIANT Tiled
PROPERTY IsADirectory
SYMMETRY MCSymmetry
