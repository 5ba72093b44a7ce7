SPECIFICATION Spec
CONSTANTS
  Kernels = {"v6", "29", "211"}
  BUFHSZ = 2
  Bufs = {x1, x2}
  FSize = 3
  BlknoRange = 8
  ImageSize = 0
  Values = {v0, v1}
  Zero = v0
  NULL = NULL
  NONE = NONE
  OK = OK
  EIO = EIO
  MayFail = {"write"}
  MaxHeld = 1
INVARIANTS TypeOK DirtyKeepsItsBlock
PROPERTIES CacheIsAStore
