SPECIFICATION Spec
CONSTANTS
  Kernels = {"v6"}
  BUFHSZ = 2
  Bufs = {x1, x2}
  FSize = 3
  BlknoRange = 4
  ImageSize = 0
  Values = {v0}
  Zero = v0
  NULL = NULL
  NONE = NONE
  OK = OK
  EIO = EIO
  MayFail = {}
  MaxHeld = 1
INVARIANTS OneBufferPerBlock
