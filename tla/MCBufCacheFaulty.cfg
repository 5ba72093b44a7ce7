SPECIFICATION FairSpec
CONSTANTS
  Kernels = {"v6", "v7", "29", "211"}
  BUFHSZ = 2
  Bufs = {x1, x2}
  FSize = 3
  BlknoRange = 8
  ImageSize = 2
  Values = {v0}
  Zero = v0
  NULL = NULL
  NONE = NONE
  OK = OK
  EIO = EIO
  MayFail = {"read", "write"}
  MaxHeld = 1
INVARIANTS AvailableIffNotBusy OneBufferPerBlock
PROPERTIES EveryCallReturns
