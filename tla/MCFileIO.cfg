CONSTANTS
  b1 = b1  b2 = b2
  Blocks <- MCBlocks
  Kernels = {"v6", "v7", "29", "211"}
  i1 = i1  i2 = i2
  Inos <- MCInos
  Names = {"a"}
  NOFILE = 2
  BSIZE = 2  BnRange = 4  MaxBlocks = 2  MaxSeek = 4  Chunk = 2
  Bytes = {1}
  Flags <- MCFlags
  MaxCount = 3
  ReadFails = TRUE  Wide = FALSE
SPECIFICATION Spec
SYMMETRY MCSymmetry
INVARIANTS HeldByDescriptors BlocksOwnedOnce
PROPERTY IsAFileStore
