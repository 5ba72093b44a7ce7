SPECIFICATION AnySpec
CONSTANTS
  NICFREE = 2
  s_isize = 1
  s_fsize = 7
  NULL = NULL
  NONE = NONE
  Junk <- MCJunk
INVARIANTS
  DfExact
  CleanIsSaved
  ChainExists
  SavedChainSound
PROPERTIES
  FreeListImplementsSet

