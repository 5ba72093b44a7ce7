SPECIFICATION FairSpec
CONSTANTS
  Kernels = {"v6", "29", "211"}
  Inos = {1, 2, 3}
  INOPB = 2
  NINODE = 2
  NICINOD = 2
  Behind = 2
  MaxLinks = 2
  MaxEntries = 2
  MaxRefs = 2
  MayHappen <- MCMayHappen
  ENOSPC = ENOSPC
  ENFILE = ENFILE
  NONE = NONE
INVARIANTS TypeOK OneSlotPerInode LinkedIsKept FreeIsCounted
PROPERTIES HandsOutFreeOnly  IallocReturns
