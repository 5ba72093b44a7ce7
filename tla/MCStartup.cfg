SPECIFICATION Spec
CONSTANTS
  HostRange = 12
  Width = 8
  MaxFsid = 3
  DefaultHost = 10
  INC = 2
  MaxEntries = 3
  Releases = {"v6", "v7"}
  MaxSize = 14
  MaxN = 6
  MaxMapped = 0
INVARIANTS TypeOK IdsAgree FreedOnce
CHECK_DEADLOCK FALSE
