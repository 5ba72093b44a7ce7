SPECIFICATION Spec
CONSTANTS
    MaxOpen = 2
    Users = {0, 1}
INVARIANTS
    NothingKept
    EveryCallEnds
    SuccessIsDone
    RenameKeepsItsFile
CHECK_DEADLOCK FALSE
