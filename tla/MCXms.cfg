CONSTANTS
    TotalKb = 4
    MaxHandle = 3
    MaxLock = 2
    Sizes = {0, 2, 3}
    MaxBlocks = 4
SPECIFICATION Spec
INVARIANTS TypeOK NothingLost BlocksInside
PROPERTIES Promised LockedStays
CHECK_DEADLOCK FALSE
