CONSTANTS
    Mem = {m1, m2}
    Null = Null
    PhysPages = 2
    MaxPages = 2
    MaxHandles = 3
    Tables <- MCTables
    LowHalf <- MCLow
    HighHalf <- MCHigh
    MaxCopies = 1
SPECIFICATION Spec
SYMMETRY MemSymmetry
INVARIANTS TypeOK FrameIsLive PagesConserved
PROPERTY SavedIsKept
CHECK_DEADLOCK FALSE
