CONSTANTS
    Entries = 3
    Handles = 2
    SmallTable = 1
    CutsOpen = FALSE
    Standard = 2
    Redirected = {1}
    Procs = {p1, p2, p3}
    Streams = {x, y}
    MaxCount = 2
SPECIFICATION Spec
SYMMETRY Interchangeable
INVARIANTS TypeOK CountsMatch HostStreams CopyAgrees
PROPERTY HandleKeepsFile
CHECK_DEADLOCK FALSE
