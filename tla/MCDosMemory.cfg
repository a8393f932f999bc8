CONSTANTS
    MemStart = 1
    MemEnd = 15
    PspParas = 1
    JftParas = 1
    MinResident = 1
    EnvSizes = {1}
    Images <- MCImages
    Requests <- MCRequests
    Strategies = {0, 1, 2}
SPECIFICATION Spec
INVARIANTS TypeOK ArenaTiled OwnersKnown ProcessesHeld ReturnChain Lineage
           AsWalked
PROPERTY OthersUntouched
CHECK_DEADLOCK FALSE
