CONSTANTS
    Lines = {0, 1}
    Masks <- NoMasks
    Initialised = {}
    AutoEoi = {FALSE}
    SpecialNest = {FALSE}
    SpecialMask = {FALSE}
    BiosLines = {1}
    MaxNesting = 3
    Kinds = {"char", "ext", "null"}
    MaxKeys = 3
    BufSlots = 4
    Polls = FALSE
SPECIFICATION KeySpec
INVARIANTS KeyTypeOK NoKeyLost KeyStored
PROPERTIES KeyboardServed KeyDelivered
CHECK_DEADLOCK FALSE
