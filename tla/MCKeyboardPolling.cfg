CONSTANTS
    Lines = {0, 1}
    Masks <- NoMasks
    Initialised = {}
    AutoEoi = {FALSE}
    SpecialNest = {FALSE}
    SpecialMask = {FALSE}
    BiosLines = {1}
    MaxNesting = 3
    Kinds = {"char", "null"}
    MaxKeys = 2
    BufSlots = 3
    Polls = TRUE
SPECIFICATION KeySpec
PROPERTY KeyDelivered
CHECK_DEADLOCK FALSE
