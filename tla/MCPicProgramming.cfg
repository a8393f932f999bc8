CONSTANTS
    Lines = {1, 9}
    Masks <- LateMasks
    Initialised = {0, 1}
    AutoEoi = {TRUE, FALSE}
    SpecialNest = {TRUE, FALSE}
    SpecialMask = {TRUE, FALSE}
    BiosLines = {1}
    MaxNesting = 2
SPECIFICATION Spec
PROPERTIES NoLostRequest
