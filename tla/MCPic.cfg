CONSTANTS
    Lines = {0, 1, 10}
    Masks <- DeviceMasks
    Initialised = {0}
    AutoEoi = {FALSE}
    SpecialNest = {FALSE}
    SpecialMask = {FALSE}
    BiosLines = {0, 1}
    MaxNesting = 4
SPECIFICATION Spec
INVARIANTS TypeOK InServiceOwned StrictNesting
PROPERTIES NoMaskedInterrupt
