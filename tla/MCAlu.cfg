CONSTANTS
    Loaded <- AllLoaded
    Moved <- BoundaryWords
    ByteOperands <- Boundaries
    WordOperands <- BoundaryWords
    Counts <- ShiftCounts
SPECIFICATION Spec
INVARIANTS TypeOK SumsExact DecimalExact ShiftsAreRepeated ProductsExact
