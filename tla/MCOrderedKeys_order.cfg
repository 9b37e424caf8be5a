SPECIFICATION Spec
CONSTANTS
    Kind = {"int16", "int32", "int64", "float", "default", "cs", "cis", "uint16ThenBinary"}
    Careful = TRUE
    Keys <- MCKeys
    Partial <- MCPartial
    Upper <- MCUpper
    Half = 8
    MaxByte = 7
CHECK_DEADLOCK FALSE
INVARIANTS
    TypeOK
    EveryKeyFound
    PageInOrder
    PartialRangeIsThePrefix
PROPERTIES
    PartialFindLands
