SPECIFICATION Spec
CONSTANTS
    k1 = k1
    k2 = k2
    v0 = v0
    v1 = v1
    none = none
    MaxTxn = 3
    MaxCursors = 0
    Key <- MCKeys
    Val <- MCVals
    InitStore <- MCInitStore
    NoImage = none
    ParentMayOperate = FALSE
SYMMETRY MCSymmetry
INVARIANTS
    TypeOK
    LocksCompatible
    ReadsSeeOwnView
PROPERTIES
    ImplementsAtomicStore
    RepeatableRead
CHECK_DEADLOCK FALSE
