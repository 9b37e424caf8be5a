SPECIFICATION Spec
CONSTANTS
    k1 = k1
    k2 = k2
    v0 = v0
    v1 = v1
    none = none
    MaxTxn = 4
    MaxCursors = 1
    Key <- MCOneKey
    Val <- MCVals
    InitStore <- MCInitOneKey
    NoImage = none
    ParentMayOperate = FALSE
INVARIANTS
    TreeOK
CHECK_DEADLOCK FALSE
