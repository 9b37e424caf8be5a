SPECIFICATION Spec
CONSTANTS
    i1 = i1
    i2 = i2
    t1 = t1
    v0 = v0
    v1 = v1
    Iter <- MCOneIter
    Trans <- MCNoTrans
    NoTrans = NoTrans
    NullTrans = NullTrans
    NumRec = 3
    MaxDup = 1
    Val <- MCVals
    Empty = v0
    Absent = Absent
    NoObject = NoObject
    HasCompare = TRUE
    Contended = FALSE
    Careful = FALSE
    Shared = FALSE
PROPERTIES
    SubscriptKeepsOthers
CHECK_DEADLOCK FALSE
