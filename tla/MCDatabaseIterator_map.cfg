SPECIFICATION FairSpec
CONSTANTS
    i1 = i1
    i2 = i2
    t1 = t1
    v0 = v0
    v1 = v1
    Iter <- MCIters
    Trans <- MCNoTrans
    NoTrans = NoTrans
    NullTrans = NullTrans
    NumRec = 3
    MaxDup = 2
    Val <- MCOneVal
    Empty = v0
    Absent = Absent
    NoObject = NoObject
    HasCompare = FALSE
    Contended = FALSE
    Careful = TRUE
    Shared = TRUE
PROPERTIES
    ImplementsSortedMap
    EraseRangeSound
    EraseRangeEnds
CHECK_DEADLOCK FALSE
