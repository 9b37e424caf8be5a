SPECIFICATION Spec
CONSTANTS
    i1 = i1
    i2 = i2
    t1 = t1
    v0 = v0
    v1 = v1
    Iter <- MCOneIter
    Trans <- MCTrans
    NoTrans = NoTrans
    NullTrans = NullTrans
    NumRec = 2
    MaxDup = 1
    Val <- MCOneVal
    Empty = v0
    Absent = Absent
    NoObject = NoObject
    HasCompare = TRUE
    Contended = TRUE
    Careful = FALSE
    Shared = TRUE
INVARIANTS
    TypeOK
CHECK_DEADLOCK FALSE
