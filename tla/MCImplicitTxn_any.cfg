SPECIFICATION Spec
CONSTANTS
    d1 = d1
    d2 = d2
    t1 = t1
    t2 = t2
    null = null
    none = none
    Db <- MCDb
    Trans <- MCTwoTrans
    NullTrans = null
    NoTrans = none
    FailingCommits = TRUE
    Nesting = TRUE
SYMMETRY MCTwoSymmetry
INVARIANTS
    TypeOK
    HandlersMatchImplicit
    NothingLost
    ClosedIsQuiet
    DanglingHasACause
PROPERTIES
    ImplicitKeptUntilEnd
    EndClearsImplicit
CHECK_DEADLOCK FALSE
