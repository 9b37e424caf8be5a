SPECIFICATION Spec
CONSTANTS
    a = a
    j = j
    k = k
    b = b
    c = c
    o1 = o1
    o2 = o2
    none = none
    NoLocker = none
    Locker <- MCLockers
    Object = {o1, o2}
    ParentOf <- MCParent
    ThreadOf <- MCThread
    Stray = {c}
    TimesOut = {a}
    Requests <- MCRequests
    MaxRequests = 2
    Detector = {d1, d2}
SYMMETRY MCSymmetry
INVARIANTS
    TypeOK
    HoldersCompatible
    NobodyWaitsForNothing
PROPERTIES
    FindsDeadlocks
CHECK_DEADLOCK FALSE
