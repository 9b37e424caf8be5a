\* Two crashes at any point, in recovery too; four records in the log.
SPECIFICATION Spec
CONSTANTS
    t1 = t1
    t2 = t2
    t3 = t3
    p1 = p1
    p2 = p2
    Txn = {t1, t2, t3}
    Page = {p1, p2}
    NoTxn = NoTxn
    Trees <- MCFamily
    MaxLog = 4
    MaxCrash = 2
SYMMETRY MCSymmetry
INVARIANTS
    TypeOK
    PagesRight
    SyncCommitsLast
    RecoveryNeverFails
CHECK_DEADLOCK FALSE
