SPECIFICATION Spec
CONSTANTS
    p = p
    q = q
    x = x
    y = y
    A = A
    B = B
    Proc = {p, q}
    Key = {1, 2}
    Value = {x, y}
    SecKey = {A, B}
    Indexes = 2
    Extract <- MCExtract
    DoNotIndex = DoNotIndex
    Absent = Absent
    MaxOps <- MCMaxOps
INVARIANTS
    TypeOK
    IndexesMatch
    NeverBad
    PgetFindsTheKey
    CirclesNeedAReplacement
CONSTRAINT MCUnspoilt
