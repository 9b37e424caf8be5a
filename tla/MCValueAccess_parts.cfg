SPECIFICATION Spec
CONSTANTS
    s1 = s1
    s2 = s2
    Stream = {s1, s2}
    Getter = {t1}
    Byte = {1}
    MaxLen = 2
    MaxChunk = 2
    Absent = Absent
    Default = Default
SYMMETRY MCSymmetry
INVARIANTS
    TypeOK
    ReadsAreContiguous
    WritesStay
PROPERTIES
    GetIsExact
