SPECIFICATION Spec
CONSTANTS
    s1 = s1
    s2 = s2
    s3 = s3
    a1 = a1
    a2 = a2
    a3 = a3
    a4 = a4
    null = null
    Handle = {s1, s2, s3}
    Addr = {a1, a2, a3, a4}
    Null = null
    Char = {0, 1}
    Text <- Texts
    Start = {0}
    MaxLen = 3
SYMMETRY Symmetric
INVARIANTS
    TypeOK
    RefCountExact
    NoOverrun
PROPERTIES
    Strings
