SPECIFICATION Spec
CONSTANTS
    v1 = v1
    v2 = v2
    none = none
    junk = junk
    Value = {v1, v2}
    NoValue = none
    Priority = {0, 1, 2}
    Junk = junk
    MaxLen = 5
SYMMETRY Values
INVARIANTS
    TypeOK
    HeapOrdered
    HeapInv
PROPERTIES
    Queue
