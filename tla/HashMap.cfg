SPECIFICATION Spec
CONSTANTS
    k1 = k1
    k2 = k2
    k3 = k3
    k4 = k4
    v1 = v1
    v2 = v2
    none = none
    nobody = nobody
    Key = {k1, k2, k3, k4}
    Value = {v1, v2}
    NoValue = none
    Hash <- Hashes
    InitialCap = 1
    Nobody = nobody
INVARIANTS
    TypeOK
    RightChain
    LoadBounded
PROPERTIES
    Map
