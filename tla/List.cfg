SPECIFICATION Spec
CONSTANTS
    v1 = v1
    v2 = v2
    none = none
    junk = junk
    n1 = n1
    n2 = n2
    n3 = n3
    n4 = n4
    null = null
    array = array
    linked = linked
    Value = {v1, v2}
    NoValue = none
    Junk = junk
    MaxLen = 5
    Node = {n1, n2, n3, n4}
    Null = null
    Index = {0}
    ARRAY_LIST_IMPL = array
    LINKED_LIST_IMPL = linked
SYMMETRY Nodes
INVARIANTS
    TypeOK
    NoJunk
    WellLinked
PROPERTIES
    AnyList
