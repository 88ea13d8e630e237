SPECIFICATION Spec
CONSTANTS
    t1 = t1
    t2 = t2
    b1 = b1
    b2 = b2
    b3 = b3
    nobody = nobody
    noblock = noblock
    Thread = {t1, t2}
    Main = t1
    Block = {b1, b2, b3}
    SizeMax = 2
    NoThread = nobody
    NoBlock = noblock
SYMMETRY Blocks
INVARIANTS
    TypeOK
    Balance
    UnderflowNeedsReset
    LeakWarning
