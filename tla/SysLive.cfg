SPECIFICATION FairSpec
CONSTANTS
    p1 = p1
    p2 = p2
    p3 = p3
    u1 = u1
    u2 = u2
    sig = sig
    nobody = nobody
    nopid = nopid
    anypid = anypid
    Pid = {p1, p2}
    Root = p1
    Recyclable = {p2}
    User = {u1, u2}
    Main = u1
    Sig = sig
    NoThread = nobody
    NoPid = nopid
    AnyPid = anypid
    Faults <- LiveFaults
CONSTRAINT OneThreadBelow
PROPERTIES
    InterruptTerminates
    ExitTerminates
    WaitReturnsPid
