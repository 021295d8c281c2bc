\* two operations at three servers, three terms, one broken connection
SPECIFICATION Spec
CONSTANTS
    n1 = n1
    n2 = n2
    n3 = n3
    p1 = p1
    p2 = p2
    Node = {n1, n2, n3}
    Caller = {p1, p2}
    MaxCalls = 2
    MaxTerm = 3
    MaxOps = 2
    MaxBroken = 1
VIEW View
SYMMETRY Symmetry
ACTION_CONSTRAINT Narrowed
CONSTRAINT Busy
CHECK_DEADLOCK FALSE
INVARIANTS
    TypeOK
    RealTimeOrder
    UniqueValues
    NobodyWaitsInVain
