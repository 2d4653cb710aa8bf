SPECIFICATION Spec
CONSTANTS
    n1 = n1
    n2 = n2
    i1 = i1
    i2 = i2
    p1 = p1
    p2 = p2
    Nodes = {n1, n2}
    Indexes = {i1, i2}
    PIndexes = {p1, p2}
    NoNode = NoNode
    ErrThreshold = 2
    Scenarios <- MCScenarios
INVARIANT ServedByCaughtUp
 
CHECK_DEADLOCK FALSE
