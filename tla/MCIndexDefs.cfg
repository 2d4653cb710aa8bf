CONSTANTS
    i1 = i1  i2 = i2  s1 = s1  p1 = p1  p2 = p2
    c1 = c1  c2 = c2
    Names = {i1, i2}
    Sources = {s1}
    Partitionings = {p1, p2}
    MaxUUID = 6
    MaxVersion = 2
    NoDef = NoDef
    Clients = {c1, c2}
    Requests <- CollidingRequests
    NoReq = NoReq
    Nil = Nil
    MgrVersion <- OneOldManager
    MaxTries = 2
    MaxCas = 6
SPECIFICATION Spec
 
PROPERTY Linearizable RetriesEnd FrozenKeepsPartitioning
CHECK_DEADLOCK FALSE
