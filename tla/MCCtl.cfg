CONSTANTS
    n1 = n1  n2 = n2  w1 = w1
    Nodes = {n1, n2}
    Self = n1
    Watchers = {w1}
    MaxOps = 2
    Scenarios <- MCScenarios
    ProgCap = 1
SPECIFICATION Spec
INVARIANT TopologyChangesAlone
PROPERTY WatchersSeeChanges ApiCallsReturn TasksFollowOperations
CHECK_DEADLOCK FALSE
