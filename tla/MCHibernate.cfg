CONSTANTS
    n1 = n1
    n2 = n2
    i1 = i1
    i2 = i2
    x = x
    Indexes = {i1, i2, x}
    Nodes = {n1, n2}
    Scenarios <- MCScenarios
SPECIFICATION Spec
INVARIANT OutcomeIsReported
  
CHECK_DEADLOCK FALSE
