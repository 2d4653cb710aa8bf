CONSTANTS
    n1 = n1  n2 = n2  n3 = n3  i1 = i1
    Nodes = {n1, n2, n3}
    Planners = {n1, n2}
    Names = {i1}
    Nil = Nil  NoDef = NoDef  NoPlan = NoPlan
    MaxVersion = 2
    MaxUUID = 3
    MaxCas = 12
    Scenarios <- MCScenarios
SPECIFICATION Spec
PROPERTY PlanVersionNeverFalls PlanConverges
CHECK_DEADLOCK FALSE
