CONSTANTS
    Nodes = {n1, n2}
    Planners = {n1, n2}
    Ctls = {ctl}
    Modes = {"wanted"}
    Nil = Nil
    MaxVersion = 2
    MaxTries = 2
    MaxCheckTries = 2
    MaxCalls = 1
    MaxRestarts = 1
    MaxCas = 12
SPECIFICATION Spec
INVARIANT RegistrationsAreKept UnregisteredIsGone
PROPERTY VersionNeverFalls
CHECK_DEADLOCK FALSE
