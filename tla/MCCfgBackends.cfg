CONSTANTS
    p1 = p1  p2 = p2  c1 = c1  c2 = c2  c3 = c3  k1 = k1
    Keys = {k1, k2}
    Vals = {v1}
    Nil = Nil
    MaxCas = 3
    Clients = {c1}
    BlindClients = {c1}
    Chans = {}
    MaxPending = 1
    SaveCanFail = TRUE
    MaxCrashes = 1
    NoFile = NoFile
    Torn = Torn
    Procs = {p1, p2}
    Callers = {c1, c2, c3}
    Watcher = Watcher
    Nothing = Nothing
    Before = Before
    KvScenarios <- MCKvScenarios
    CbProcs = {p1, p2}
    CbCallers = {c1, c2}
    CbProcOf <- MCCbProcOf
    CbWatched <- MCCbWatched
    MaxFaults = 1
SPECIFICATION BackendsSpec
INVARIANT AcknowledgedIsDurable RegistrationsAreSplit PointerNamesWholePlan PlanReadWasCurrent  ChangeIsOnItsWay
PROPERTY OnlyOwnKeyChanges
CHECK_DEADLOCK FALSE
