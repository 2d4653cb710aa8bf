CONSTANTS
    p1 = p1  p2 = p2
    Keys = {k1, k2}
    Vals = {v1, v2}
    Nil = Nil
    MaxCas = 3
    Clients = {c1, c2}
    BlindClients = {c2}
    Chans = {ch1}
    MaxPending = 1
    McNodes = {p1, p2}
    McSelf = p1
    McPlans <- MCMcPlans
    McClients = {c1, c2}
    McNil = McNil
    McScenarios <- MCMcScenarios
SPECIFICATION MemSpec
INVARIANT CasIdentifiesValue ChangeIsAnnounced  CoverIsRight RecoveryPlanIsLatest
PROPERTY ImplementsContract
