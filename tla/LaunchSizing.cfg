SPECIFICATION Spec
CONSTANTS
    Parts = 10
    l1 = l1
    l2 = l2
    t1 = t1
    t2 = t2
    Launches = {l1, l2}
    TwoNode = {l1}
    WorkerTotal = 12782
    WorkerAvails = {4000, 6700}
    Unloads = TRUE
    Tenants = {t1, t2}
    ParamsOf <- MCParams
    ReclaimList <- MCReclaim
    Margin = 1000
    BusyPolls = 1
    WaitPolls = 1
    NodeTotal = 12782
    Baseline = 1000
    TenantMem = 3000
    Working = {t2}
    StatsFail = TRUE
INVARIANT TypeOK
INVARIANT PlanMatchesReading
INVARIANT OverIsOver
INVARIANT NodeUnderCeiling
PROPERTY RestartsOnlyWhenShort
PROPERTY StepsAreCounted
PROPERTY LaunchEnds
CHECK_DEADLOCK FALSE
