SPECIFICATION FairSpec
CONSTANTS
    e1 = e1
    e2 = e2
    r1 = r1
    r2 = r2
    None = None
    NoKey = NoKey
    execd = execd
    Execs = {e1}
    Refs = {r1}
    RefOf <- OneRef
    Activators = {a1}
    MaxLaunches = 2
    MaxAttempts = 2
    Strikes = 2
    BudgetsSet = FALSE
    MaxCrashes = 1
    MaxErrors = 0
INVARIANT TypeOK
INVARIANT RoutesPassedHealthCheck
INVARIANT RestartDropsRoutes
PROPERTY JobsFinish
CHECK_DEADLOCK FALSE
