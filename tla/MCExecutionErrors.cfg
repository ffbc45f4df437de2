SPECIFICATION Spec
CONSTANTS
    e1 = e1
    e2 = e2
    r1 = r1
    r2 = r2
    None = None
    NoKey = NoKey
    execd = execd
    Execs = {e1}
    Refs = {r1}
    RefOf <- OneRef
    Activators = {}
    MaxLaunches = 2
    MaxAttempts = 2
    Strikes = 2
    BudgetsSet = TRUE
    MaxCrashes = 1
    MaxErrors = 1
INVARIANT BudgetKillsRepeatOffenders
INVARIANT RunningIsNotSuspended
PROPERTY ImplementsJobQueue
CHECK_DEADLOCK FALSE
