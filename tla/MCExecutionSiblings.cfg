SPECIFICATION Spec
CONSTANTS
    e1 = e1
    e2 = e2
    r1 = r1
    r2 = r2
    None = None
    NoKey = NoKey
    execd = execd
    Execs = {e1, e2}
    Refs = {r1}
    RefOf <- OneRef
    Activators = {}
    MaxLaunches = 2
    MaxAttempts = 1
    Strikes = 1
    BudgetsSet = FALSE
    MaxCrashes = 1
    MaxErrors = 0
INVARIANT OneStableOwner
INVARIANT StoppedIsUnpublished
SYMMETRY SameRef
CHECK_DEADLOCK FALSE
