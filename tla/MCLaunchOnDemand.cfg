SPECIFICATION LiveSpec
CONSTANTS
    v1 = v1
    v2 = v2
    None = None
    Visitors = {v1, v2}
    MaxExecutions = 2
    Limit = 1
    CacheAge = 1
    MaxQuery = 1
    MaxFailures <- AloneOrTogether
    MaxAttempts = 2
    Ban = Ban
INVARIANTS TypeOK RoutesAgeOut NoSecondLaunch SuspendedIsNotLaunched
 
