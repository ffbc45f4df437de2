SPECIFICATION FairSpec
CONSTANTS
    j1 = j1
    j2 = j2
    j3 = j3
    k1 = k1
    NoKey = NoKey
    Jobs <- MCJobs
    PriorityOf <- MCPriority
    DedupeOf <- MCDedupe
    Workers = {w1, w2}
    ClaimLimit = 1
    MaxAttempts = 3
    Modes = {"reset_alone", "reset_overlapping", "no_reset"}
    MaxCrashes = 2
    ReportsFail = TRUE
INVARIANT TypeOK
INVARIANT ExclusiveClaims
INVARIANT NoStrandedJob
INVARIANT OneLiveJobPerKey
PROPERTY FinishedIsFinal
PROPERTY EveryJobFinishes
CHECK_DEADLOCK FALSE
