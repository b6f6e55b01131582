SPECIFICATION FairSpec
CONSTANTS
    Program <- SlowRetrySleep
    staleThresholdMs = 1
    recoveryDelayMs = 1
    maxRecoveryAttempts = 1
    purgeDelayMs = 1
    MaxTime = 22
    MaxEffect = 0
    MaxLate = 0
    MaxRuns = 1
    MaxCrashes = 2
    MaxEvictions = 1
INVARIANT RetriesKeepTheirDelay
PROPERTIES AcceptedEnds EndedIsDeleted
CHECK_DEADLOCK FALSE
