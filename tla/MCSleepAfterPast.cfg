SPECIFICATION Spec
CONSTANTS
    Program <- PastSleep
    staleThresholdMs = 2
    recoveryDelayMs = 1
    maxRecoveryAttempts = 2
    purgeDelayMs = 1
    MaxTime = 9
    MaxEffect = 1
    MaxLate = 1
    MaxRuns = 1
    MaxCrashes = 0
    MaxEvictions = 0
INVARIANT SleepsSurvive
CHECK_DEADLOCK FALSE
