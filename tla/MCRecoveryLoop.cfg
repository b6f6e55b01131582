SPECIFICATION Spec
CONSTANTS
    Program <- SingleStep
    staleThresholdMs = 2
    recoveryDelayMs = 1
    maxRecoveryAttempts = 1
    purgeDelayMs = 1
    MaxTime = 20
    MaxEffect = 1
    MaxLate = 1
    MaxRuns = 1
    MaxCrashes = 3
    MaxEvictions = 0
INVARIANT RecoveriesBounded
CHECK_DEADLOCK FALSE
