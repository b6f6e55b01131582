SPECIFICATION Spec
CONSTANTS
    Program <- LimitedSleepsStep
    staleThresholdMs = 2
    recoveryDelayMs = 1
    maxRecoveryAttempts = 2
    purgeDelayMs = 1
    MaxTime = 10
    MaxEffect = 1
    MaxLate = 1
    MaxRuns = 2
    MaxCrashes = 1
    MaxEvictions = 1
INVARIANTS ExecutionIsExclusive TransitionsAreLegal PausedHasAlarm
           ReplayResumesWhereItStopped PurgedInstanceIsClean
PROPERTY LifecycleSpec
CHECK_DEADLOCK FALSE
