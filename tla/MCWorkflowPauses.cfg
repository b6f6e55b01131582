SPECIFICATION EventSpec
CONSTANTS
    Program <- SleepStepUntil
    staleThresholdMs = 2
    recoveryDelayMs = 1
    maxRecoveryAttempts = 2
    purgeDelayMs = 1
    MaxTime = 40
    MaxEffect = 2
    MaxLate = 1
    MaxRuns = 2
    MaxCrashes = 1
    MaxEvictions = 0
INVARIANTS SleepsAreNotRestarted CompletedStepsAreRecorded EndedIsPurged
           EventsAreOrderly EventsTellTheState EventsAreTrue
PROPERTY SleepsLast
CHECK_DEADLOCK FALSE
