SPECIFICATION Spec
CONSTANTS
    Requests = {r1, r2}
    r1 = r1
    r2 = r2
    Times = {soon, later}
    soon = soon
    later = later
    Absent = Absent
    HasErrorHandler = TRUE
    MaxIds = 3
    MaxCalls = 2
    MaxOperations = 4
    MaxFailures = 1
    MaxFaults = 1
SYMMETRY Symmetry
INVARIANTS NextAlarmTells PromisedAlarmIsSet PurgedMeansGone
           UpdatesAreKept RetryKnowsFailure
PROPERTY AlarmsAreHeard
CHECK_DEADLOCK FALSE
