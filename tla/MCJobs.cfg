SPECIFICATION Spec
CONSTANTS
    Requests = {r1, r2}
    r1 = r1
    r2 = r2
    Absent = Absent
    Definitions <- AllKinds
    Sending <- Senders
    MaxIds = 2
    MaxCalls <- Calls
    MaxFailures = 2
    MaxFaults = 1
    MaxCount = 3
SYMMETRY Symmetry
INVARIANTS TypeOK AlarmGuardsJob PurgedMeansEmpty WorkIsKept FlushedOnce
           AlarmIsRecorded AnswersAreTrue
PROPERTY IdleMeansUnscheduled
CHECK_DEADLOCK FALSE
