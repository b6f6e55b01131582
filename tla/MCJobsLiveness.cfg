SPECIFICATION FairSpec
CONSTANTS
    Requests = {r1}
    r1 = r1
    Absent = Absent
    Definitions <- RetriedKinds
    Sending <- Senders
    MaxIds = 1
    MaxCalls <- FewCalls
    MaxFailures = 2
    MaxFaults = 1
    MaxCount = 3
PROPERTIES EventsAreSettled ContinuousKeepsRunning RetriesEnd
CHECK_DEADLOCK FALSE
