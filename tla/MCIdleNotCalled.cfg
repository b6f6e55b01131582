SPECIFICATION Spec
CONSTANTS
    Requests = {r1, r2}
    r1 = r1
    r2 = r2
    Absent = Absent
    Definitions <- Tasks
    Sending <- Senders
    MaxIds = 2
    MaxCalls <- FewCalls
    MaxFailures = 2
    MaxFaults = 0
    MaxCount = 3
PROPERTY IdleWhenUnscheduled
CHECK_DEADLOCK FALSE
