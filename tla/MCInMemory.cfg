SPECIFICATION Spec
CONSTANTS
    Instances = {a, b}
    a = a
    b = b
    Times = {1, 2}
    Absent = Absent
    HasErrorHandler = TRUE
    MaxIds = 3
    MaxDepth = 3
    MaxCalls = 3
    MaxOperations = 4
    MaxFailures = 2
SYMMETRY Symmetry
INVARIANTS StatesAreSeparate TickLosesNoAlarm
CHECK_DEADLOCK FALSE
