SPECIFICATION SessionSpec
CONSTANTS
    Plan <- MacPlan
    Faults = {"killedDo"}
    Role = "client"
    MaxSessions = 2
INVARIANT CleanExit
CHECK_DEADLOCK FALSE
