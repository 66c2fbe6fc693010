SPECIFICATION LiveSessionSpec
CONSTANTS
    Plan <- MacPlan
    Faults = {"fail", "killedUndo"}
    Role = "client"
    MaxSessions = 2
INVARIANT CleanExit
PROPERTIES ManagerContract InterruptEnds
CHECK_DEADLOCK FALSE
