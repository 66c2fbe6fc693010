SPECIFICATION LiveSessionSpec
CONSTANTS
    Plan <- LinuxPlan
    Faults = {"fail", "killedUndo"}
    Role = "server"
    MaxSessions = 2
INVARIANT CleanExit
PROPERTIES ManagerContract InterruptEnds
CHECK_DEADLOCK FALSE
