SPECIFICATION Spec
CONSTANTS
    Client = {c1, c2}
    Faults = {"slow"}
INVARIANT JoinedOnReturn
CHECK_DEADLOCK FALSE
