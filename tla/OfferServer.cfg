SPECIFICATION Spec
CONSTANTS
    Client = {c1, c2}
    Faults = {"slow"}
INVARIANTS BusyHasOneOwner JoinedUnlessForced
PROPERTIES ImplementsOneSession ServeReturns
CHECK_DEADLOCK FALSE
