SPECIFICATION RSpec
CONSTANTS
    ChunkSize = 900
    MTU = 1280
    Lengths = {900, 901}
    IdSpace = 2
    Expiry = 1
    Life = 1
    PendingCap = 1
    CompletedCap = 1
    MaxPackets = 3
    MaxTime = 3
    RxCap = 1
    Modes = {"calm", "stormy"}
INVARIANTS NoDuplicates NothingLost NeverRejected TypeOK
PROPERTIES ImplementsLossyChannel DoneReleasesAll
CHECK_DEADLOCK FALSE
