SPECIFICATION LiveSpec
CONSTANTS
    w1 = w1
    w2 = w2
    Writer = {w1, w2}
    Packet = {p1}
    Plans <- Lively
    SockCap = 1
    RxCap = 2
    AckCap = 2
    RespCap = 2
INVARIANTS EndsForCause NoLockUp
PROPERTIES EveryWriteAcked CloseReleasesAll
CHECK_DEADLOCK FALSE
