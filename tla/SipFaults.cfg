SPECIFICATION Spec
CONSTANTS
    w1 = w1
    w2 = w2
    Writer = {w1, w2}
    Packet = {p1, p2}
    Plans <- Faulty
    SockCap = 1
    RxCap = 1
    AckCap = 2
    RespCap = 2
INVARIANTS AckedMeansAccepted QueuesNeverFill
PROPERTY ImplementsPacketChannel
CHECK_DEADLOCK FALSE
SYMMETRY Packets
