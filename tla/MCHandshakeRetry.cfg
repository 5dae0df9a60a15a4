CONSTANTS
    MSS = 2
    U32 = 4
    Sender = Sender
    Receivers = {r1}
    NoPeer = NoPeer
    ISN <- MCISN
    MayLose = FALSE
    MayDuplicate = FALSE
    MayFail = FALSE
    MayCrash = FALSE
SPECIFICATION HandshakeFairSpec
PROPERTIES
    HandshakeRetriedOrReported
CHECK_DEADLOCK FALSE
