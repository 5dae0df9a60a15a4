CONSTANTS
    MSS = 2
    U32 = 4
    Sender = Sender
    Receivers = {r1, r2}
    NoPeer = NoPeer
    ISN <- MCISN
    MayLose = TRUE
    MayDuplicate = TRUE
    MayFail = TRUE
    MayCrash = TRUE
SPECIFICATION HandshakeSpec
INVARIANTS
    HandshakeTypeOK
    PeerIsReady
    ConnectedToPeer
    InFlightAgrees
PROPERTIES
    ConnectsAsAgreed
CHECK_DEADLOCK FALSE
