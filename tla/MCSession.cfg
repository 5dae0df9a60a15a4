CONSTANTS
    MSS = 2
    U32 = 16
    WindowSize = 3
    DataFlags <- MCAnyFlags
    HeapSegments <- MCZeroHeap
    MayFail = FALSE
    Sender = Sender
    Receivers = {r1}
    NoPeer = NoPeer
    MayStop = TRUE
    Sizes <- MCReliableSizes
    Capacity = 15
    MaxFaults = 0
    MayBeLate = FALSE
    ISN <- MCISN
SPECIFICATION SessionFairSpec
INVARIANTS
    SavedHoldsFile
    RepliesAccounted
PROPERTIES
    DeliversInOrder
    ConnectsAsAgreed
    SessionEnds
CHECK_DEADLOCK FALSE
