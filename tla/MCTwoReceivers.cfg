CONSTANTS
    MSS = 2
    U32 = 16
    WindowSize = 2
    DataFlags <- MCNoFlags
    HeapSegments <- MCZeroHeap
    MayFail = TRUE
    Sender = Sender
    Receivers = {r1, r2}
    NoPeer = NoPeer
    MayStop = FALSE
    Sizes <- MCShortSizes
    Capacity = 7
    MaxFaults = 1
    MayBeLate = TRUE
    ISN <- MCISN
SPECIFICATION SessionSpec
INVARIANTS
    OneReceives
    CloseWaitMeansPeerCloses
    AckStoredOrOfHandshake
CHECK_DEADLOCK FALSE
