CONSTANTS
    MSS = 2
    U32 = 16
    WindowSize = 3
    DataFlags <- MCNoFlags
    HeapSegments <- MCZeroHeap
    MayFail = FALSE
    Sender = Sender
    Receivers = {r1, r2}
    NoPeer = NoPeer
    MayStop = FALSE
    Sizes <- MCOneSize
    Capacity = 15
    MaxFaults = 0
    MayBeLate = FALSE
    ISN <- MCISN
SPECIFICATION SessionSpec
INVARIANTS
    SavedHoldsFile
CHECK_DEADLOCK FALSE
