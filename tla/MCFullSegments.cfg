CONSTANTS
    MSS = 2
    U32 = 16
    WindowSize = 3
    DataFlags <- MCNoFlags
    HeapSegments <- MCZeroHeap
    Sender = Sender
    Receivers = {r1}
    NoPeer = NoPeer
    MayStop = FALSE
    Sizes <- MCFullSize
    Capacity = 15
    MaxFaults = 0
    MayFail = FALSE
    MayBeLate = FALSE
SPECIFICATION FairSpec
PROPERTY
    BothClose
CHECK_DEADLOCK FALSE
