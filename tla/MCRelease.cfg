CONSTANTS
    MSS = 2
    U32 = 16
    WindowSize = 3
    DataFlags <- MCNoFlags
    HeapSegments <- MCZeroHeap
    Sender = Sender
    Receivers = {r1}
    NoPeer = NoPeer
    MayStop = FALSE
    Sizes <- MCOneSize
    Capacity = 15
    MaxFaults = 1
    MayFail = FALSE
    MayBeLate = FALSE
SPECIFICATION Spec
INVARIANT
    ReleasedIsStored
CHECK_DEADLOCK FALSE
