CONSTANTS
    MSS = 2
    U32 = 16
    WindowSize = 3
    DataFlags <- MCNoFlags
    HeapSegments <- MCAnyHeap
    Sender = Sender
    Receivers = {r1}
    NoPeer = NoPeer
    MayStop = FALSE
    Sizes <- MCFaultySizes
    Capacity = 15
    MaxFaults = 1
    MayFail = TRUE
    MayBeLate = TRUE
SPECIFICATION Spec
INVARIANTS
    TypeOK
    StoredFits
    CutContinues
    AckOnlyStored
    CloseWaitMeansPeerCloses
CHECK_DEADLOCK FALSE
