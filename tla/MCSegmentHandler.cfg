CONSTANTS
    MSS = 2
    U32 = 16
    WindowSize = 3
    DataFlags <- MCOneFlag
    HeapSegments <- MCHeapSegments
    MayFail = FALSE
SPECIFICATION HandlerSpec
INVARIANTS
    HandlerTypeOK
    StorageShape
    CutOnce
    NothingLost
    SpinsOnlyOnWrap
    WindowConsecutive
PROPERTIES
    WindowFollowsAck
    OnlyForward
