SPECIFICATION HttpSpec
CONSTANTS
    c1 = c1
    c2 = c2
    none = none
    Coroutine <- TwoCoroutines
    First = c1
    None = none
    Parts = 1
    MaxReads = 2
    MaxResponses = 3
    MaxQueue = 1
    BufferSize = 2
    MaxRequests = 3
INVARIANT RequestOnce
CHECK_DEADLOCK FALSE
