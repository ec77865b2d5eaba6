SPECIFICATION HttpFairSpec
CONSTANTS
    c1 = c1
    c2 = c2
    none = none
    Coroutine <- TwoCoroutines
    First = c1
    None = none
    Parts = 2
    MaxReads = 2
    MaxResponses = 2
    MaxQueue = 1
    BufferSize = 2
    MaxRequests = 2
INVARIANTS HttpTypeOK OneListener WaitIsAnswered OwnResult
INVARIANTS HandledInOrder AnsweredInOrder
PROPERTIES ImplementsSchedule HangUpEnds EveryRequestEnds
CHECK_DEADLOCK FALSE
