SPECIFICATION FairSpec
CONSTANTS
  c1 = c1
  c2 = c2
  s1 = s1
  s2 = s2
  NewOrderSingle = NewOrderSingle
  ExecutionReport = ExecutionReport
  Other = Other
  None = None
  Coroutine <- TwoCoroutines
  Session <- TwoSessions
  RequestType <- OrdersAndUntyped
  ResponseType <- AnyResponse
  MaxCalls = 1
  MaxReplies = 1
  MaxQueue = 6
INVARIANTS
  TypeOK
  PromiseIsLive
  RegisteredUnlessContended
  OneTaker
PROPERTIES
  ImplementsSchedule
  EveryCreateEnds
CHECK_DEADLOCK FALSE
