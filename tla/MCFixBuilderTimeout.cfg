SPECIFICATION FairSpec
CONSTANTS
  c1 = c1
  c2 = c2
  s1 = s1
  s2 = s2
  NewOrderSingle = NewOrderSingle
  ExecutionReport = ExecutionReport
  Other = Other
  None = None
  Coroutine <- OneCoroutine
  Session <- OneSession
  RequestType <- OrdersOnly
  ResponseType <- AnyResponse
  MaxCalls = 1
  MaxReplies = 1
  MaxQueue = 6
PROPERTY TimeoutThrown
CHECK_DEADLOCK FALSE
