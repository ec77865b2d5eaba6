SPECIFICATION Spec
CONSTANTS
  c1 = c1
  c2 = c2
  s1 = s1
  s2 = s2
  NewOrderSingle = NewOrderSingle
  ExecutionReport = ExecutionReport
  Other = Other
  None = None
  Coroutine <- OneCoroutine
  Session <- OneSession
  RequestType <- OrdersOnly
  ResponseType <- ReportsOnly
  MaxCalls = 2
  MaxReplies = 1
  MaxQueue = 6
INVARIANT ReplyMatches
CHECK_DEADLOCK FALSE
