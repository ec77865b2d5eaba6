SPECIFICATION Spec
CONSTANTS
    comp = comp
    msgType = msgType
    seqNum = seqNum
    qty = qty
    flag = flag
    foreign = foreign
    one = one
    half = half
    s1 = s1
    s2 = s2
    s3 = s3
    order = order
    report = report
    none = none
    Name <- Names
    Tags <- InTagOrder
    FixTypeOf <- Types
    Comp = comp
    MsgType = msgType
    Whole <- Numbers
    Fraction <- Fractions
    Word <- Words
    Session <- TwoSessions
    NewOrderSingle = order
    ExecutionReport = report
    Foreign <- NoFieldNames
    JsonHeads <- JsonHeadObjects
    JsonBodies <- JsonBodyObjects
    FixHeads <- Heads
    FixBodies <- Bodies
    None = none
    MaxRequests = 2
INVARIANTS TypeOK SentIsAsked AnswerIsReply RefusedUnsent SentWhereNamed
CHECK_DEADLOCK FALSE
