SPECIFICATION FairSpec
CONSTANTS
    Chan = {a}
    Request <- Requests
    Item <- Items
    ReqBuf = 1
    MaxSent = 4
CHECK_DEADLOCK FALSE
INVARIANTS RepliesInOrder LogOrdered
PROPERTIES MultiplexerRuns GoroutinesEnd
