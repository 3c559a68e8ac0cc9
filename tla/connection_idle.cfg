SPECIFICATION FairSpec
CONSTANTS
    Chan = {a}
    Request <- Programs
    Item <- Lines
    ReqBuf = 1
    MaxSent = 3
CHECK_DEADLOCK FALSE
PROPERTIES IdleBotsDropped
