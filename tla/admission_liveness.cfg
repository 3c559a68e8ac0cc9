SPECIFICATION FairSpec
CONSTANTS
    Conn = {c1, c2, c3}
    Host = {h1}
    NoHost = NoHost
    MaxConn = 2
    AuthThreshold = 2
    MaxAuthTries = 2
PROPERTIES HandshakeBounded BacklogDrained SlotReturned ShutdownCompletes
CHECK_DEADLOCK FALSE
