SPECIFICATION Spec
CONSTANTS
    Conn = {c1, c2, c3}
    Host = {h1, h2}
    NoHost = NoHost
    MaxConn = 2
    AuthThreshold = 3
    MaxAuthTries = 2
SYMMETRY Symmetry
INVARIANTS TypeOK SlotAccounting HarvestExact CounterOwned
PROPERTIES GateSpec
CHECK_DEADLOCK FALSE
