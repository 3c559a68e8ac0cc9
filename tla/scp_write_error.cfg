SPECIFICATION Spec
CONSTANTS
    Sizes = {2}
    MaxPayload = 2
    Marks = {}
    Faults = {"write"}
    MaxRecords = 1
INVARIANTS ProtocolIntact
CHECK_DEADLOCK FALSE
