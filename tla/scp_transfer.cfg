SPECIFICATION FairSpec
CONSTANTS
    Sizes = {0, 1, 2, 3}
    MaxPayload = 2
    Marks = {"dir", "times"}
    Faults = {"open", "write", "rename"}
    MaxRecords = 2
INVARIANTS IntactUnlessWriteFails QuarantineHonest AckedIsCaptured NoMutualWait
PROPERTIES ReceiverEnds
CHECK_DEADLOCK FALSE
