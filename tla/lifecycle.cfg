SPECIFICATION Spec
CONSTANTS
    Key = {k1, k2}
    NoKey = NoKey
    Torn = Torn
    PowerLoss = TRUE
    MaxLines = 2
INVARIANTS TypeOK StableKey ServedIsStored SyncedBeforeClose
CHECK_DEADLOCK FALSE
