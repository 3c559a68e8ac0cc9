SPECIFICATION Spec
CONSTANTS
    f = f
    g = g
    i1 = i1
    i2 = i2
    Unknown = Unknown
    Logs <- MCLogs
    Sids <- MCSids
    DIRTY_DATES <- MCDirtyDates
    MinCmds = 1
    KB = 20
    NoText = NoText
    TicksPerSecond = 100
    Places <- MCPlaces
    Micro = 1
    FoldMin = 2
    Magic <- MCMagic
    NormTarget <- MCNorm
    TextLess <- MCLater
INVARIANTS SpliceInvisible ShapesStable ReplayInOrder BinariesIntact
CHECK_DEADLOCK FALSE
