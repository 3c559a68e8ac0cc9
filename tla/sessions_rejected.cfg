SPECIFICATION Spec
CONSTANTS
    i1 = i1
    i2 = i2
    i3 = i3
    root = root
    NoText = NoText
    AuthRecords <- MCAuthRecords
    SessionRecords <- MCSessionRecords
    ServerRecords <- MCServerRecords
    DIRTY_DATES <- MCDirtyDates
    RepeatedTimes <- MCDirtyDates
    TicksPerSecond = 1000
    Places <- MCPlaces
    Micro = 10
    TicksPerHour = 2000
    FeedbackMin = 1
    VolumeMax = 2
    SPRAY_MIN_IPS = 2
    SprayWindow = 1000
    TmpPaths = {"/tmp/x"}
    MaxLines = 4
INVARIANTS AcceptedIsMarked
CHECK_DEADLOCK FALSE
