SPECIFICATION SYSpec
CONSTANTS
    y1 = y1  y2 = y2
    Syncers = {y1, y2}
    Paths = {p1}
    Label <- SharedLabel
    DeletePct = 50
    SkipSync = FALSE
    LastChange = 1
INVARIANT OwnFilesOnly
CHECK_DEADLOCK FALSE
