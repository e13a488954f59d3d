SPECIFICATION Spec
CONSTANTS
    t1 = t1
    t2 = t2
    None = None
    Track <- MCTrack
    Duration <- MCDuration
    MaxPosition = 2
    RestartThreshold = 1
    MaxQueue = 3
    MaxHistory = 1
INVARIANTS
    TypeOK
    CursorMarksCurrent
    SavedOrderMatchesQueue
