SPECIFICATION HostSpec
CONSTANTS
    t1 = t1
    t2 = t2
    None = None
    Track <- MCTrack
    Duration <- MCDuration
    MaxPosition = 0
    RestartThreshold = 0
    MaxQueue = 2
    MaxHistory = 0
    MaxTasks = 1
INVARIANTS
    HostTypeOK
    HeardIsPlaying
PROPERTIES
    RadioPlaysOn
    FailureIsReported
CHECK_DEADLOCK FALSE
