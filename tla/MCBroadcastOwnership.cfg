SPECIFICATION Spec
CONSTANTS
    Window = {v, w}
    Session = {s1, s2, s3, s4, s5, s6}
    MaxEvents = 4
    None = None
INVARIANTS
    TypeOK
    ServedIsShown
    ReadyOrExcused
CHECK_DEADLOCK FALSE
PROPERTIES
    ComesToRest
    OnAirOrExcused
