SPECIFICATION Spec
CONSTANTS
    Interval = 4
    Lag = 3
    MaxTime = 18
    MaxMsgs = 4
INVARIANTS
    RateBound
    Timely
PROPERTIES
    OnlyNewer
    SpacedSends
CHECK_DEADLOCK FALSE
