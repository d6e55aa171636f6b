SPECIFICATION Spec
CONSTANTS
    Interval = 3
    Lag = 4
    MaxTime = 16
    MaxMsgs = 3
INVARIANTS
    NeverSilent
    MostRecent
    RepeatsBounded
CHECK_DEADLOCK FALSE
