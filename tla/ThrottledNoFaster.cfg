SPECIFICATION Spec
CONSTANTS
    Interval = 4
    Lag = 1
    MaxTime = 16
    MaxMsgs = 3
PROPERTIES
    NoFaster
CHECK_DEADLOCK FALSE
