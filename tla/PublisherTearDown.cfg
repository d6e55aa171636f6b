SPECIFICATION FairSpec
CONSTANTS
    Conn = {c1}
    Latched = FALSE
    BodyBytes = 6
    MaxMsgs = 1
PROPERTIES
    TearDownEnds
CHECK_DEADLOCK FALSE
