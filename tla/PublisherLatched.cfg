SPECIFICATION FairSpec
CONSTANTS
    Conn = {c1, c2}
    Latched = TRUE
    BodyBytes = 6
    MaxMsgs = 2
INVARIANTS
    TypeOK
    HeaderThenRun
    PoolWatched
PROPERTIES
    TopicSpec
    DeadPeerLeavesPool
    HelloJoins
CHECK_DEADLOCK FALSE
