SPECIFICATION FairSpec
CONSTANTS
    Sizes = {0, 1, 3}
    MaxMsgs = 3
INVARIANTS
    TypeOK
    OverrunByNext
PROPERTIES
    BroadcastSpec
    AllDelivered
    EndNoticed
CHECK_DEADLOCK FALSE
