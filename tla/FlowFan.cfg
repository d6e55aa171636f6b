SPECIFICATION FairSpec
CONSTANTS
    ta = ta
    tb = tb
    NoTopic = NoTopic
    Loop = {1, 2, 3}
    Topic = {ta, tb}
    Link = {1, 2, 3}
    At <- FanAt
    From <- FanFrom
    To <- FanTo
    Relay <- FanRelay
    Room = 2
    MaxMsgs = 4
INVARIANTS
    TypeOK
    NothingLost
    Unblocked
PROPERTIES
    BroadcastSpec
    Flows
CHECK_DEADLOCK FALSE
