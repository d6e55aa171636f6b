SPECIFICATION FairSpec
CONSTANTS
    c1 = c1
    c2 = c2
    c3 = c3
    Conn = {c1, c2, c3}
    Asks <- OneWild
    MaxOpen = 2
INVARIANTS
    TypeOK
    OnlyUnfinishedLeak
PROPERTIES
    RpcSpec
    Served
CHECK_DEADLOCK FALSE
