SPECIFICATION FairSpec
CONSTANTS
    na = na
    nb = nb
    v1 = v1
    v2 = v2
    v3 = v3
    k1 = k1
    k2 = k2
    NoOne = NoOne
    Node = {na, nb}
    Server = {v1, v2, v3}
    Home <- Pair
    Call = {k1, k2}
    Thread <- Nested
    Mortal = {na}
    Stoppable = {na}
    Empty = {k2}
    Throws = {k1}
    MaxServers = 2
INVARIANTS
    TypeOK
    InStep
PROPERTIES
    RpcSpec
    Registrations
    CallsEnd
    ConnectionsEnd
CHECK_DEADLOCK FALSE
