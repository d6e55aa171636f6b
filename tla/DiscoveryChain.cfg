SPECIFICATION FairSpec
CONSTANTS
    na = na
    nb = nb
    nc = nc
    nd = nd
    la = la
    lb = lb
    lc = lc
    t1 = t1
    t2 = t2
    p1 = p1
    p2 = p2
    p3 = p3
    p4 = p4
    s1 = s1
    s2 = s2
    s3 = s3
    Node = {na, nb, nc, nd}
    Loop = {la, lb, lc}
    Pub = {p1, p2, p3, p4}
    Sub = {s1, s2, s3}
    Home <- ChainHome
    Topic <- ChainTopic
    LoopOf <- ChainLoops
    Mortal = {la, lb}
    MaxObjects = 4
INVARIANTS
    TypeOK
    RegistryLive
    MasterAgrees
    OneFeed
    Unblocked
PROPERTIES
    CallsEnd
    Connects
CHECK_DEADLOCK FALSE
