CONSTANTS
    h1 = h1
    h2 = h2
    p6 = p6
    InfoHash <- MCInfoHash
    Peer <- MCPeer
    IPv4 = IPv4
    IPv6 = IPv6
    Family <- MCFamily
    Prefix <- MCPrefix
    ShardCount = 1
    PeerLifetime = 2
    Lag = 1
    MaxTime = 2
    Caller = {c1}
    Absent = Absent
SPECIFICATION FairSpec
INVARIANTS
    TypeOK
    CountersMatch
    SwarmsMatch
    CollectsAllStale
PROPERTIES
    ImplementsPeerStore
    StaleCollected
    StopCompletes
CHECK_DEADLOCK FALSE
