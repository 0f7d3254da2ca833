CONSTANTS
    InfoHash = {h1}
    Peer = {p1}
    Caller = {c1}
    Reader = {r1}
    Instance = {g1}
    PeerLifetime = 2
    Lag = 0
    MaxTime = 2
    MaxFailures = 1
    Absent = Absent

SPECIFICATION FairSpec

INVARIANTS
    SwarmsListed
    CountersSettle
    NobodyMissed
    CollectsAllStale

PROPERTIES
    CollectsOnlyStale
    ImplementsSharedStore
    StaleCollected
    EmptyUnlisted

CHECK_DEADLOCK FALSE
