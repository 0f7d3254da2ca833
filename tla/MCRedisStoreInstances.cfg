CONSTANTS
    InfoHash = {h1}
    Peer = {p1}
    Caller = {c1}
    Reader = {}
    Instance = {g1, g2}
    PeerLifetime = 1
    Lag = 0
    MaxTime = 1
    MaxFailures = 0
    Absent = Absent

SPECIFICATION Spec

INVARIANTS
    CountersSettle

CHECK_DEADLOCK FALSE
