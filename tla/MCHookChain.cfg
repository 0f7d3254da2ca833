CONSTANTS
    p1 = p1
    p2 = p2
    p3 = p3
    p4 = p4
    p5 = p5
    p6 = p6
    u1 = u1
    u2 = u2
    Peer = {p1, p2, p3, p4, p5, p6}
    Passkey = {u1, u2, empty}
    EmptyPasskey = empty
    NoPasskey = NoPasskey
    User <- Users
    Handler = {h1, h2}
    Setup <- Setups
    PeerLifetime = 2
    RetryCount = 2
    MaxCount = 2
    MaxAnnounces = 2
    CacheTTL = 2
    Never = Never
    Key = {k1}
    NoToken = NoToken
    Half = 4
    ProbabilityRange = 2
    Threshold = 1
    MaxIncreaseDelta = 3
    ModifyMinInterval = TRUE
    Second = 2
    TTL = 4
    MaxClockSkew = 2
    Offset <- Offsets
    Address = {x, y}
    StampRange = 16
    FirstTick = 4
    LastTick = 12
    Whitelist = {}
    Blacklist = {p1}
SPECIFICATION FairSpec
INVARIANTS
    SetsExpire
    LimitedByOverlap
    NeverOvercounts
    NothingLost
    KeysCurrent
    OnlyApproved
PROPERTIES
    ConnectionWindow
    LockReleased
    NotShutOut
    WithdrawnForgotten
    KeysFollow
