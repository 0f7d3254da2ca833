CONSTANTS
    a = a
    b = b
    c = c
    Peer = {a, b, c}
    IPv6Peer = {c}
    Handler = {h1, h2}
    Request <- Announces
    MaxNumWant = 2
    DefaultNumWant = 1
    Unprovided = Unprovided
SPECIFICATION FairSpec
INVARIANTS
    ResponseBounded
    OnlyClaimed
    StoppedLeaves
    CompletedGraduates
PROPERTIES
    BestListing
    AnnounceApplied
