CONSTANTS
    Thread = {t1, t2, t3, t4}
    IPv4 = IPv4
    IPv6 = IPv6
    Announcers <- IPv4Only
    Nobody = Nobody

SPECIFICATION FairSpec

INVARIANTS
    SnapshotReads
    NoDeadlock

PROPERTIES
    MethodsReturn
