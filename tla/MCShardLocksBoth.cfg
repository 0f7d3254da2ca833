CONSTANTS
    Thread = {t1, t2, t3, t4}
    IPv4 = IPv4
    IPv6 = IPv6
    Announcers <- BothFamilies
    Nobody = Nobody

SYMMETRY Symmetry

SPECIFICATION Spec

INVARIANTS
    NoDeadlock
