------------------------------ MODULE MCTracker ------------------------------
\* Three peers, and the announces that they send.
EXTENDS Tracker

CONSTANTS a, b, c

Announce(p, f, e, s, n) ==
    [peer |-> p, front |-> f, event |-> e, seeding |-> s, numWant |-> n]

\* a starts to download, completes and stops; b seeds; c downloads.
Announces ==
    {Announce(a, "http", "none", FALSE, Unprovided),
     Announce(a, "compact", "completed", TRUE, 3),
     Announce(a, "udp", "stopped", TRUE, 0),
     Announce(b, "compact", "none", TRUE, 1),
     Announce(c, "compact", "none", FALSE, 3)}

=============================================================================
