----------------------------- MODULE MCHookChain -----------------------------
\* Peers p1, p2 and p3 of user u1, peer p4 of user u2, p5 without a passkey,
\* and p6 with a credential that holds none.
EXTENDS HookChain, TLC

CONSTANTS p1, p2, p3, p4, p5, p6, u1, u2

Users ==
    [p \in {p1, p2, p3} |-> u1] @@ (p4 :> u2) @@ (p5 :> NoPasskey) @@ (p6 :> EmptyPasskey)

Config(hooks, peers) == [hooks |-> hooks, peers |-> peers]

\* Each hook with the peers that its cases need, and two hooks in a row.
Setups ==
    {Config(<<"peer limit">>, {p1, p2, p3}),
     Config(<<"traffic push">>, {p1}),
     Config(<<"passkey approval">>, {p1, p4, p5}),
     Config(<<"passkey approval", "peer limit">>, {p1}),
     Config(<<"passkey approval", "peer limit">>, {p6}),
     Config(<<"jwt">>, {p1}),
     Config(<<"jwt optional">>, {p1}),
     Config(<<"interval variation">>, {p1}),
     Config(<<"client approval", "peer limit">>, {p1, p5}),
     Config(<<"connection id">>, {p1})}

PushSetup == {Config(<<"traffic push">>, {p1})}

IntervalSetup == {Config(<<"interval variation">>, {p1})}

Offsets == {-3, 0, 4}

=============================================================================
