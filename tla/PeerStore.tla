----------------------------- MODULE PeerStore -----------------------------
(***************************************************************************)
(* What the interface storage.PeerStore promises of any implementation.     *)
(*                                                                         *)
(* The store remembers, for each pair of an infohash and a peer, the time   *)
(* the peer was last put as a seeder and the time it was last put as a      *)
(* leecher.  A recorded time may be behind real time by at most Lag (the    *)
(* implementations read a cached clock).  Besides the five writing methods  *)
(* the contents change in two ways only: garbage collection forgets pairs   *)
(* whose recorded time is at least PeerLifetime in the past, and a stopped  *)
(* store forgets everything.                                                *)
(***************************************************************************)
EXTENDS Integers

CONSTANTS
    Entry,          \* pairs of an infohash and a peer
    Absent,         \* "not in the map"
    PeerLifetime,   \* Config.PeerLifetime
    Lag             \* how far the cached clock may be behind

VARIABLES
    seeders,        \* [Entry -> time of the last put, or Absent]
    leechers,       \* the same for leechers
    now,            \* real time
    closed          \* Stop has been called

vars == <<seeders, leechers, now, closed>>

Init ==
    /\ seeders = [e \in Entry |-> Absent]
    /\ leechers = [e \in Entry |-> Absent]
    /\ now = 0
    /\ closed = FALSE

Tick ==
    /\ now' = now + 1
    /\ UNCHANGED <<seeders, leechers, closed>>

PutSeeder(e) ==
    /\ \E t \in (now - Lag)..now : seeders' = [seeders EXCEPT ![e] = t]
    /\ UNCHANGED <<leechers, now, closed>>

PutLeecher(e) ==
    /\ \E t \in (now - Lag)..now : leechers' = [leechers EXCEPT ![e] = t]
    /\ UNCHANGED <<seeders, now, closed>>

DeleteSeeder(e) ==
    /\ seeders' = [seeders EXCEPT ![e] = Absent]
    /\ UNCHANGED <<leechers, now, closed>>

DeleteLeecher(e) ==
    /\ leechers' = [leechers EXCEPT ![e] = Absent]
    /\ UNCHANGED <<seeders, now, closed>>

GraduateLeecher(e) ==
    /\ \E t \in (now - Lag)..now : seeders' = [seeders EXCEPT ![e] = t]
    /\ leechers' = [leechers EXCEPT ![e] = Absent]
    /\ UNCHANGED <<now, closed>>

\* m2 is m1 with some of its stale entries forgotten.
Forgets(m1, m2) ==
    /\ m2 \in [Entry -> Int \cup {Absent}]
    /\ \A e \in Entry :
          m2[e] # m1[e] => /\ m2[e] = Absent
                           /\ m1[e] <= now - PeerLifetime

Expire ==
    /\ Forgets(seeders, seeders')
    /\ Forgets(leechers, leechers')
    /\ UNCHANGED <<now, closed>>

Stop ==
    /\ closed' = TRUE
    /\ UNCHANGED <<seeders, leechers, now>>

Forget ==
    /\ closed
    /\ seeders' = [e \in Entry |-> Absent]
    /\ leechers' = [e \in Entry |-> Absent]
    /\ UNCHANGED <<now, closed>>

Next ==
    \/ Tick
    \/ \E e \in Entry :
          \/ PutSeeder(e)
          \/ DeleteSeeder(e)
          \/ PutLeecher(e)
          \/ DeleteLeecher(e)
          \/ GraduateLeecher(e)
    \/ Expire
    \/ Stop
    \/ Forget

Spec == Init /\ [][Next]_vars

=============================================================================
