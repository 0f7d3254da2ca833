------------------------------ MODULE PeerLimit ------------------------------
(***************************************************************************)
(* The peer limit hook: a Redis set for each user (and torrent) holds the   *)
(* peer that may announce.  The set is read by one command and written by a *)
(* later one, and expires as a whole.  Each command may fail; one whose     *)
(* connection breaks may have been executed all the same.                   *)
(***************************************************************************)
EXTENDS PreHooks

CONSTANT
    PeerLifetime     \* Config.PeerLifetime, in ticks of the clock

ASSUME PeerLimitAssumption == PeerLifetime \in Nat \ {0}

VARIABLES
    members,         \* tracker:limit:<passkey>:<infohash>
    lifetime,        \* ticks until that key expires, 0 if there is none
    gone             \* the peers that have vanished without a stopped event

limitVars == <<members, lifetime, gone>>

LimitOK ==
    /\ members \in [Passkey -> SUBSET Peer]
    /\ lifetime \in [Passkey -> 0..PeerLifetime]
    /\ gone \subseteq Peer

LimitInit ==
    /\ members = [k \in Passkey |-> {}]
    /\ lifetime = [k \in Passkey |-> 0]
    /\ gone = {}

Limits(r) == Calls(r, "peer limit")

\* Without a passkey there is no limit.
LimitSkip(r) ==
    /\ Limits(r)
    /\ ~HasPasskey(r)
    /\ Return(r)
    /\ UNCHANGED limitVars

\* A stopped event: SREM, whose error is only logged.  Redis deletes a set
\* that has become empty.
LimitStopped(r) ==
    LET k == PasskeyOf(r)
        S == members[k] \ {handler[r].peer}
    IN  /\ Limits(r)
        /\ HasPasskey(r)
        /\ handler[r].event = "stopped"
        /\ \/ /\ members' = [members EXCEPT ![k] = S]
              /\ lifetime' = [lifetime EXCEPT ![k] = IF S = {} THEN 0 ELSE @]
           \/ UNCHANGED <<members, lifetime>>
        /\ Return(r)
        /\ UNCHANGED gone

\* Mutant of LimitMembers: an error is treated like an empty set.
LimitMembersFailsOpen(r) ==
    /\ Limits(r)
    /\ HasPasskey(r)
    /\ handler[r].event # "stopped"
    /\ \/ Goto(r, "enter")
       \/ /\ ~(members[PasskeyOf(r)] \subseteq {handler[r].peer})
          /\ Finish(r, "limited")
    /\ UNCHANGED limitVars

\* Mutant of LimitMembers: a refused announce renews the expiry.
LimitMembersRenews(r) ==
    LET k == PasskeyOf(r)
    IN  /\ Limits(r)
        /\ HasPasskey(r)
        /\ handler[r].event # "stopped"
        /\ IF members[k] \subseteq {handler[r].peer} THEN Goto(r, "enter")
                                                     ELSE Finish(r, "limited")
        /\ lifetime' = [lifetime EXCEPT ![k] = IF members[k] = {} THEN 0 ELSE PeerLifetime]
        /\ UNCHANGED <<members, gone>>

\* SMEMBERS: an error lets the announce pass, another member refuses it.
LimitMembers(r) ==
    /\ Limits(r)
    /\ HasPasskey(r)
    /\ handler[r].event # "stopped"
    /\ \/ Return(r)
       \/ /\ members[PasskeyOf(r)] \subseteq {handler[r].peer}
          /\ Goto(r, "enter")
       \/ /\ ~(members[PasskeyOf(r)] \subseteq {handler[r].peer})
          /\ Finish(r, "limited")
    /\ UNCHANGED limitVars

\* MULTI, SADD, EXPIRE, EXEC: both or none; an error is only logged.
LimitEnter(r) ==
    LET k == PasskeyOf(r)
    IN  /\ At(r, "enter")
        /\ \/ /\ members' = [members EXCEPT ![k] = @ \cup {handler[r].peer}]
              /\ lifetime' = [lifetime EXCEPT ![k] = PeerLifetime]
           \/ UNCHANGED <<members, lifetime>>
        /\ Return(r)
        /\ UNCHANGED gone

LimitStep(r) ==
    \/ LimitSkip(r)
    \/ LimitStopped(r)
    \/ LimitMembers(r)
    \/ LimitEnter(r)

\* Redis counts the lifetimes down and deletes what has expired.
LimitTick ==
    /\ lifetime' = [k \in Passkey |-> IF lifetime[k] = 0 THEN 0 ELSE lifetime[k] - 1]
    /\ members' = [k \in Passkey |-> IF lifetime[k] = 1 THEN {} ELSE members[k]]
    /\ UNCHANGED gone

\* A peer crashes or loses its network and never announces again.
Vanish(p) ==
    /\ Uses("peer limit")
    /\ p \in setup.peers
    /\ gone' = gone \cup {p}
    /\ UNCHANGED <<members, lifetime, setup, handler>>

-----------------------------------------------------------------------------

\* As many peers of a user can be in the set as there are announces handled
\* at the same time, and no more: only announces that overlap get past the
\* check together.  Handled one by one, one peer of a user is let in
\* (peerlimit.HandleAnnounce).
LimitedByOverlap ==
    \A k \in Passkey : Cardinality(members[k]) <= Cardinality(Handler)

\* A peer that vanished is out of the set in the end, whatever the other
\* peers of its user go on sending: an announce that is refused does not
\* renew the expiry, and no entry is without one (peerlimit.HandleAnnounce).
LockReleased ==
    \A p \in {q \in Peer : User[q] \in Passkey} :
       p \in gone ~> p \notin members[User[p]]

\* A user is not shut out for ever, not even when two peers let in together
\* are each a reason to refuse the other: after a refusal the set is empty
\* some time, or an announce of the user has got past the check
\* (peerlimit.HandleAnnounce).
NotShutOut ==
    \A k \in Passkey :
       (\E r \in Handler : At(r, "limited") /\ PasskeyOf(r) = k) ~>
          \/ members[k] = {}
          \/ \E r \in Handler : At(r, "enter") /\ PasskeyOf(r) = k

=============================================================================
