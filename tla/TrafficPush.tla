----------------------------- MODULE TrafficPush -----------------------------
(***************************************************************************)
(* The traffic push hook: the counters of an announce are compared with a   *)
(* snapshot kept in Redis, the snapshot is replaced, and the difference is  *)
(* appended to a stream, which the site adds up.  The code treats uploaded  *)
(* and downloaded bytes alike and independently: one counter is modelled.   *)
(*                                                                         *)
(* A command may get an error reply, and then has no effect.  Or its        *)
(* connection breaks: it was executed or not, and every later command on    *)
(* this connection fails (the client library closes it).                    *)
(***************************************************************************)
EXTENDS PreHooks

CONSTANTS
    RetryCount,      \* Config.RetryCount: attempts to send XADD
    MaxCount,        \* bound on a peer's counter
    MaxAnnounces     \* bound on the announces of a peer

ASSUME TrafficAssumption ==
    /\ RetryCount \in Nat \ {0}
    /\ MaxCount \in Nat
    /\ MaxAnnounces \in Nat

VARIABLES
    last,            \* tracker:last:<passkey>:<infohash>:<peer>, 0 if none
    pushed,          \* the sum of a peer's entries in the stream
    push,            \* the variables of HandleAnnounce
    session,         \* the counter in the peer's latest announce since it
                     \* was started
    told,            \* the traffic that a peer's announces have told of
    announces,       \* the number of a peer's announces
    spoilt           \* what the faults and overlaps so far may have caused:
                     \* traffic counted twice ("over") or lost ("under")

pushVars == <<last, pushed, push, session, told, announces, spoilt>>

PushState ==
    [seen : Nat, tries : Nat, broken : BOOLEAN, stored : BOOLEAN, sent : BOOLEAN]

NoPush ==
    [seen |-> 0, tries |-> 0, broken |-> FALSE, stored |-> FALSE, sent |-> FALSE]

PushOK ==
    /\ last \in [Peer -> Nat]
    /\ pushed \in [Peer -> Nat]
    /\ push \in [Handler -> PushState]
    /\ session \in [Peer -> Nat]
    /\ told \in [Peer -> Nat]
    /\ announces \in [Peer -> Nat]
    /\ spoilt \in [Peer -> SUBSET {"over", "under"}]

PushInit ==
    /\ last = [p \in Peer |-> 0]
    /\ pushed = [p \in Peer |-> 0]
    /\ push = [r \in Handler |-> NoPush]
    /\ session = [p \in Peer |-> 0]
    /\ told = [p \in Peer |-> 0]
    /\ announces = [p \in Peer |-> 0]
    /\ spoilt = [p \in Peer |-> {}]

\* Another announce of p is being handled.
InFlight(p) == \E r \in Handler : Busy(r) /\ handler[r].peer = p

Spoil(p, how) == spoilt' = [spoilt EXCEPT ![p] = @ \cup how]

\* The counters that p's next announce can have.  They matter to this hook
\* only.
Counters(p) == IF Uses("traffic push") THEN session[p]..MaxCount ELSE {0}

\* What an announce of p with counter c tells.  An announce that overlaps
\* with another of p can be counted wrong, and so can one after a restart
\* that has already caught up with the snapshot.
Tell(p, c) ==
    IF Uses("traffic push")
    THEN /\ announces[p] < MaxAnnounces
         /\ announces' = [announces EXCEPT ![p] = @ + 1]
         /\ session' = [session EXCEPT ![p] = c]
         /\ told' = [told EXCEPT ![p] = @ + (c - session[p])]
         /\ Spoil(p, IF InFlight(p) THEN {"over", "under"}
                     ELSE IF session[p] < last[p] /\ last[p] <= c THEN {"under"} ELSE {})
         /\ UNCHANGED <<last, pushed, push>>
    ELSE UNCHANGED pushVars

\* The peer's program is restarted under the same peer ID and counts from 0
\* again.  What is not in the snapshot yet nobody will tell again.
Restart(p) ==
    /\ session' = [session EXCEPT ![p] = 0]
    /\ Spoil(p, IF session[p] # last[p] THEN {"under"} ELSE {})
    /\ UNCHANGED <<last, pushed, push, told, announces, setup, handler>>

\* Mutant of Delta: a counter that has become smaller counts for nothing.
DeltaFloor(count, seen) == IF count >= seen THEN count - seen ELSE 0

\* The difference to the snapshot; a counter that has become smaller was
\* started anew.
Delta(count, seen) == IF count >= seen THEN count - seen ELSE count

\* HMGET; after an error the counters are compared with 0.
PushRead(r) ==
    LET p == handler[r].peer
    IN  /\ Calls(r, "traffic push")
        /\ \/ /\ push' = [push EXCEPT ![r].seen = last[p]]
              /\ UNCHANGED spoilt
           \/ /\ UNCHANGED push
              /\ Spoil(p, {"over"})
           \/ /\ push' = [push EXCEPT ![r].broken = TRUE]
              /\ UNCHANGED spoilt
        /\ Goto(r, "snapshot")
        /\ UNCHANGED <<last, pushed, session, told, announces>>

StoreSnapshot(r, broken) ==
    /\ last' = [last EXCEPT ![handler[r].peer] = handler[r].count]
    /\ push' = [push EXCEPT ![r].stored = TRUE, ![r].broken = broken]
    /\ UNCHANGED spoilt

\* HMSET, whose error is ignored: executed (the connection may break before
\* the answer), answered with an error, or lost with its connection.
PushSnapshot(r) ==
    /\ At(r, "snapshot")
    /\ \/ /\ ~push[r].broken
          /\ \E broken \in BOOLEAN : StoreSnapshot(r, broken)
       \/ /\ ~push[r].broken
          /\ Spoil(handler[r].peer, {"over"})
          /\ UNCHANGED <<last, push>>
       \/ /\ push' = [push EXCEPT ![r].broken = TRUE]
          /\ UNCHANGED <<last, spoilt>>
    /\ Goto(r, "send")
    /\ UNCHANGED <<pushed, session, told, announces>>

\* The difference is in the stream.
AddToStream(r) ==
    LET p == handler[r].peer
    IN  pushed' = [pushed EXCEPT ![p] = @ + Delta(handler[r].count, push[r].seen)]

\* HandleAnnounce returns; sent tells whether the difference is in the
\* stream.  It is lost if it is not and the snapshot was replaced.
PushReturn(r, sent) ==
    LET p == handler[r].peer
    IN  /\ push' = [push EXCEPT ![r] = NoPush]
        /\ Spoil(p, IF ~sent /\ push[r].stored THEN {"under"} ELSE {})
        /\ Return(r)

\* XADD is answered.
PushSend(r) ==
    /\ At(r, "send")
    /\ ~push[r].broken
    /\ AddToStream(r)
    /\ PushReturn(r, TRUE)
    /\ UNCHANGED <<last, session, told, announces>>

\* An attempt has failed; sent tells whether XADD was executed all the same.
\* After the last one the error is logged.
Retry(r, broken, sent) ==
    IF push[r].tries + 1 = RetryCount
    THEN PushReturn(r, push[r].sent \/ sent)
    ELSE /\ push' = [push EXCEPT ![r].tries = @ + 1, ![r].broken = broken,
                                 ![r].sent = @ \/ sent]
         /\ UNCHANGED <<spoilt, setup, handler>>

\* Mutant of PushSendFails: each attempt takes a new connection.
PushSendFailsReconnect(r) ==
    /\ At(r, "send")
    /\ \/ AddToStream(r) /\ Retry(r, FALSE, TRUE)
       \/ UNCHANGED pushed /\ Retry(r, FALSE, FALSE)
    /\ UNCHANGED <<last, session, told, announces>>

\* XADD gets an error reply, its connection breaks before or after it was
\* executed, or is broken already.
PushSendFails(r) ==
    /\ At(r, "send")
    /\ \/ ~push[r].broken /\ UNCHANGED pushed /\ Retry(r, FALSE, FALSE)
       \/ ~push[r].broken /\ AddToStream(r) /\ Retry(r, TRUE, TRUE)
       \/ UNCHANGED pushed /\ Retry(r, TRUE, FALSE)
    /\ UNCHANGED <<last, session, told, announces>>

PushStep(r) ==
    \/ PushRead(r)
    \/ PushSnapshot(r)
    \/ PushSend(r)
    \/ PushSendFails(r)

-----------------------------------------------------------------------------

\* What the next announce of p would add to the stream if p moved no data
\* until then.
Unsent(p) == IF session[p] >= last[p] THEN session[p] - last[p] ELSE session[p]

\* The stream never holds more traffic of a peer than it told of, whatever
\* connections break, XADDs are retried and clients restart, as long as its
\* announces do not overlap and HMGET and HMSET get no error reply: a retry
\* on a broken connection cannot append a second time
\* (trafficpush.HandleAnnounce).
NeverOvercounts ==
    \A p \in Peer : "over" \notin spoilt[p] => pushed[p] <= told[p]

\* Traffic is in the stream, or will be with the peer's next announce,
\* unless a fault came after the snapshot was replaced or the peer was
\* restarted at a bad moment (trafficpush.HandleAnnounce).
NothingLost ==
    \A p \in Peer :
       spoilt[p] = {} /\ ~InFlight(p) => pushed[p] + Unsent(p) = told[p]

\* An announce whose difference could not be sent leaves the snapshot as it
\* was, for the next difference to include it: no HandleAnnounce that
\* returns without XADD has replaced the snapshot
\* (trafficpush.HandleAnnounce, the comment on its loop).
FailureKeepsSnapshot ==
    \A r \in Handler : push[r].tries + 1 = RetryCount /\ push[r].broken /\ ~push[r].sent
                          => ~push[r].stored

=============================================================================
