------------------------------ MODULE HookChain ------------------------------
(***************************************************************************)
(* The checks on an announce put together: every configuration in Setup     *)
(* (a sequence of hooks) is served by concurrent handlers, with one clock   *)
(* for what expires in Redis.                                               *)
(***************************************************************************)
EXTENDS PeerLimit, TrafficPush, PasskeyApproval, JWT, VarInterval, ConnectionID

CONSTANTS
    Whitelist,       \* peers whose client (or torrent) is on the whitelist
    Blacklist        \* and on the blacklist

\* NewHook of the approval hooks takes one list at most.
ASSUME ListAssumption ==
    /\ Whitelist \subseteq Peer
    /\ Blacklist \subseteq Peer
    /\ Whitelist = {} \/ Blacklist = {}

vars == <<setup, handler, limitVars, pushVars, approvalVars, jwtVars, longer,
          connectionVars>>

TypeOK ==
    /\ HandlersOK
    /\ LimitOK
    /\ PushOK
    /\ ApprovalOK
    /\ JWTOK
    /\ IntervalOK
    /\ ConnectionOK

Init ==
    /\ HandlersInit
    /\ LimitInit
    /\ PushInit
    /\ ApprovalInit
    /\ JWTInit
    /\ IntervalInit
    /\ ConnectionInit

\* The hooks' actions, each with what they leave alone of the others.
ButLimit == UNCHANGED <<setup, pushVars, approvalVars, jwtVars, longer, connectionVars>>

ButPush == UNCHANGED <<setup, limitVars, approvalVars, jwtVars, longer, connectionVars>>

ButApproval == UNCHANGED <<setup, limitVars, pushVars, jwtVars, longer, connectionVars>>

ButJWT == UNCHANGED <<setup, limitVars, pushVars, approvalVars, longer, connectionVars>>

ButInterval == UNCHANGED <<setup, limitVars, pushVars, approvalVars, jwtVars, connectionVars>>

ButConnection == UNCHANGED <<setup, limitVars, pushVars, approvalVars, jwtVars, longer>>

\* The announce q of a peer that is there reaches a frontend.
Receive(r, q) ==
    /\ q.peer \in setup.peers \ gone
    /\ Begin(r, q)
    /\ Tell(q.peer, q.count)
    /\ ButPush

\* The requests that can come next.  Only the peer limit looks at the event.
Announces(p) ==
    [peer : {p}, event : IF Uses("peer limit") THEN Event ELSE {"none"},
     count : Counters(p)]

Unlisted(p) == (Whitelist # {} /\ p \notin Whitelist) \/ p \in Blacklist

\* client approval and torrent approval: a lookup in a list that never
\* changes.
ListCheck(r) ==
    /\ Calls(r, "client approval")
    /\ IF Unlisted(handler[r].peer) THEN Refuse(r) ELSE Return(r)
    /\ UNCHANGED <<setup, limitVars, pushVars, approvalVars, jwtVars, longer, connectionVars>>

\* What the goroutine of a request does by itself.
Serve(r) ==
    \/ LimitStep(r) /\ ButLimit
    \/ PushStep(r) /\ ButPush
    \/ ApprovalStep(r) /\ ButApproval
    \/ JWTStep(r) /\ ButJWT
    \/ VaryInterval(r) /\ ButInterval
    \/ CheckConnection(r) /\ ButConnection
    \/ ListCheck(r)

Tick ==
    /\ LimitTick
    /\ ApprovalTick
    /\ ConnectionTick
    /\ UNCHANGED <<setup, handler, pushVars, jwtVars, longer>>

\* What clients and the site do.
Outside ==
    \/ \E p \in Peer :
          \/ Vanish(p) /\ ButLimit
          \/ Restart(p) /\ ButPush
          \/ \E o \in Offset : Connect(p, o) /\ ButConnection
          \/ \E a \in Address : Move(p, a) /\ ButConnection
    \/ \E k \in Passkey :
          (Approve(k) \/ Withdraw(k) \/ SiteAdds(k) \/ SiteRemoves(k)) /\ ButApproval
    \/ \E K \in SUBSET Passkey : SiteRenames(K) /\ ButApproval
    \/ \E h \in JWTHook : \E K \in SUBSET Key : Rotate(h, K) /\ UNCHANGED handler /\ ButJWT

Next ==
    \/ \E r \in Handler :
          \/ \E p \in Peer : \E q \in Announces(p) : Receive(r, q)
          \/ Serve(r)
    \/ Tick
    \/ Updating /\ UNCHANGED handler /\ ButJWT
    \/ Outside

Spec == Init /\ [][Next]_vars

\* Time passes and goroutines run.  Nothing makes a client announce, the site
\* change its mind, or the server with the keys answer.
FairSpec ==
    /\ Spec
    /\ WF_vars(Tick)
    /\ \A r \in Handler : WF_vars(Serve(r))
    /\ \A h \in JWTHook : WF_vars(Updates(h) /\ UNCHANGED handler /\ ButJWT)

-----------------------------------------------------------------------------

\* No announce gets past an approving hook that it was not approved by,
\* wherever the hook stands in the chain: its client is on the right list,
\* its passkey is one that the site has approved of, its token is signed with
\* a key that the issuer has published (Logic.HandleAnnounce and the hooks).
OnlyApproved ==
    \A r \in Handler :
       At(r, "passed") =>
          /\ Uses("client approval") => ~Unlisted(handler[r].peer)
          /\ Uses("passkey approval") => PasskeyOf(r) \in everApproved
          /\ Uses("jwt") => token["jwt"][r] \in history["jwt"]

\* The set of a user that is locked to a peer has an expiry.
LocksExpire == \A k \in Passkey : members[k] # {} => lifetime[k] > 0

\* The set of passkeys has an expiry, or is about to get one.
Expiring ==
    \/ approvedTTL \in Nat \ {0}
    \/ \E r \in Handler : At(r, "expire")

CacheExpire == approved # {} => Expiring \/ persists

\* No set in Redis is kept for ever.  A lock of the peer limit always has an
\* expiry, even when commands fail, as SADD and EXPIRE are in one MULTI.  The
\* set of approved passkeys gets its expiry by a second command, and is
\* without one only until that is sent, unless the command fails or the site
\* made the set; other handlers that add to the set, or the set expiring in
\* between, do not change that
\* (peerlimit.HandleAnnounce and passkeyapproval.HandleAnnounce).
SetsExpire == LocksExpire /\ CacheExpire

=============================================================================
