------------------------------ MODULE Tracker ------------------------------
(***************************************************************************)
(* The path of an announce through the tracker: a frontend (UDP or HTTP)    *)
(* parses and sanitizes it, the logic runs the pre-hooks, the response hook *)
(* asks the in-memory store for peers, the frontend writes the response and *)
(* starts a goroutine for the post-hooks, the last of which updates the     *)
(* swarm.                                                                   *)
(*                                                                         *)
(* Each handler in Handler is one goroutine serving a request and then the  *)
(* goroutine it starts; requests of the same peer may be in several         *)
(* handlers at once.  One infohash is modelled: a request names exactly one *)
(* and the hooks touch no other.  The store is what module MemoryStore      *)
(* shows it to be (atomic methods, entries that may expire), without its    *)
(* times: an entry may expire at any moment.  The counts of a response are  *)
(* left out; its list of peers is kept.                                     *)
(***************************************************************************)
EXTENDS Integers, FiniteSets

CONSTANTS
    Peer,            \* the peers of the swarm
    IPv6Peer,        \* those with an IPv6 address; the others have IPv4
    Handler,         \* concurrent handlers
    Request,         \* the announces that clients send
    MaxNumWant,      \* ParseOptions.MaxNumWant
    DefaultNumWant,  \* ParseOptions.DefaultNumWant
    Unprovided       \* AnnounceRequest.NumWantProvided is false

\* An HTTP client may ask for a compact response.  UDP packets always carry
\* a NumWant.
Frontend == {"udp", "http", "compact"}

\* "none" stands for bittorrent.None and bittorrent.Started, which no code
\* on this path tells apart.
Event == {"none", "completed", "stopped"}

AnnounceRequest ==
    [peer : Peer, front : Frontend, event : Event, seeding : BOOLEAN,
     numWant : Nat \cup {Unprovided}]

ASSUME TrackerAssumption ==
    /\ IsFiniteSet(Peer)
    /\ IPv6Peer \subseteq Peer
    /\ Request \subseteq AnnounceRequest
    /\ MaxNumWant \in Nat
    /\ DefaultNumWant \in Nat
    /\ Unprovided \notin Nat

VARIABLES
    seeders,         \* the peers stored as seeders
    leechers,        \* the peers stored as leechers
    handler,         \* what each handler is doing
    claimed,         \* the roles a peer has announced without being refused
    latest           \* the event of the announce of a peer answered last, if
                     \* no other handler was busy with the peer meanwhile
                     \* and no post-hook cut its update short

vars == <<seeders, leechers, handler, claimed, latest>>

\* A listing is what each of the loops of AnnouncePeers appended: seeders of
\* the announcer's family, seeders of the other one, leechers of its family,
\* leechers of the other one.
Stage == 1..4

NoPeers == [i \in Stage |-> {}]

\* How a request ended.
Outcome == {"idle", "refused", "dropped", "panicked", "done"}

Step == Outcome \cup {"hooks", "peers", "write", "after", "leave"}

TypeOK ==
    /\ seeders \subseteq Peer
    /\ leechers \subseteq Peer
    /\ handler \in [Handler -> [pc : Step, req : Request, numWant : Nat,
                                peers : [Stage -> SUBSET Peer],
                                self : BOOLEAN]]
    /\ claimed \in [Peer -> SUBSET {"seeder", "leecher"}]
    /\ latest \in [Peer -> Event]

Init ==
    /\ seeders = {}
    /\ leechers = {}
    /\ handler \in [Handler -> [pc : {"idle"}, req : Request, numWant : {0},
                                peers : {NoPeers}, self : {FALSE}]]
    /\ claimed = [p \in Peer |-> {}]
    /\ latest = [p \in Peer |-> "none"]

Least(a, b) == IF a <= b THEN a ELSE b

Greatest(a, b) == IF a >= b THEN a ELSE b

-----------------------------------------------------------------------------

At(r, pc) == handler[r].pc = pc

Goto(r, pc) == handler' = [handler EXCEPT ![r].pc = pc]

\* The handler drops the request it has finished with.
End(r, outcome) ==
    handler' = [handler EXCEPT ![r].pc = outcome, ![r].numWant = 0,
                               ![r].peers = NoPeers, ![r].self = FALSE]

\* SanitizeAnnounce's treatment of NumWant.
SanitizeNumWant(n) ==
    IF n = Unprovided THEN DefaultNumWant ELSE Least(n, MaxNumWant)

\* No handler but r is busy with an announce of p.
Alone(r, p) ==
    \A s \in Handler \ {r} : handler[s].req.peer = p => handler[s].pc \in Outcome

\* A frontend receives a request and parses it.
Receive(r, q) ==
    /\ handler[r].pc \in Outcome
    /\ handler' = [handler EXCEPT
          ![r] = [pc |-> "hooks", req |-> q, numWant |-> SanitizeNumWant(q.numWant),
                  peers |-> NoPeers, self |-> FALSE]]
    /\ latest' = IF Alone(r, q.peer) THEN latest
                                     ELSE [latest EXCEPT ![q.peer] = "none"]
    /\ UNCHANGED <<seeders, leechers, claimed>>

\* The request does not parse (or has port 0, or a bad connection ID): the
\* client is told so, or for a malformed UDP packet nothing.
Reject(r) ==
    /\ handler[r].pc \in Outcome
    /\ Goto(r, "refused")
    /\ UNCHANGED <<seeders, leechers, claimed, latest>>

\* Mutant of Refuse: the frontend writes the error and does not return.
RefuseFallsThrough(r) ==
    /\ At(r, "hooks")
    /\ Goto(r, "after")
    /\ UNCHANGED <<seeders, leechers, claimed, latest>>

\* A pre-hook returns an error: HandleAnnounce returns it and the frontend
\* writes it.
Refuse(r) ==
    /\ At(r, "hooks")
    /\ End(r, "refused")
    /\ UNCHANGED <<seeders, leechers, claimed, latest>>

\* The role in which the announce will be stored.
Roles(q) ==
    CASE q.event = "stopped" -> {}
      [] q.event = "completed" -> {"seeder"}
      [] OTHER -> {IF q.seeding THEN "seeder" ELSE "leecher"}

\* Every pre-hook passes the request on.
Approve(r) ==
    /\ At(r, "hooks")
    /\ Goto(r, "peers")
    /\ claimed' = [claimed EXCEPT ![handler[r].req.peer] = @ \cup Roles(handler[r].req)]
    /\ UNCHANGED <<seeders, leechers, latest>>

-----------------------------------------------------------------------------

SameFamily(p, S) == {q \in S : (q \in IPv6Peer) = (p \in IPv6Peer)}

OtherFamily(p, S) == S \ SameFamily(p, S)

\* Mutant of Candidates: leechers before seeders.
CandidatesLeechersFirst(p, seeding) ==
    LET s == IF seeding THEN {} ELSE seeders
    IN  <<SameFamily(p, leechers) \ {p}, OtherFamily(p, leechers),
          SameFamily(p, s), OtherFamily(p, s)>>

\* The maps that AnnouncePeers walks through, in its order.  A seeder is
\* given leechers only.  A leecher is given seeders first, and of the
\* leechers not itself.
Candidates(p, seeding) ==
    LET s == IF seeding THEN {} ELSE seeders
        own == IF seeding THEN {} ELSE {p}
    IN  <<SameFamily(p, s), OtherFamily(p, s),
          SameFamily(p, leechers) \ own, OtherFamily(p, leechers)>>

\* Mutant of Take: the loop tests for n after it has appended.
TakeLate(S, n) ==
    {T \in SUBSET S : Cardinality(T) = Least(n + 1, Cardinality(S))}

\* What a loop over a map can append while n more are wanted: Go's order of
\* iteration is arbitrary.
Take(S, n) == {T \in SUBSET S : Cardinality(T) = Least(n, Cardinality(S))}

\* The results AnnouncePeers can return, c being the candidates.
Listings(c, n) ==
    UNION {UNION {UNION {{<<a, b, d, e>> :
                          e \in Take(c[4], n - Cardinality(a) - Cardinality(b) - Cardinality(d))} :
                   d \in Take(c[3], n - Cardinality(a) - Cardinality(b))} :
                  b \in Take(c[2], n - Cardinality(a))} :
           a \in Take(c[1], n)}

\* The response hook: AnnouncePeers, and the announcer itself if that
\* returns nothing.
AnnouncePeers(r) ==
    LET q == handler[r].req
    IN  /\ At(r, "peers")
        /\ \E l \in Listings(Candidates(q.peer, q.seeding), handler[r].numWant) :
              handler' = [handler EXCEPT ![r].pc = "write", ![r].peers = l,
                                         ![r].self = (l = NoPeers)]
        /\ UNCHANGED <<seeders, leechers, claimed, latest>>

-----------------------------------------------------------------------------

ListedSeeders(h) == h.peers[1] \cup h.peers[2]

ListedLeechers(h) == h.peers[3] \cup h.peers[4]

Listed(h) == ListedSeeders(h) \cup ListedLeechers(h)

\* The whole list is put into IPv4Peers or IPv6Peers by the family of the
\* announcer.  Of the encoders only compact4 panics, on a peer of the other
\* family.
Encodable(h) ==
    \/ h.req.front # "compact"
    \/ h.req.peer \in IPv6Peer
    \/ Listed(h) \cap IPv6Peer = {}

\* Mutant of Respond: AfterAnnounce is forgotten.
RespondOnly(r) ==
    /\ At(r, "write")
    /\ End(r, "refused")
    /\ UNCHANGED <<seeders, leechers, claimed, latest>>

\* The response is written and AfterAnnounce started.
Respond(r) ==
    /\ At(r, "write")
    /\ Encodable(handler[r])
    /\ End(r, "after")
    /\ LET q == handler[r].req
       IN  latest' = [latest EXCEPT
                        ![q.peer] = IF Alone(r, q.peer) THEN q.event ELSE "none"]
    /\ UNCHANGED <<seeders, leechers, claimed>>

\* net/http recovers the panic of a handler and closes the connection.
WritePanics(r) ==
    /\ At(r, "write")
    /\ ~Encodable(handler[r])
    /\ End(r, "panicked")
    /\ UNCHANGED <<seeders, leechers, claimed, latest>>

\* The HTTP client is gone: the handler returns without AfterAnnounce.
WriteFails(r) ==
    /\ At(r, "write")
    /\ handler[r].req.front # "udp"
    /\ Encodable(handler[r])
    /\ End(r, "dropped")
    /\ UNCHANGED <<seeders, leechers, claimed, latest>>

-----------------------------------------------------------------------------

\* A configured post-hook returns an error: the swarm is not updated.
PostHookFails(r) ==
    /\ At(r, "after")
    /\ End(r, "dropped")
    /\ latest' = [latest EXCEPT ![handler[r].req.peer] = "none"]
    /\ UNCHANGED <<seeders, leechers, claimed>>

\* Mutant of DeleteSeeder: the hook returns when it has deleted a seeder.
DeleteSeederReturns(r) ==
    /\ At(r, "after")
    /\ handler[r].req.event = "stopped"
    /\ seeders' = seeders \ {handler[r].req.peer}
    /\ Goto(r, IF handler[r].req.peer \in seeders THEN "done" ELSE "leave")
    /\ UNCHANGED <<leechers, claimed, latest>>

\* swarmInteractionHook for a stopped event, first of two calls.  That the
\* peer was not there is no error.
DeleteSeeder(r) ==
    /\ At(r, "after")
    /\ handler[r].req.event = "stopped"
    /\ seeders' = seeders \ {handler[r].req.peer}
    /\ Goto(r, "leave")
    /\ UNCHANGED <<leechers, claimed, latest>>

DeleteLeecher(r) ==
    /\ At(r, "leave")
    /\ leechers' = leechers \ {handler[r].req.peer}
    /\ End(r, "done")
    /\ UNCHANGED <<seeders, claimed, latest>>

\* Mutant of GraduateLeecher: a completed event is treated like any of a seeder.
GraduateLeecherPuts(r) ==
    /\ At(r, "after")
    /\ handler[r].req.event = "completed"
    /\ seeders' = seeders \cup {handler[r].req.peer}
    /\ End(r, "done")
    /\ UNCHANGED <<leechers, claimed, latest>>

GraduateLeecher(r) ==
    /\ At(r, "after")
    /\ handler[r].req.event = "completed"
    /\ leechers' = leechers \ {handler[r].req.peer}
    /\ seeders' = seeders \cup {handler[r].req.peer}
    /\ End(r, "done")
    /\ UNCHANGED <<claimed, latest>>

PutSeeder(r) ==
    /\ At(r, "after")
    /\ handler[r].req.event = "none"
    /\ handler[r].req.seeding
    /\ seeders' = seeders \cup {handler[r].req.peer}
    /\ End(r, "done")
    /\ UNCHANGED <<leechers, claimed, latest>>

PutLeecher(r) ==
    /\ At(r, "after")
    /\ handler[r].req.event = "none"
    /\ ~handler[r].req.seeding
    /\ leechers' = leechers \cup {handler[r].req.peer}
    /\ End(r, "done")
    /\ UNCHANGED <<seeders, claimed, latest>>

\* Garbage collection forgets an entry.
Expire(p) ==
    /\ \/ seeders' = seeders \ {p} /\ UNCHANGED leechers
       \/ leechers' = leechers \ {p} /\ UNCHANGED seeders
    /\ UNCHANGED <<handler, claimed, latest>>

-----------------------------------------------------------------------------

\* What the goroutines of a handler do by themselves.
Work(r) ==
    \/ Refuse(r)
    \/ Approve(r)
    \/ AnnouncePeers(r)
    \/ Respond(r)
    \/ WritePanics(r)
    \/ WriteFails(r)
    \/ PostHookFails(r)
    \/ DeleteSeeder(r)
    \/ DeleteLeecher(r)
    \/ GraduateLeecher(r)
    \/ PutSeeder(r)
    \/ PutLeecher(r)

Next ==
    \/ \E r \in Handler :
          \/ \E q \in Request : Receive(r, q)
          \/ Reject(r)
          \/ Work(r)
    \/ \E p \in Peer : Expire(p)

Spec == Init /\ [][Next]_vars

\* A goroutine that can run is run.  Nothing makes a client send a request
\* or an entry expire.
FairSpec == Spec /\ \A r \in Handler : WF_vars(Work(r))

-----------------------------------------------------------------------------

\* A response lists at most NumWant peers, or the announcer alone, and
\* NumWant is no more than one of the two configured limits
\* (bittorrent.SanitizeAnnounce, responseHook.appendPeers).
ResponseBounded ==
    \A r \in Handler :
       LET h == handler[r]
       IN  /\ h.numWant <= Greatest(MaxNumWant, DefaultNumWant)
           /\ Cardinality(h.peers[1]) + Cardinality(h.peers[2])
                + Cardinality(h.peers[3]) + Cardinality(h.peers[4]) <= h.numWant
           /\ h.self => h.peers = NoPeers

\* A peer is stored, and listed to others, only in a role in which it has
\* itself announced and been let through by the pre-hooks: neither a refused
\* announce nor the update of another request puts it there
\* (Logic.HandleAnnounce, Logic.AfterAnnounce, swarmInteractionHook).
OnlyClaimed ==
    /\ \A p \in seeders : "seeder" \in claimed[p]
    /\ \A p \in leechers : "leecher" \in claimed[p]
    /\ \A r \in Handler :
          /\ \A p \in ListedSeeders(handler[r]) : "seeder" \in claimed[p]
          /\ \A p \in ListedLeechers(handler[r]) : "leecher" \in claimed[p]

\* What the list of r, made in this step, has of the peers in the maps.
BestChoice(r) ==
    LET h == handler'[r]
        p == h.req.peer
        s == IF h.req.seeding THEN {} ELSE SameFamily(p, seeders)
        l == SameFamily(p, IF h.req.seeding THEN leechers ELSE leechers \ {p})
    IN  /\ h.peers[2] \cup h.peers[3] \cup h.peers[4] # {} => h.peers[1] = s
        /\ h.peers[4] # {} => h.peers[3] = l
        /\ Cardinality(ListedSeeders(h)) + Cardinality(ListedLeechers(h)) < h.numWant
             => h.peers[1] = s /\ h.peers[3] = l

\* Of the announcer's own family a list has as much as NumWant allows, in the
\* order that suits its role: it is short of NumWant only if it has everybody
\* of that family, and a leecher is told of a leecher only if it is told of
\* every seeder of its family.  The contract of storage.PeerStore asks for
\* this, and for nobody of the other family.  The store adds those too; they
\* take no place from one of the announcer's family in the same role
\* (peerStore.AnnouncePeers).
BestListing ==
    [][\A r \in Handler :
          At(r, "peers") /\ handler'[r].pc = "write" => BestChoice(r)]_vars

\* An announce that HandleAnnounce handled without error, and whose response
\* can be encoded, is followed by the hooks of AfterAnnounce unless the
\* client's connection broke (announceRoute, handleRequest).
AnnounceApplied ==
    \A r \in Handler :
       (At(r, "write") /\ Encodable(handler[r])) ~> handler[r].pc \in {"done", "dropped"}

\* The same of every announce that HandleAnnounce handled without error
\* (announceRoute, compact4).
HandledApplied ==
    \A r \in Handler : At(r, "write") ~> handler[r].pc \in {"done", "dropped"}

\* A peer whose stopped event was answered and handled while no other announce
\* of it was in a handler is in neither map afterwards, until it announces
\* again: neither the deletion from one map nor a listing or an update for
\* somebody else brings it back (swarmInteractionHook).  Without the condition
\* this fails: AfterAnnounce has a goroutine of its own, and the one of an
\* earlier announce may store the peer after that of the stopped event.
StoppedLeaves ==
    \A p \in Peer :
       /\ latest[p] = "stopped"
       /\ \A r \in Handler : handler[r].req.peer = p => handler[r].pc \in Outcome
       => p \notin seeders \cup leechers

\* In the same way a peer whose completed event was answered and handled is no
\* leecher any more, in whatever maps earlier announces had put it (a peer that
\* announces first as one and then as the other, without an event, is in both).
CompletedGraduates ==
    \A p \in Peer :
       /\ latest[p] = "completed"
       /\ \A r \in Handler : handler[r].req.peer = p => handler[r].pc \in Outcome
       => p \notin leechers

=============================================================================
