---------------------------- MODULE TrackerProofs ----------------------------
(***************************************************************************)
(* Proofs, for every set of peers, handlers and requests and every pair of  *)
(* limits, that lists are bounded and that only roles that were let through *)
(* are stored and listed.                                                   *)
(***************************************************************************)
EXTENDS Tracker, FiniteSetTheorems, TLAPS

(***************************************************************************)
(* A role is claimed when the hooks have let the announce through, and the  *)
(* store is updated some steps later: in between, the invariant remembers   *)
(* that the role of a request beyond the hooks has been claimed.            *)
(***************************************************************************)
Claims ==
    \A r \in Handler :
       handler[r].pc \in {"peers", "write", "after", "leave"} =>
          Roles(handler[r].req) \subseteq claimed[handler[r].req.peer]

IInv == TypeOK /\ ResponseBounded /\ OnlyClaimed /\ Claims

\* NumWant as sanitized is a natural number within the limits
\* (bittorrent.SanitizeAnnounce).
LEMMA SanitizeBounds ==
    ASSUME NEW n \in Nat \cup {Unprovided}
    PROVE  /\ SanitizeNumWant(n) \in Nat
           /\ SanitizeNumWant(n) <= Greatest(MaxNumWant, DefaultNumWant)
BY TrackerAssumption DEF SanitizeNumWant, Least, Greatest

\* A loop of AnnouncePeers appends peers of the map it walks, no more than
\* are still wanted.
LEMMA TakeBounds ==
    ASSUME NEW S \in SUBSET Peer, NEW n \in Nat, NEW T \in Take(S, n)
    PROVE  /\ T \subseteq S
           /\ Cardinality(T) \in Nat
           /\ Cardinality(T) <= n
<1>1. IsFiniteSet(S)
  BY TrackerAssumption, FS_Subset
<1>2. Cardinality(S) \in Nat
  BY <1>1, FS_CardinalityType
<1>3. T \subseteq S /\ Cardinality(T) = Least(n, Cardinality(S))
  BY DEF Take
<1> QED
  BY <1>2, <1>3 DEF Least

\* A result of AnnouncePeers has at most NumWant peers, each from the maps
\* walked through.
LEMMA ListingBounds ==
    ASSUME NEW c, c[1] \in SUBSET Peer, c[2] \in SUBSET Peer,
           c[3] \in SUBSET Peer, c[4] \in SUBSET Peer,
           NEW n \in Nat, NEW l \in Listings(c, n)
    PROVE  /\ l \in [Stage -> SUBSET Peer]
           /\ l[1] \subseteq c[1] /\ l[2] \subseteq c[2]
           /\ l[3] \subseteq c[3] /\ l[4] \subseteq c[4]
           /\ Cardinality(l[1]) + Cardinality(l[2])
                + Cardinality(l[3]) + Cardinality(l[4]) <= n
<1>1. PICK x \in Take(c[1], n) :
         \E y \in Take(c[2], n - Cardinality(x)) :
         \E z \in Take(c[3], n - Cardinality(x) - Cardinality(y)) :
         \E w \in Take(c[4], n - Cardinality(x) - Cardinality(y) - Cardinality(z)) :
            l = <<x, y, z, w>>
  BY DEF Listings
<1>2. x \subseteq c[1] /\ Cardinality(x) \in Nat /\ Cardinality(x) <= n
  BY TakeBounds
<1>3. PICK y \in Take(c[2], n - Cardinality(x)) :
         \E z \in Take(c[3], n - Cardinality(x) - Cardinality(y)) :
         \E w \in Take(c[4], n - Cardinality(x) - Cardinality(y) - Cardinality(z)) :
            l = <<x, y, z, w>>
  BY <1>1
<1> DEFINE n2 == n - Cardinality(x)
<1>4. n2 \in Nat
  BY <1>2
<1>5. y \subseteq c[2] /\ Cardinality(y) \in Nat /\ Cardinality(y) <= n2
  <2> HIDE DEF n2
  <2>1. y \in Take(c[2], n2)
    BY <1>3 DEF n2
  <2> QED
    BY <1>4, <2>1, TakeBounds
<1>6. PICK z \in Take(c[3], n - Cardinality(x) - Cardinality(y)) :
         \E w \in Take(c[4], n - Cardinality(x) - Cardinality(y) - Cardinality(z)) :
            l = <<x, y, z, w>>
  BY <1>3
<1> DEFINE n3 == n - Cardinality(x) - Cardinality(y)
<1>7. n3 \in Nat
  BY <1>2, <1>5
<1>8. z \subseteq c[3] /\ Cardinality(z) \in Nat /\ Cardinality(z) <= n3
  <2> HIDE DEF n3
  <2>1. z \in Take(c[3], n3)
    BY <1>6 DEF n3
  <2> QED
    BY <1>7, <2>1, TakeBounds
<1>9. PICK w \in Take(c[4], n - Cardinality(x) - Cardinality(y) - Cardinality(z)) :
            l = <<x, y, z, w>>
  BY <1>6
<1> DEFINE n4 == n - Cardinality(x) - Cardinality(y) - Cardinality(z)
<1>10. n4 \in Nat
  BY <1>2, <1>5, <1>8
<1>11. w \subseteq c[4] /\ Cardinality(w) \in Nat /\ Cardinality(w) <= n4
  <2> HIDE DEF n4
  <2>1. w \in Take(c[4], n4)
    BY <1>9 DEF n4
  <2> QED
    BY <1>10, <2>1, TakeBounds
<1>12. l[1] = x /\ l[2] = y /\ l[3] = z /\ l[4] = w
  BY <1>9
<1>13. l \in [Stage -> SUBSET Peer]
  BY <1>9, <1>2, <1>5, <1>8, <1>11 DEF Stage
<1>14. Cardinality(x) + Cardinality(y) + Cardinality(z) + Cardinality(w) <= n
  BY <1>2, <1>5, <1>8, <1>11
<1> QED
  BY <1>2, <1>5, <1>8, <1>11, <1>12, <1>13, <1>14

Record ==
    [pc : Step, req : Request, numWant : Nat, peers : [Stage -> SUBSET Peer],
     self : BOOLEAN]

\* What a response may be (ResponseBounded of one handler).
Bounded(h) ==
    /\ h.numWant <= Greatest(MaxNumWant, DefaultNumWant)
    /\ Cardinality(h.peers[1]) + Cardinality(h.peers[2])
         + Cardinality(h.peers[3]) + Cardinality(h.peers[4]) <= h.numWant
    /\ h.self => h.peers = NoPeers

\* A handler that holds no response is within the bounds.
LEMMA NothingBounded ==
    ASSUME NEW h, h.peers = NoPeers, h.numWant \in Nat,
           h.numWant <= Greatest(MaxNumWant, DefaultNumWant)
    PROVE  Bounded(h)
<1>1. Cardinality({}) = 0
  BY FS_EmptySet
<1>2. \A i \in Stage : h.peers[i] = {}
  BY DEF NoPeers
<1>3. h.peers[1] = {} /\ h.peers[2] = {} /\ h.peers[3] = {} /\ h.peers[4] = {}
  BY <1>2 DEF Stage
<1> QED
  BY <1>1, <1>3 DEF Bounded

\* What End does to the handlers.
LEMMA EndFrame ==
    ASSUME TypeOK, NEW r \in Handler, NEW o \in Step, End(r, o)
    PROVE  /\ handler' \in [Handler -> Record]
           /\ \A x \in Handler : x # r => handler'[x] = handler[x]
           /\ handler'[r].pc = o
           /\ handler'[r].req = handler[r].req
           /\ handler'[r].peers = NoPeers
           /\ Bounded(handler'[r])
<1>1. NoPeers \in [Stage -> SUBSET Peer]
  BY DEF NoPeers
<1>2. handler \in [Handler -> Record]
  BY DEF TypeOK, Record
<1>3. /\ handler' \in [Handler -> Record]
      /\ \A x \in Handler : x # r => handler'[x] = handler[x]
      /\ handler'[r].pc = o
      /\ handler'[r].req = handler[r].req
      /\ handler'[r].peers = NoPeers
      /\ handler'[r].numWant = 0
  BY <1>1, <1>2, Zenon DEF End, Record
<1>4. 0 <= Greatest(MaxNumWant, DefaultNumWant)
  BY TrackerAssumption DEF Greatest
<1> QED
  BY <1>3, <1>4, NothingBounded

\* What Goto does to the handlers.
LEMMA GotoFrame ==
    ASSUME TypeOK, NEW r \in Handler, NEW o \in Step, Goto(r, o)
    PROVE  /\ handler' \in [Handler -> Record]
           /\ \A x \in Handler : x # r => handler'[x] = handler[x]
           /\ handler'[r].pc = o
           /\ handler'[r].req = handler[r].req
           /\ handler'[r].peers = handler[r].peers
           /\ Bounded(handler[r]) => Bounded(handler'[r])
<1>1. handler \in [Handler -> Record]
  BY DEF TypeOK, Record
<1>2. /\ handler' \in [Handler -> Record]
      /\ \A x \in Handler : x # r => handler'[x] = handler[x]
      /\ handler'[r].pc = o
      /\ handler'[r].req = handler[r].req
      /\ handler'[r].peers = handler[r].peers
      /\ handler'[r].numWant = handler[r].numWant
      /\ handler'[r].self = handler[r].self
  BY <1>1 DEF Goto, Record
<1> QED
  BY <1>2 DEF Bounded

\* A peer is listed in the roles it has claimed (OnlyClaimed of one list).
ListClaimed(l) ==
    /\ \A p \in l[1] \cup l[2] : "seeder" \in claimed[p]
    /\ \A p \in l[3] \cup l[4] : "leecher" \in claimed[p]

\* The invariant after a step, from what the step did to one handler and to
\* the store.
LEMMA Assemble ==
    ASSUME IInv, NEW r \in Handler,
           handler' \in [Handler -> Record],
           \A x \in Handler : x # r => handler'[x] = handler[x],
           Bounded(handler'[r]), ListClaimed(handler[r].peers)' ,
           handler'[r].pc \in {"peers", "write", "after", "leave"} =>
              Roles(handler'[r].req) \subseteq claimed'[handler'[r].req.peer],
           claimed' \in [Peer -> SUBSET {"seeder", "leecher"}],
           \A p \in Peer : claimed[p] \subseteq claimed'[p],
           latest' \in [Peer -> Event],
           seeders' \subseteq Peer, leechers' \subseteq Peer,
           \A p \in seeders' : "seeder" \in claimed'[p],
           \A p \in leechers' : "leecher" \in claimed'[p]
    PROVE  IInv'
<1>1. TypeOK'
  BY DEF TypeOK, Record
<1>2. ResponseBounded'
  <2> SUFFICES ASSUME NEW x \in Handler
               PROVE  Bounded(handler'[x])
    BY DEF ResponseBounded, Bounded
  <2>1. Bounded(handler[x])
    BY DEF IInv, ResponseBounded, Bounded
  <2> QED
    BY <2>1
<1>3. \A x \in Handler : ListClaimed(handler[x].peers)'
  <2> SUFFICES ASSUME NEW x \in Handler, x # r
               PROVE  ListClaimed(handler[x].peers)'
    OBVIOUS
  <2>1. ListClaimed(handler[x].peers)
    BY DEF IInv, OnlyClaimed, ListedSeeders, ListedLeechers, ListClaimed
  <2>2. handler[x].peers \in [Stage -> SUBSET Peer]
    BY DEF IInv, TypeOK
  <2>3. \A i \in {1, 2, 3, 4} : handler[x].peers[i] \subseteq Peer
    BY <2>2 DEF Stage
  <2> QED
    BY <2>1, <2>3 DEF ListClaimed
<1>4. OnlyClaimed'
  BY <1>3 DEF OnlyClaimed, ListedSeeders, ListedLeechers, ListClaimed
<1>5. Claims'
  <2> SUFFICES ASSUME NEW x \in Handler, x # r,
                      handler'[x].pc \in {"peers", "write", "after", "leave"}
               PROVE  Roles(handler'[x].req) \subseteq claimed'[handler'[x].req.peer]
    BY DEF Claims, Roles
  <2>1. handler[x].req.peer \in Peer
    BY TrackerAssumption DEF IInv, TypeOK, AnnounceRequest
  <2>2. Roles(handler[x].req) \subseteq claimed[handler[x].req.peer]
    BY DEF IInv, Claims
  <2> QED
    BY <2>1, <2>2
<1> QED
  BY <1>1, <1>2, <1>4, <1>5 DEF IInv

\* The facts about one handler that the steps below use.
LEMMA HandlerFacts ==
    ASSUME IInv, NEW r \in Handler
    PROVE  /\ handler[r] \in Record
           /\ handler[r].req \in AnnounceRequest
           /\ handler[r].req.peer \in Peer
           /\ handler[r].numWant \in Nat
           /\ Bounded(handler[r])
           /\ ListClaimed(handler[r].peers)
           /\ handler[r].pc \in {"peers", "write", "after", "leave"} =>
                 Roles(handler[r].req) \subseteq claimed[handler[r].req.peer]
<1>1. handler[r] \in Record /\ handler[r].numWant \in Nat /\ handler[r].req \in Request
  BY DEF IInv, TypeOK, Record
<1>2. handler[r].req \in AnnounceRequest /\ handler[r].req.peer \in Peer
  BY <1>1, TrackerAssumption DEF AnnounceRequest
<1>3. Bounded(handler[r])
  BY DEF IInv, ResponseBounded, Bounded
<1>4. ListClaimed(handler[r].peers)
  BY DEF IInv, OnlyClaimed, ListedSeeders, ListedLeechers, ListClaimed
<1> QED
  BY <1>1, <1>2, <1>3, <1>4 DEF IInv, Claims

\* An empty list is claimed.
LEMMA NothingClaimed == ListClaimed(NoPeers)
BY DEF ListClaimed, NoPeers, Stage

\* A step that ends a request, or hands it to AfterAnnounce, and at most
\* removes peers from the store or puts the announcer in a role it claimed.
LEMMA EndInv ==
    ASSUME IInv, NEW r \in Handler, NEW o \in Outcome \cup {"after"}, End(r, o),
           o = "after" => handler[r].pc = "write",
           claimed' = claimed, latest' \in [Peer -> Event],
           seeders' \subseteq Peer, leechers' \subseteq Peer,
           \A p \in seeders' : "seeder" \in claimed[p],
           \A p \in leechers' : "leecher" \in claimed[p]
    PROVE  IInv'
<1>1. o \in Step /\ o \notin {"peers", "write", "leave"}
  BY DEF Step, Outcome
<1>2. TypeOK
  BY DEF IInv
<1>3. /\ handler' \in [Handler -> Record]
      /\ \A x \in Handler : x # r => handler'[x] = handler[x]
      /\ handler'[r].pc = o
      /\ handler'[r].req = handler[r].req
      /\ handler'[r].peers = NoPeers
      /\ Bounded(handler'[r])
  BY <1>1, <1>2, EndFrame
<1>4. ListClaimed(handler[r].peers)'
  BY <1>3, NothingClaimed DEF ListClaimed
<1>5. handler'[r].pc \in {"peers", "write", "after", "leave"} =>
         Roles(handler'[r].req) \subseteq claimed'[handler'[r].req.peer]
  BY <1>1, <1>3, HandlerFacts
<1>6. claimed' \in [Peer -> SUBSET {"seeder", "leecher"}]
  BY DEF IInv, TypeOK
<1> QED
  BY <1>3, <1>4, <1>5, <1>6, Assemble

\* A step of a handler that keeps its response and does not add to the store.
LEMMA GotoInv ==
    ASSUME IInv, NEW r \in Handler, NEW o \in Step, Goto(r, o),
           claimed' \in [Peer -> SUBSET {"seeder", "leecher"}],
           \A p \in Peer : claimed[p] \subseteq claimed'[p],
           o \in {"peers", "write", "after", "leave"} =>
              Roles(handler[r].req) \subseteq claimed'[handler[r].req.peer],
           seeders' \subseteq seeders, leechers' \subseteq leechers, latest' = latest
    PROVE  IInv'
<1>1. TypeOK
  BY DEF IInv
<1>2. /\ handler' \in [Handler -> Record]
      /\ \A x \in Handler : x # r => handler'[x] = handler[x]
      /\ handler'[r].pc = o
      /\ handler'[r].req = handler[r].req
      /\ handler'[r].peers = handler[r].peers
      /\ Bounded(handler[r]) => Bounded(handler'[r])
  BY <1>1, GotoFrame
<1>3. Bounded(handler'[r])
  BY <1>2, HandlerFacts
<1>4. ListClaimed(handler[r].peers)'
  <2>1. ListClaimed(handler[r].peers) /\ handler[r].peers \in [Stage -> SUBSET Peer]
    BY HandlerFacts DEF Record
  <2>2. \A i \in {1, 2, 3, 4} : handler[r].peers[i] \subseteq Peer
    BY <2>1 DEF Stage
  <2> QED
    BY <1>2, <2>1, <2>2 DEF ListClaimed
<1>5. /\ seeders' \subseteq Peer /\ leechers' \subseteq Peer
      /\ latest' \in [Peer -> Event]
      /\ \A p \in seeders' : "seeder" \in claimed'[p]
      /\ \A p \in leechers' : "leecher" \in claimed'[p]
  BY DEF IInv, TypeOK, OnlyClaimed
<1> QED
  BY <1>2, <1>3, <1>4, <1>5, Assemble

\* AnnouncePeers lists peers from the maps, within NumWant.
LEMMA AnnouncePeersInv ==
    ASSUME IInv, NEW r \in Handler, AnnouncePeers(r)
    PROVE  IInv'
<1> DEFINE q == handler[r].req
           c == Candidates(q.peer, q.seeding)
           n == handler[r].numWant
<1>1. PICK l \in Listings(c, n) :
         handler' = [handler EXCEPT ![r].pc = "write", ![r].peers = l,
                                    ![r].self = (l = NoPeers)]
  BY Zenon DEF AnnouncePeers
<1>2. seeders \subseteq Peer /\ leechers \subseteq Peer
  BY DEF IInv, TypeOK
<1>3. /\ c[1] \subseteq seeders /\ c[2] \subseteq seeders
      /\ c[3] \subseteq leechers /\ c[4] \subseteq leechers
  BY DEF Candidates, SameFamily, OtherFamily
<1>4. n \in Nat
  BY HandlerFacts
<1>5. /\ l \in [Stage -> SUBSET Peer]
      /\ l[1] \subseteq c[1] /\ l[2] \subseteq c[2]
      /\ l[3] \subseteq c[3] /\ l[4] \subseteq c[4]
      /\ Cardinality(l[1]) + Cardinality(l[2])
           + Cardinality(l[3]) + Cardinality(l[4]) <= n
  <2> HIDE DEF c, n
  <2> QED
    BY <1>1, <1>2, <1>3, <1>4, ListingBounds
<1> HIDE DEF c
<1>6. /\ handler' \in [Handler -> Record]
      /\ \A x \in Handler : x # r => handler'[x] = handler[x]
      /\ handler'[r].pc = "write"
      /\ handler'[r].req = handler[r].req
      /\ handler'[r].numWant = n
      /\ handler'[r].peers = l
      /\ handler'[r].self = (l = NoPeers)
  <2>1. handler \in [Handler -> Record]
    BY DEF IInv, TypeOK, Record
  <2>2. "write" \in Step /\ (l = NoPeers) \in BOOLEAN
    BY DEF Step
  <2> QED
    BY <1>1, <1>5, <2>1, <2>2, Zenon DEF Record
<1>7. Bounded(handler'[r])
  BY <1>5, <1>6, HandlerFacts, Zenon DEF Bounded
<1>8. claimed' = claimed /\ seeders' = seeders /\ leechers' = leechers /\ latest' = latest
  BY DEF AnnouncePeers
<1>9. ListClaimed(handler[r].peers)'
  BY <1>3, <1>5, <1>6, <1>8 DEF ListClaimed, IInv, OnlyClaimed
<1>10. handler[r].pc = "peers"
  BY DEF AnnouncePeers, At
<1>11. handler'[r].pc \in {"peers", "write", "after", "leave"} =>
         Roles(handler'[r].req) \subseteq claimed'[handler'[r].req.peer]
  BY <1>6, <1>8, <1>10, HandlerFacts
<1>12. /\ claimed' \in [Peer -> SUBSET {"seeder", "leecher"}]
       /\ latest' \in [Peer -> Event]
       /\ seeders' \subseteq Peer /\ leechers' \subseteq Peer
       /\ \A p \in seeders' : "seeder" \in claimed'[p]
       /\ \A p \in leechers' : "leecher" \in claimed'[p]
       /\ \A p \in Peer : claimed[p] \subseteq claimed'[p]
  BY <1>8 DEF IInv, TypeOK, OnlyClaimed
<1> QED
  BY <1>6, <1>7, <1>9, <1>11, <1>12, Assemble

(* A tracker that has just started, with an empty store and idle handlers,  *)
(* satisfies the inductive invariant.                                       *)
LEMMA InitInv == Init => IInv
<1> SUFFICES ASSUME Init
             PROVE  IInv
  OBVIOUS
<1>1. /\ NoPeers \in [Stage -> SUBSET Peer]
      /\ "idle" \in Step /\ "none" \in Event
  BY DEF NoPeers, Step, Outcome, Event
<1>2. \A r \in Handler : /\ handler[r].pc = "idle" /\ handler[r].numWant = 0
                         /\ handler[r].peers = NoPeers
  BY Zenon DEF Init
<1>3. TypeOK
  <2> DEFINE Idle == [pc : {"idle"}, req : Request, numWant : {0},
                      peers : {NoPeers}, self : {FALSE}]
  <2>0. ASSUME NEW h \in Idle
        PROVE  h \in Record
    <3>1. h = [pc |-> "idle", req |-> h.req, numWant |-> 0,
               peers |-> NoPeers, self |-> FALSE] /\ h.req \in Request
      BY Zenon
    <3>2. 0 \in Nat /\ FALSE \in BOOLEAN
      OBVIOUS
    <3> QED
      BY <1>1, <3>1, <3>2, Zenon DEF Record
  <2>1. handler \in [Handler -> Record]
    BY <2>0, Zenon DEF Init
  <2> QED
    BY <1>1, <2>1 DEF Init, TypeOK, Record
<1>4. ResponseBounded
  <2> SUFFICES ASSUME NEW r \in Handler
               PROVE  Bounded(handler[r])
    BY DEF ResponseBounded, Bounded
  <2>1. 0 <= Greatest(MaxNumWant, DefaultNumWant)
    BY TrackerAssumption DEF Greatest
  <2> QED
    BY <1>2, <2>1, NothingBounded
<1>5. OnlyClaimed
  BY <1>2, NothingClaimed, Zenon DEF Init, OnlyClaimed, ListedSeeders, ListedLeechers, ListClaimed
<1>6. Claims
  BY <1>2 DEF Claims
<1> QED
  BY <1>3, <1>4, <1>5, <1>6 DEF IInv

(* Every step of a handler, of an AfterAnnounce goroutine and of the        *)
(* collector keeps the inductive invariant.                                 *)
LEMMA NextInv == IInv /\ [Next]_vars => IInv'
<1> SUFFICES ASSUME IInv, [Next]_vars
             PROVE  IInv'
  OBVIOUS
<1>0. /\ seeders \subseteq Peer /\ leechers \subseteq Peer
      /\ claimed \in [Peer -> SUBSET {"seeder", "leecher"}]
      /\ latest \in [Peer -> Event]
      /\ \A p \in seeders : "seeder" \in claimed[p]
      /\ \A p \in leechers : "leecher" \in claimed[p]
  BY DEF IInv, TypeOK, OnlyClaimed
<1>1. ASSUME NEW r \in Handler, NEW q \in Request, Receive(r, q)
      PROVE  IInv'
  <2>1. /\ SanitizeNumWant(q.numWant) \in Nat
        /\ SanitizeNumWant(q.numWant) <= Greatest(MaxNumWant, DefaultNumWant)
    BY TrackerAssumption, SanitizeBounds, Zenon DEF AnnounceRequest
  <2>2. NoPeers \in [Stage -> SUBSET Peer] /\ "hooks" \in Step
    BY DEF NoPeers, Step
  <2>3. handler \in [Handler -> Record]
    BY DEF IInv, TypeOK, Record
  <2>4. /\ handler' \in [Handler -> Record]
        /\ \A x \in Handler : x # r => handler'[x] = handler[x]
        /\ handler'[r].pc = "hooks"
        /\ handler'[r].peers = NoPeers
        /\ handler'[r].numWant = SanitizeNumWant(q.numWant)
    BY <1>1, <2>1, <2>2, <2>3 DEF Receive, Record
  <2>5. Bounded(handler'[r])
    BY <2>1, <2>4, NothingBounded
  <2>6. /\ claimed' = claimed /\ seeders' = seeders /\ leechers' = leechers
        /\ latest' \in [Peer -> Event]
    BY <1>0, <1>1, Zenon DEF Receive, Event
  <2>7. ListClaimed(handler[r].peers)'
    BY <2>4, <2>6, NothingClaimed DEF ListClaimed
  <2>8. \A p \in Peer : claimed[p] \subseteq claimed'[p]
    BY <2>6
  <2> QED
    BY <1>0, <2>4, <2>5, <2>6, <2>7, <2>8, Assemble
<1>2. ASSUME NEW r \in Handler, Reject(r)
      PROVE  IInv'
  <2>1. "refused" \in Step /\ "refused" \notin {"peers", "write", "after", "leave"}
    BY DEF Step, Outcome
  <2>2. /\ Goto(r, "refused") /\ claimed' = claimed /\ latest' = latest
        /\ seeders' = seeders /\ leechers' = leechers
    BY <1>2 DEF Reject
  <2> QED
    BY <1>0, <2>1, <2>2, GotoInv
<1>3. ASSUME NEW r \in Handler, NEW o \in {"refused", "dropped", "panicked"}, End(r, o),
             UNCHANGED <<seeders, leechers, claimed>>, latest' \in [Peer -> Event]
      PROVE  IInv'
  <2>1. o \in Outcome \cup {"after"} /\ o # "after"
    BY DEF Outcome
  <2> QED
    BY <1>0, <1>3, <2>1, EndInv
<1>4. ASSUME NEW r \in Handler, Approve(r)
      PROVE  IInv'
  <2>1. "peers" \in Step
    BY DEF Step
  <2>2. /\ Goto(r, "peers") /\ latest' = latest
        /\ seeders' = seeders /\ leechers' = leechers
        /\ claimed' = [claimed EXCEPT ![handler[r].req.peer] = @ \cup Roles(handler[r].req)]
    BY <1>4 DEF Approve
  <2>3. Roles(handler[r].req) \subseteq {"seeder", "leecher"}
    BY DEF Roles
  <2>4. handler[r].req.peer \in Peer
    BY HandlerFacts
  <2>5. /\ claimed' \in [Peer -> SUBSET {"seeder", "leecher"}]
        /\ \A p \in Peer : claimed[p] \subseteq claimed'[p]
        /\ Roles(handler[r].req) \subseteq claimed'[handler[r].req.peer]
    BY <1>0, <2>2, <2>3, <2>4
  <2> QED
    BY <2>1, <2>2, <2>5, GotoInv
<1>5. ASSUME NEW r \in Handler, Respond(r)
      PROVE  IInv'
  <2>1. /\ handler[r].req.peer \in Peer /\ handler[r].req.event \in Event
        /\ "none" \in Event
    BY HandlerFacts DEF AnnounceRequest, Event
  <2>2. latest' \in [Peer -> Event]
    BY <1>0, <1>5, <2>1 DEF Respond
  <2> QED
    BY <1>0, <1>5, <2>2, EndInv DEF Respond, At
<1>6. ASSUME NEW r \in Handler, PostHookFails(r)
      PROVE  IInv'
  <2>1. handler[r].req.peer \in Peer /\ "none" \in Event
    BY HandlerFacts DEF Event
  <2>2. latest' \in [Peer -> Event]
    BY <1>0, <1>6, <2>1 DEF PostHookFails
  <2> QED
    BY <1>3, <1>6, <2>2 DEF PostHookFails
<1>7. ASSUME NEW r \in Handler, DeleteSeeder(r)
      PROVE  IInv'
  <2>1. "leave" \in Step
    BY DEF Step
  <2>2. /\ Goto(r, "leave") /\ latest' = latest /\ claimed' = claimed
        /\ seeders' \subseteq seeders /\ leechers' = leechers
        /\ handler[r].pc = "after"
    BY <1>7 DEF DeleteSeeder, At
  <2> QED
    BY <1>0, <2>1, <2>2, HandlerFacts, GotoInv
<1>8. ASSUME NEW r \in Handler,
             DeleteLeecher(r) \/ GraduateLeecher(r) \/ PutSeeder(r) \/ PutLeecher(r)
      PROVE  IInv'
  <2>1. /\ End(r, "done") /\ claimed' = claimed /\ latest' = latest
    BY <1>8 DEF DeleteLeecher, GraduateLeecher, PutSeeder, PutLeecher
  <2>2. handler[r].req.peer \in Peer
    BY HandlerFacts
  <2>3. /\ seeders' \subseteq seeders
           \/ /\ seeders' = seeders \cup {handler[r].req.peer}
              /\ "seeder" \in Roles(handler[r].req)
              /\ handler[r].pc = "after"
        /\ leechers' \subseteq leechers
           \/ /\ leechers' = leechers \cup {handler[r].req.peer}
              /\ "leecher" \in Roles(handler[r].req)
              /\ handler[r].pc = "after"
    BY <1>8 DEF DeleteLeecher, GraduateLeecher, PutSeeder, PutLeecher, Roles, At
  <2>4. /\ \A p \in seeders' : p \in Peer /\ "seeder" \in claimed[p]
        /\ \A p \in leechers' : p \in Peer /\ "leecher" \in claimed[p]
    BY <1>0, <2>2, <2>3, HandlerFacts
  <2>5. "done" \in Outcome \cup {"after"}
    BY DEF Outcome
  <2> QED
    BY <1>0, <2>1, <2>4, <2>5, EndInv
<1>9. ASSUME NEW p \in Peer, Expire(p)
      PROVE  IInv'
  <2>1. /\ handler' = handler /\ claimed' = claimed /\ latest' = latest
        /\ seeders' \subseteq seeders /\ leechers' \subseteq leechers
    BY <1>9 DEF Expire
  <2>2. TypeOK'
    BY <2>1 DEF IInv, TypeOK
  <2>3. ResponseBounded' /\ OnlyClaimed' /\ Claims'
    BY <2>1, Zenon DEF IInv, ResponseBounded, OnlyClaimed, Claims, ListedSeeders, ListedLeechers,
       NoPeers
  <2> QED
    BY <2>2, <2>3 DEF IInv
<1>10. CASE UNCHANGED vars
  BY <1>10, Zenon DEF vars, IInv, TypeOK, ResponseBounded, OnlyClaimed, Claims,
     ListedSeeders, ListedLeechers
<1>11. ASSUME NEW r \in Handler, Work(r)
       PROVE  IInv'
  <2>1. CASE Refuse(r) \/ WritePanics(r) \/ WriteFails(r)
    BY <1>0, <1>3, <2>1 DEF Refuse, WritePanics, WriteFails
  <2> QED
    BY <1>4, <1>5, <1>6, <1>7, <1>8, <1>11, <2>1, AnnouncePeersInv DEF Work
<1> QED
  BY <1>1, <1>2, <1>9, <1>10, <1>11 DEF Next

\* IInv is an inductive invariant of the announce path.
THEOREM Invariance == Spec => []IInv
BY InitInv, NextInv, PTL DEF Spec

\* The variables keep their types.
THEOREM TypeCorrect == Spec => []TypeOK
<1>1. IInv => TypeOK
  BY DEF IInv
<1> QED
  BY <1>1, Invariance, PTL

\* No response lists more peers than NumWant, and NumWant is within the
\* configured limits (SanitizeAnnounce, AnnouncePeers, appendPeers).
THEOREM ResponsesBounded == Spec => []ResponseBounded
<1>1. IInv => ResponseBounded
  BY DEF IInv
<1> QED
  BY <1>1, Invariance, PTL

\* Whatever the interleaving of announces, refusals, updates and expiry, a
\* peer is stored and listed only in a role it announced and was let through
\* with (HandleAnnounce, AfterAnnounce, swarmInteractionHook).
THEOREM StoredOnlyClaimed == Spec => []OnlyClaimed
<1>1. IInv => OnlyClaimed
  BY DEF IInv
<1> QED
  BY <1>1, Invariance, PTL

-----------------------------------------------------------------------------
(***************************************************************************)
(* A stopped event changes the store in two steps, a completed event in     *)
(* one, and other announces of the peer may come before it, after it and in *)
(* between.  The invariant follows the only handler that can be busy with   *)
(* the peer while `latest` says what the peer announced last.               *)
(***************************************************************************)
Busy(r, p) == handler[r].req.peer = p /\ handler[r].pc \notin Outcome

\* What event e leaves of p in maps S and L.
Out(p, e, S, L) == p \notin L /\ (e = "stopped" => p \notin S)

Carries(r, p) ==
    /\ \A s \in Handler : Busy(s, p) => s = r
    /\ \/ /\ handler[r].pc \in {"hooks", "peers", "write"}
          /\ Out(p, latest[p], seeders, leechers)
       \/ handler[r].pc = "after" /\ handler[r].req.event = latest[p]
       \/ handler[r].pc = "leave" /\ latest[p] = "stopped" /\ p \notin seeders

EventInv ==
    \A p \in Peer :
       latest[p] # "none" =>
          /\ \A r \in Handler : Busy(r, p) => Carries(r, p)
          /\ (\A r \in Handler : ~Busy(r, p)) => Out(p, latest[p], seeders, leechers)

\* A step of handler r that leaves the other handlers, and the entries of
\* other peers, alone keeps what the invariant says of the other peers.
LEMMA OtherPeers ==
    ASSUME EventInv, NEW r \in Handler, NEW q \in Peer,
           \A x \in Handler : x # r => handler'[x] = handler[x],
           handler[r].req.peer = q \/ handler[r].pc \in Outcome,
           handler'[r].req.peer = q,
           NEW p \in Peer, p # q, latest'[p] # "none", latest'[p] = latest[p],
           p \in seeders' => p \in seeders, p \in leechers' => p \in leechers
    PROVE  /\ \A s \in Handler : Busy(s, p)' => Carries(s, p)'
           /\ (\A s \in Handler : ~Busy(s, p)') => Out(p, latest'[p], seeders', leechers')
<1>1. \A s \in Handler : Busy(s, p)' <=> Busy(s, p)
  BY DEF Busy
<1>2. \A s \in Handler : Busy(s, p) => handler'[s] = handler[s]
  BY DEF Busy
<1>3. Out(p, latest[p], seeders, leechers) => Out(p, latest'[p], seeders', leechers')
  BY DEF Out
<1>4. QED
  BY <1>1, <1>2, <1>3 DEF EventInv, Carries

\* A step of handler r, busy with q before the step, keeps the invariant when
\* it does what the invariant asks of q.
LEMMA OwnPeer ==
    ASSUME EventInv, NEW r \in Handler, NEW q \in Peer,
           \A x \in Handler : x # r => handler'[x] = handler[x],
           Busy(r, q), handler'[r].req = handler[r].req, latest'[q] = latest[q],
           Carries(r, q) =>
              IF handler'[r].pc \in Outcome
              THEN Out(q, latest[q], seeders', leechers')
              ELSE \/ /\ handler'[r].pc \in {"hooks", "peers", "write"}
                      /\ Out(q, latest[q], seeders', leechers')
                   \/ handler'[r].pc = "after" /\ handler[r].req.event = latest[q]
                   \/ /\ handler'[r].pc = "leave" /\ latest[q] = "stopped"
                      /\ q \notin seeders',
           latest'[q] # "none"
    PROVE  /\ \A s \in Handler : Busy(s, q)' => Carries(s, q)'
           /\ (\A s \in Handler : ~Busy(s, q)') => Out(q, latest'[q], seeders', leechers')
<1>1. Carries(r, q)
  BY DEF EventInv
<1>2. \A s \in Handler : Busy(s, q)' => s = r
  BY <1>1 DEF Carries, Busy
<1>3. CASE handler'[r].pc \in Outcome
  BY <1>1, <1>2, <1>3 DEF Busy
<1>4. CASE handler'[r].pc \notin Outcome
  BY <1>1, <1>2, <1>4 DEF Busy, Carries
<1>5. QED
  BY <1>3, <1>4

\* What End and Goto do to the handlers.
LEMMA Moves ==
    ASSUME TypeOK, NEW r \in Handler, NEW o, End(r, o) \/ Goto(r, o)
    PROVE  /\ \A x \in Handler : x # r => handler'[x] = handler[x]
           /\ handler'[r].pc = o /\ handler'[r].req = handler[r].req
BY DEF TypeOK, End, Goto

\* Every step keeps the invariant.
LEMMA EventNext == IInv /\ EventInv /\ [Next]_vars => EventInv'
<1> SUFFICES ASSUME IInv, EventInv, [Next]_vars, NEW p \in Peer,
                    latest'[p] # "none"
             PROVE  /\ \A s \in Handler : Busy(s, p)' => Carries(s, p)'
                    /\ (\A s \in Handler : ~Busy(s, p)')
                          => Out(p, latest'[p], seeders', leechers')
  BY DEF EventInv
<1> DEFINE Goal == /\ \A s \in Handler : Busy(s, p)' => Carries(s, p)'
                   /\ (\A s \in Handler : ~Busy(s, p)')
                         => Out(p, latest'[p], seeders', leechers')
<1>0. TypeOK /\ latest \in [Peer -> Event]
  BY DEF IInv, TypeOK
<1>1. ASSUME NEW r \in Handler, NEW q \in Request, Receive(r, q)
      PROVE  Goal
  <2>1. /\ \A x \in Handler : x # r => handler'[x] = handler[x]
        /\ handler'[r].req = q /\ handler'[r].pc = "hooks"
        /\ handler[r].pc \in Outcome /\ q.peer \in Peer
    BY <1>0, <1>1, TrackerAssumption DEF Receive, TypeOK, AnnounceRequest
  <2>2. seeders' = seeders /\ leechers' = leechers
    BY <1>1 DEF Receive
  <2>3. CASE p # q.peer
    <3>1. latest'[p] = latest[p]
      BY <1>0, <1>1, <2>3 DEF Receive
    <3>2. QED
      BY <2>1, <2>2, <2>3, <3>1, OtherPeers
  <2>4. CASE p = q.peer
    <3>1. Alone(r, p) /\ latest[p] # "none" /\ latest'[p] = latest[p]
      BY <1>0, <1>1, <2>4 DEF Receive
    <3>2. \A s \in Handler : ~Busy(s, p)
      BY <2>1, <3>1 DEF Alone, Busy
    <3>3. Out(p, latest[p], seeders, leechers)
      BY <3>1, <3>2 DEF EventInv
    <3>4. \A s \in Handler : Busy(s, p)' => s = r
      BY <2>1, <3>2 DEF Busy
    <3>5. Busy(r, p)'
      BY <2>1, <2>4 DEF Busy, Outcome
    <3>6. QED
      BY <2>1, <2>2, <3>1, <3>3, <3>4, <3>5 DEF Carries
  <2>5. QED
    BY <2>3, <2>4
<1>2. ASSUME NEW r \in Handler, Reject(r)
      PROVE  Goal
  <2>1. /\ \A x \in Handler : x # r => handler'[x] = handler[x]
        /\ handler'[r].pc \in Outcome /\ handler[r].pc \in Outcome
        /\ UNCHANGED <<seeders, leechers, latest>>
    BY <1>0, <1>2, Moves DEF Reject, Outcome
  <2>2. \A s \in Handler : Busy(s, p)' <=> Busy(s, p)
    BY <2>1 DEF Busy
  <2>3. \A s \in Handler : Busy(s, p) => handler'[s] = handler[s]
    BY <2>1 DEF Busy
  <2>4. QED
    BY <2>1, <2>2, <2>3 DEF EventInv, Carries
<1>3. ASSUME NEW r \in Handler, Work(r)
      PROVE  Goal
  <2> DEFINE q == handler[r].req.peer
  <2>1. q \in Peer
    BY HandlerFacts
  <2>2. /\ \A x \in Handler : x # r => handler'[x] = handler[x]
        /\ handler'[r].req = handler[r].req
    <3>1. CASE AnnouncePeers(r)
      BY <1>0, <3>1 DEF AnnouncePeers, TypeOK
    <3>2. CASE ~AnnouncePeers(r)
      <4>1. \E o \in Step : End(r, o) \/ Goto(r, o)
        BY <1>3, <3>2 DEF Work, Refuse, Approve, Respond, WritePanics,
           WriteFails, PostHookFails, DeleteSeeder, DeleteLeecher, GraduateLeecher,
           PutSeeder, PutLeecher, Step, Outcome
      <4>2. QED
        BY <1>0, <4>1, Moves
    <3>3. QED
      BY <3>1, <3>2
  <2>3. Busy(r, q)
    BY <1>3, Zenon DEF Work, Refuse, Approve, AnnouncePeers, Respond, WritePanics,
       WriteFails, PostHookFails, DeleteSeeder, DeleteLeecher, GraduateLeecher,
       PutSeeder, PutLeecher, At, Busy, Outcome
  <2>4. CASE p # q
    <3>1. latest'[p] = latest[p]
      BY <1>0, <1>3, <2>1, <2>4, Zenon DEF Work, Refuse, Approve, AnnouncePeers, Respond,
         WritePanics, WriteFails, PostHookFails, DeleteSeeder, DeleteLeecher,
         GraduateLeecher, PutSeeder, PutLeecher
    <3>2. (p \in seeders' => p \in seeders) /\ (p \in leechers' => p \in leechers)
      BY <1>3, <2>4, Zenon DEF Work, Refuse, Approve, AnnouncePeers, Respond,
         WritePanics, WriteFails, PostHookFails, DeleteSeeder, DeleteLeecher,
         GraduateLeecher, PutSeeder, PutLeecher
    <3>3. QED
      BY <2>1, <2>2, <2>4, <3>1, <3>2, OtherPeers
  <2>5. CASE p = q /\ Respond(r)
    <3>1. /\ Alone(r, p) /\ handler[r].req.event = latest'[p]
          /\ handler'[r].pc = "after"
      BY <1>0, <2>1, <2>5, Moves DEF Respond
    <3>2. \A s \in Handler : Busy(s, p)' => s = r
      BY <2>2, <3>1 DEF Alone, Busy
    <3>3. Busy(r, p)'
      BY <2>2, <2>5, <3>1 DEF Busy, Outcome
    <3>4. QED
      BY <2>2, <3>1, <3>2, <3>3 DEF Carries
  <2>6. CASE p = q /\ PostHookFails(r)
    BY <1>0, <2>1, <2>6 DEF PostHookFails
  <2>7. CASE p = q /\ ~Respond(r) /\ ~PostHookFails(r)
    <3>1. latest'[p] = latest[p]
      BY <1>3, <2>7, Zenon DEF Work, Refuse, Approve, AnnouncePeers, WritePanics,
         WriteFails, DeleteSeeder, DeleteLeecher, GraduateLeecher, PutSeeder, PutLeecher
    <3> DEFINE Kept == Carries(r, q) =>
              IF handler'[r].pc \in Outcome
              THEN Out(q, latest[q], seeders', leechers')
              ELSE \/ /\ handler'[r].pc \in {"hooks", "peers", "write"}
                      /\ Out(q, latest[q], seeders', leechers')
                   \/ handler'[r].pc = "after" /\ handler[r].req.event = latest[q]
                   \/ /\ handler'[r].pc = "leave" /\ latest[q] = "stopped"
                      /\ q \notin seeders'
    <3>2. CASE Refuse(r) \/ WritePanics(r) \/ WriteFails(r)
      <4>1. /\ handler'[r].pc \in Outcome /\ UNCHANGED <<seeders, leechers>>
            /\ handler[r].pc \in {"hooks", "write"}
        BY <1>0, <3>2, Moves DEF Refuse, WritePanics, WriteFails, Outcome, At
      <4>2. Kept
        BY <4>1 DEF Carries
      <4>3. QED
        BY <2>1, <2>2, <2>3, <2>7, <3>1, <4>2, OwnPeer
    <3>3. CASE Approve(r) \/ AnnouncePeers(r)
      <4>1. /\ handler'[r].pc \in {"peers", "write"} /\ UNCHANGED <<seeders, leechers>>
            /\ handler[r].pc \in {"hooks", "peers"}
        <5>1. CASE Approve(r)
          BY <1>0, <5>1, Moves DEF Approve, At
        <5>2. CASE AnnouncePeers(r)
          BY <1>0, <5>2 DEF AnnouncePeers, At, TypeOK
        <5>3. QED
          BY <3>3, <5>1, <5>2
      <4>2. Kept
        BY <4>1 DEF Carries, Outcome
      <4>3. QED
        BY <2>1, <2>2, <2>3, <2>7, <3>1, <4>2, OwnPeer
    <3>4. CASE DeleteSeeder(r)
      <4>1. /\ handler'[r].pc = "leave" /\ seeders' = seeders \ {q}
            /\ handler[r].pc = "after" /\ handler[r].req.event = "stopped"
        BY <1>0, <3>4, Moves DEF DeleteSeeder, At
      <4>2. Kept
        BY <4>1 DEF Outcome, Carries
      <4>3. QED
        BY <2>1, <2>2, <2>3, <2>7, <3>1, <4>2, OwnPeer
    <3>5. CASE DeleteLeecher(r)
      <4>1. /\ handler'[r].pc = "done" /\ handler[r].pc = "leave"
            /\ seeders' = seeders /\ leechers' = leechers \ {q}
        BY <1>0, <3>5, Moves DEF DeleteLeecher, At
      <4>2. Kept
        BY <4>1 DEF Outcome, Carries, Out
      <4>3. QED
        BY <2>1, <2>2, <2>3, <2>7, <3>1, <4>2, OwnPeer
    <3>6. CASE GraduateLeecher(r)
      <4>1. /\ handler'[r].pc = "done" /\ handler[r].pc = "after"
            /\ handler[r].req.event = "completed" /\ leechers' = leechers \ {q}
        BY <1>0, <3>6, Moves DEF GraduateLeecher, At
      <4>2. Kept
        BY <4>1 DEF Outcome, Carries, Out
      <4>3. QED
        BY <2>1, <2>2, <2>3, <2>7, <3>1, <4>2, OwnPeer
    <3>7. CASE PutSeeder(r) \/ PutLeecher(r)
      <4>1. handler[r].pc = "after" /\ handler[r].req.event = "none"
        BY <3>7 DEF PutSeeder, PutLeecher, At
      <4>2. ~Carries(r, q)
        BY <2>7, <3>1, <4>1 DEF Carries
      <4>3. QED
        BY <2>1, <2>2, <2>3, <2>7, <3>1, <4>2, OwnPeer
    <3>8. QED
      BY <1>3, <2>7, <3>2, <3>3, <3>4, <3>5, <3>6, <3>7 DEF Work
  <2>8. QED
    BY <2>4, <2>5, <2>6, <2>7
<1>4. ASSUME NEW e \in Peer, Expire(e)
      PROVE  Goal
  <2>1. /\ seeders' \subseteq seeders /\ leechers' \subseteq leechers
        /\ handler' = handler /\ latest' = latest
    BY <1>4 DEF Expire
  <2>2. QED
    BY <2>1 DEF EventInv, Carries, Busy, Out
<1>5. CASE UNCHANGED vars
  BY <1>5 DEF vars, EventInv, Carries, Busy
<1>6. QED
  BY <1>1, <1>2, <1>3, <1>4, <1>5 DEF Next

\* Whatever announces of other peers, refusals, failures and expiries come in
\* between, a stopped event that was alone with its peer leaves neither a
\* seeder nor a leecher behind (swarmInteractionHook.HandleAnnounce).
THEOREM StoppedPeersLeave == Spec => []StoppedLeaves
<1>1. Init => EventInv
  BY DEF Init, EventInv
<1>2. IInv /\ EventInv /\ [Next]_vars => EventInv'
  BY EventNext
<1>3. EventInv => StoppedLeaves
  BY DEF EventInv, StoppedLeaves, Busy, Out
<1>4. QED
  BY <1>1, <1>2, <1>3, Invariance, PTL DEF Spec

\* In the same way a completed event that was alone with its peer leaves no
\* leecher behind: a peer in both maps, which announced as one and then as the
\* other, is out of the leechers when it completes.
THEOREM CompletedPeersGraduate == Spec => []CompletedGraduates
<1>1. Init => EventInv
  BY DEF Init, EventInv
<1>2. IInv /\ EventInv /\ [Next]_vars => EventInv'
  BY EventNext
<1>3. EventInv => CompletedGraduates
  BY DEF EventInv, CompletedGraduates, Busy, Out
<1>4. QED
  BY <1>1, <1>2, <1>3, Invariance, PTL DEF Spec

-----------------------------------------------------------------------------

\* A loop that appends less than is wanted has walked through its map.
LEMMA TakeExact ==
    ASSUME NEW S \in SUBSET Peer, NEW n \in Nat, NEW T \in Take(S, n)
    PROVE  /\ T \subseteq S
           /\ Cardinality(T) \in Nat
           /\ Cardinality(S) \in Nat
           /\ Cardinality(T) = Least(n, Cardinality(S))
           /\ Cardinality(T) < n => T = S
           /\ T # {} => n > 0
<1>1. IsFiniteSet(S)
  BY TrackerAssumption, FS_Subset
<1>2. Cardinality(S) \in Nat
  BY <1>1, FS_CardinalityType
<1>3. T \in SUBSET S /\ Cardinality(T) = Least(n, Cardinality(S))
  BY DEF Take
<1>4. IsFiniteSet(T) /\ (Cardinality(T) = Cardinality(S) => T = S)
  BY <1>1, <1>3, FS_Subset
<1>5. T # {} => Cardinality(T) # 0
  BY <1>4, FS_EmptySet
<1>6. Cardinality(T) \in Nat /\ (Cardinality(T) < n => Cardinality(T) = Cardinality(S))
  BY <1>2, <1>3 DEF Least
<1>7. Cardinality(T) <= n
  BY <1>2, <1>3 DEF Least
<1> QED
  BY <1>2, <1>3, <1>4, <1>5, <1>6, <1>7

\* The size of the union of two disjoint sets of peers.
LEMMA DisjointSize ==
    ASSUME NEW S \in SUBSET Peer, NEW T \in SUBSET Peer, S \cap T = {}
    PROVE  Cardinality(S \cup T) = Cardinality(S) + Cardinality(T)
<1>1. IsFiniteSet(S) /\ IsFiniteSet(T)
  BY TrackerAssumption, FS_Subset
<1>2. Cardinality(S \cup T) = Cardinality(S) + Cardinality(T) - Cardinality(S \cap T)
  BY <1>1, FS_Union
<1>3. Cardinality(S) \in Nat /\ Cardinality(T) \in Nat /\ Cardinality({}) = 0
  BY <1>1, FS_CardinalityType, FS_EmptySet
<1>4. Cardinality(S \cap T) = 0
  BY <1>3
<1> QED
  BY <1>2, <1>3, <1>4

\* A result of AnnouncePeers goes on to the next map only when it has all of
\* the maps before, and is short only when it has all of the first three.
LEMMA ListingExact ==
    ASSUME NEW c, c[1] \in SUBSET Peer, c[2] \in SUBSET Peer,
           c[3] \in SUBSET Peer, c[4] \in SUBSET Peer,
           NEW n \in Nat, NEW l \in Listings(c, n)
    PROVE  /\ l[2] # {} => l[1] = c[1]
           /\ l[3] # {} => l[1] = c[1] /\ l[2] = c[2]
           /\ l[4] # {} => l[1] = c[1] /\ l[2] = c[2] /\ l[3] = c[3]
           /\ Cardinality(l[1]) + Cardinality(l[2]) + Cardinality(l[3]) + Cardinality(l[4]) < n
                => l[1] = c[1] /\ l[2] = c[2] /\ l[3] = c[3]
<1>1. PICK x \in Take(c[1], n) :
         \E y \in Take(c[2], n - Cardinality(x)) :
         \E z \in Take(c[3], n - Cardinality(x) - Cardinality(y)) :
         \E w \in Take(c[4], n - Cardinality(x) - Cardinality(y) - Cardinality(z)) :
            l = <<x, y, z, w>>
  BY DEF Listings
<1>2. PICK y \in Take(c[2], n - Cardinality(x)) :
         \E z \in Take(c[3], n - Cardinality(x) - Cardinality(y)) :
         \E w \in Take(c[4], n - Cardinality(x) - Cardinality(y) - Cardinality(z)) :
            l = <<x, y, z, w>>
  BY <1>1
<1>3. PICK z \in Take(c[3], n - Cardinality(x) - Cardinality(y)) :
         \E w \in Take(c[4], n - Cardinality(x) - Cardinality(y) - Cardinality(z)) :
            l = <<x, y, z, w>>
  BY <1>2
<1>4. PICK w \in Take(c[4], n - Cardinality(x) - Cardinality(y) - Cardinality(z)) :
            l = <<x, y, z, w>>
  BY <1>3
<1> DEFINE n2 == n - Cardinality(x)
           n3 == n - Cardinality(x) - Cardinality(y)
           n4 == n - Cardinality(x) - Cardinality(y) - Cardinality(z)
<1>5. /\ Cardinality(x) \in Nat /\ Cardinality(c[1]) \in Nat
      /\ Cardinality(x) = Least(n, Cardinality(c[1]))
      /\ Cardinality(x) < n => x = c[1]
  BY TakeExact
<1>6. n2 \in Nat
  BY <1>5 DEF Least
<1>7. /\ Cardinality(y) \in Nat /\ Cardinality(c[2]) \in Nat
      /\ Cardinality(y) = Least(n2, Cardinality(c[2]))
      /\ Cardinality(y) < n2 => y = c[2]
      /\ y # {} => n2 > 0
  <2>1. y \in Take(c[2], n2)
    BY <1>2
  <2> HIDE DEF n2
  <2> QED
    BY <1>6, <2>1, TakeExact
<1>8. n3 \in Nat
  BY <1>5, <1>6, <1>7 DEF Least
<1>9. /\ Cardinality(z) \in Nat /\ Cardinality(c[3]) \in Nat
      /\ Cardinality(z) = Least(n3, Cardinality(c[3]))
      /\ Cardinality(z) < n3 => z = c[3]
      /\ z # {} => n3 > 0
  <2>1. z \in Take(c[3], n3)
    BY <1>3
  <2> HIDE DEF n3
  <2> QED
    BY <1>8, <2>1, TakeExact
<1>10. n4 \in Nat
  BY <1>5, <1>7, <1>8, <1>9 DEF Least
<1>11. /\ Cardinality(w) \in Nat /\ Cardinality(c[4]) \in Nat
       /\ Cardinality(w) = Least(n4, Cardinality(c[4]))
       /\ w # {} => n4 > 0
  <2>1. w \in Take(c[4], n4)
    BY <1>4
  <2> HIDE DEF n4
  <2> QED
    BY <1>10, <2>1, TakeExact
<1>12. l[1] = x /\ l[2] = y /\ l[3] = z /\ l[4] = w
  BY <1>4
<1>13. /\ n2 > 0 => Cardinality(x) < n
       /\ n3 > 0 => Cardinality(x) < n /\ Cardinality(y) < n2
       /\ n4 > 0 => Cardinality(x) < n /\ Cardinality(y) < n2 /\ Cardinality(z) < n3
  BY <1>5, <1>7, <1>9
<1>14. Cardinality(x) + Cardinality(y) + Cardinality(z) + Cardinality(w) < n
         => Cardinality(x) < n /\ Cardinality(y) < n2 /\ Cardinality(z) < n3
  BY <1>5, <1>7, <1>9, <1>11
<1> HIDE DEF n2, n3, n4
<1> QED
  BY <1>5, <1>7, <1>9, <1>11, <1>12, <1>13, <1>14

\* AnnouncePeers makes the best list the maps allow.
LEMMA BestStep ==
    ASSUME TypeOK, NEW r \in Handler, AnnouncePeers(r)
    PROVE  BestChoice(r)
<1>0. PICK h, p, s, l :
         /\ h = handler'[r] /\ p = h.req.peer
         /\ s = IF h.req.seeding THEN {} ELSE SameFamily(p, seeders)
         /\ l = SameFamily(p, IF h.req.seeding THEN leechers ELSE leechers \ {p})
  OBVIOUS
<1>0a. s \subseteq SameFamily(p, seeders) /\ l \subseteq SameFamily(p, leechers)
  BY <1>0 DEF SameFamily
<1> DEFINE c == Candidates(handler[r].req.peer, handler[r].req.seeding)
           k == h.peers
<1>1. /\ k \in Listings(c, h.numWant)
      /\ h.req = handler[r].req
      /\ h.numWant \in Nat
      /\ h.req.peer \in Peer /\ h.req.seeding \in BOOLEAN
  <2>1. PICK m \in Listings(c, handler[r].numWant) :
           handler' = [handler EXCEPT ![r].pc = "write", ![r].peers = m,
                                      ![r].self = (m = NoPeers)]
    BY Zenon DEF AnnouncePeers
  <2>2. handler \in [Handler -> Record]
    BY DEF TypeOK, Record
  <2>3. /\ h.peers = m /\ h.req = handler[r].req /\ h.numWant = handler[r].numWant
        /\ handler[r].numWant \in Nat /\ handler[r].req \in Request
    BY <1>0, <2>1, <2>2 DEF Record
  <2> QED
    BY <2>1, <2>3, TrackerAssumption, Zenon DEF AnnounceRequest
<1>2. /\ c[1] = s /\ c[2] \subseteq OtherFamily(p, seeders)
      /\ c[3] = l /\ c[4] = OtherFamily(p, leechers)
      /\ c[1] \in SUBSET Peer /\ c[2] \in SUBSET Peer
      /\ c[3] \in SUBSET Peer /\ c[4] \in SUBSET Peer
  <2>1. c = Candidates(p, h.req.seeding)
    BY <1>0, <1>1
  <2>2. seeders \in SUBSET Peer /\ leechers \in SUBSET Peer
    BY DEF TypeOK
  <2> HIDE DEF c
  <2>3. c[1] = s /\ c[2] \subseteq OtherFamily(p, seeders)
    <3>1. CASE h.req.seeding
      BY <1>0, <2>1, <3>1 DEF Candidates, SameFamily, OtherFamily
    <3>2. CASE ~h.req.seeding
      BY <1>0, <2>1, <3>2 DEF Candidates
    <3> QED
      BY <3>1, <3>2
  <2>4. c[3] = l /\ c[4] = OtherFamily(p, leechers)
    <3>1. CASE h.req.seeding
      BY <1>0, <2>1, <3>1 DEF Candidates
    <3>2. CASE ~h.req.seeding
      BY <1>0, <2>1, <3>2 DEF Candidates, SameFamily
    <3> QED
      BY <3>1, <3>2
  <2> QED
    BY <1>0a, <2>2, <2>3, <2>4 DEF SameFamily, OtherFamily
<1> HIDE DEF c, k
<1>3. /\ k[2] # {} => k[1] = c[1]
      /\ k[3] # {} => k[1] = c[1] /\ k[2] = c[2]
      /\ k[4] # {} => k[1] = c[1] /\ k[2] = c[2] /\ k[3] = c[3]
      /\ Cardinality(k[1]) + Cardinality(k[2]) + Cardinality(k[3]) + Cardinality(k[4])
           < h.numWant => k[1] = c[1] /\ k[2] = c[2] /\ k[3] = c[3]
  BY <1>1, <1>2, ListingExact
<1>4. /\ k[1] \subseteq c[1] /\ k[2] \subseteq c[2]
      /\ k[3] \subseteq c[3] /\ k[4] \subseteq c[4]
  BY <1>1, <1>2, ListingBounds, Zenon
<1>5. /\ c[1] \cap c[2] = {}
      /\ c[3] \cap c[4] = {}
  BY <1>0a, <1>2 DEF SameFamily, OtherFamily
<1>6. /\ k[1] \in SUBSET Peer /\ k[2] \in SUBSET Peer
      /\ k[3] \in SUBSET Peer /\ k[4] \in SUBSET Peer
  BY <1>2, <1>4, Zenon
<1>7. /\ Cardinality(k[1] \cup k[2]) = Cardinality(k[1]) + Cardinality(k[2])
      /\ Cardinality(k[3] \cup k[4]) = Cardinality(k[3]) + Cardinality(k[4])
  <2>1. k[1] \cap k[2] = {} /\ k[3] \cap k[4] = {}
    BY <1>4, <1>5
  <2> QED
    BY <1>6, <2>1, DisjointSize
<1>8. ListedSeeders(h) = k[1] \cup k[2] /\ ListedLeechers(h) = k[3] \cup k[4]
  BY DEF ListedSeeders, ListedLeechers, k
<1>9. /\ Cardinality(k[1]) \in Nat /\ Cardinality(k[2]) \in Nat
      /\ Cardinality(k[3]) \in Nat /\ Cardinality(k[4]) \in Nat
  <2>1. \A T \in SUBSET Peer : Cardinality(T) \in Nat
    BY TrackerAssumption, FS_Subset, FS_CardinalityType
  <2> QED
    BY <1>6, <2>1
<1>10. Cardinality(ListedSeeders(h)) + Cardinality(ListedLeechers(h))
         = Cardinality(k[1]) + Cardinality(k[2]) + Cardinality(k[3]) + Cardinality(k[4])
  BY <1>7, <1>8, <1>9
<1>11. k[2] \cup k[3] \cup k[4] # {} => k[1] = s
  BY <1>2, <1>3
<1>12. k[4] # {} => k[3] = l
  BY <1>2, <1>3
<1>13. Cardinality(ListedSeeders(h)) + Cardinality(ListedLeechers(h)) < h.numWant
         => k[1] = s /\ k[3] = l
  BY <1>2, <1>3, <1>10
<1>14. /\ h.peers[2] \cup h.peers[3] \cup h.peers[4] # {} => h.peers[1] = s
       /\ h.peers[4] # {} => h.peers[3] = l
       /\ Cardinality(ListedSeeders(h)) + Cardinality(ListedLeechers(h)) < h.numWant
            => h.peers[1] = s /\ h.peers[3] = l
  BY <1>11, <1>12, <1>13 DEF k
<1> QED
  BY <1>0, <1>14 DEF BestChoice

\* Only AnnouncePeers of a handler makes its list.
LEMMA MakesList ==
    ASSUME TypeOK, [Next]_vars, NEW r \in Handler,
           At(r, "peers"), handler'[r].pc = "write"
    PROVE  AnnouncePeers(r)
<1>1. "peers" \notin Outcome /\ \A o \in Outcome \cup {"after", "leave", "hooks"} : o # "write"
  BY DEF Outcome
<1>2. handler[r].pc = "peers" /\ handler \in [Handler -> Record]
  BY DEF At, TypeOK, Record
<1>3. handler'[r] # handler[r]
  BY <1>2
<1>4. PICK x \in Handler : (\E q \in Request : Receive(x, q)) \/ Reject(x) \/ Work(x)
  BY <1>3 DEF Next, vars, Expire
<1>5. x = r
  <2> SUFFICES ASSUME x # r
               PROVE  handler'[r] = handler[r]
    BY <1>3
  <2> QED
    BY <1>2, <1>4, Zenon DEF Receive, Reject, Work, Refuse, Approve, AnnouncePeers, Respond,
       WritePanics, WriteFails, PostHookFails, DeleteSeeder, DeleteLeecher,
       GraduateLeecher, PutSeeder, PutLeecher, Goto, End
<1>6. Work(r)
  BY <1>1, <1>2, <1>4, <1>5 DEF Receive, Reject
<1>7. AnnouncePeers(r)
  BY <1>2, <1>6 DEF Work, Refuse, Approve, Respond, WritePanics, WriteFails,
     PostHookFails, DeleteSeeder, DeleteLeecher, GraduateLeecher, PutSeeder, PutLeecher, At
<1> QED
  BY <1>7

\* Every list that AnnouncePeers makes is the best the maps allow for the
\* announcer's family: seeders before leechers, as many as are wanted and
\* there, and nobody of the other family in place of one in the same role.
THEOREM ListingsBest == Spec => BestListing
<1>1. TypeOK /\ [Next]_vars =>
        [\A r \in Handler :
            At(r, "peers") /\ handler'[r].pc = "write" => BestChoice(r)]_vars
  <2> SUFFICES ASSUME TypeOK, [Next]_vars, NEW r \in Handler,
                      At(r, "peers"), handler'[r].pc = "write"
               PROVE  BestChoice(r)
    OBVIOUS
  <2>1. AnnouncePeers(r)
    BY MakesList
  <2> QED
    BY <2>1, BestStep
<1> QED
  BY <1>1, TypeCorrect, PTL DEF Spec, BestListing

=============================================================================
