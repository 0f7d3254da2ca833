---------------------------- MODULE MemoryStore ----------------------------
(***************************************************************************)
(* The in-memory peer store, storage/memory/peer_store.go.                  *)
(*                                                                         *)
(* peerStore.shards is an array of 2 * ShardCount shards, the first half    *)
(* for IPv4 swarms and the second for IPv6.  A shard maps infohashes to     *)
(* swarms, a swarm has two maps from peer keys to the time of the last      *)
(* announce, and the shard counts its seeders and leechers beside them.     *)
(* Here the maps of all shards are two functions on the pairs of an         *)
(* infohash and a peer: the pair determines its shard.                      *)
(*                                                                         *)
(* A writing method checks that the store is not closed, then finds its     *)
(* shard, then does its work holding the shard's lock.  The check and the   *)
(* work are two steps: Stop may come between them.  What a method does      *)
(* while it holds the lock is one step (module ShardLocks is about the      *)
(* locks).  The garbage collector takes the lock once for each infohash.    *)
(***************************************************************************)
EXTENDS Integers, FiniteSets

CONSTANTS
    InfoHash,       \* infohashes
    Peer,           \* peers; the peer key is the injective encoding of one
    IPv4, IPv6,     \* address families
    Family,         \* [Peer -> {IPv4, IPv6}]
    Prefix,         \* [InfoHash -> Nat], the first four bytes as a number
    ShardCount,     \* Config.ShardCount
    PeerLifetime,   \* Config.PeerLifetime
    Lag,            \* the cached clock is at most this far behind
    MaxTime,        \* bound on real time
    Caller,         \* goroutines that call the writing methods
    Absent          \* "not in the map"

ASSUME StoreAssumption ==
    /\ IsFiniteSet(InfoHash)
    /\ IsFiniteSet(Peer)
    /\ IPv4 # IPv6
    /\ Family \in [Peer -> {IPv4, IPv6}]
    /\ Prefix \in [InfoHash -> Nat]
    /\ ShardCount \in Nat \ {0}
    /\ PeerLifetime \in Nat
    /\ Lag \in Nat
    /\ MaxTime \in Nat
    /\ Absent \notin Int

VARIABLES
    seeders,        \* swarm.seeders of every swarm: [Entry -> time or Absent]
    leechers,       \* swarm.leechers of every swarm
    swarms,         \* the keys of peerShard.swarms, for each shard
    numSeeders,     \* peerShard.numSeeders
    numLeechers,    \* peerShard.numLeechers
    now,            \* real time
    clock,          \* the time the time cache holds
    closed,         \* peerStore.closed is closed
    freed,          \* Stop has replaced peerStore.shards
    call,           \* what each caller is doing
    gc,             \* the garbage collection goroutine
    prom            \* whether the goroutine reporting statistics runs

data == <<seeders, leechers, swarms, numSeeders, numLeechers>>
vars == <<seeders, leechers, swarms, numSeeders, numLeechers, now, clock,
          closed, freed, call, gc, prom>>

Entry == InfoHash \X Peer

Shard == 0 .. (2 * ShardCount - 1)

shardIndex(ih, af) ==
    (Prefix[ih] % ShardCount) + (IF af = IPv6 THEN ShardCount ELSE 0)

ShardOf(e) == shardIndex(e[1], Family[e[2]])

\* The entries of map m that are in shard s.
Members(m, s) == {e \in Entry : ShardOf(e) = s /\ m[e] # Absent}

\* The pairs that live in the swarm of ih in shard s.
Swarm(ih, s) == {e \in Entry : e[1] = ih /\ ShardOf(e) = s}

IsEmpty(sd, lc, ih, s) ==
    \A e \in Swarm(ih, s) : sd[e] = Absent /\ lc[e] = Absent

Op == {"PutSeeder", "DeleteSeeder", "PutLeecher", "DeleteLeecher",
       "GraduateLeecher"}

\* A call past its closed check and about to find and lock its shard.  It is
\* lost when it found its shard before Stop replaced the array: what it then
\* writes is in memory that nobody reads.
InFlight == [op : Op, e : Entry, lost : BOOLEAN]
Idle == [op |-> "idle"]
Panicked == [op |-> "panicked"]

\* The collector waits for its timer, is about to list shard `shard`, or is
\* sweeping the infohashes `todo` it listed there; "exited" after Stop.
Collector == [pc : {"wait", "scan", "sweep", "exited"}, cutoff : Int,
              shard : 0 .. (2 * ShardCount), todo : SUBSET InfoHash]

\* The collector outside of collectGarbage.
NoCollection(pc) == [pc |-> pc, cutoff |-> 0, shard |-> 0, todo |-> {}]

(***************************************************************************)
(* The type invariant.  The counters are unsigned in the code: they must    *)
(* never be taken below zero, where they would wrap.                        *)
(***************************************************************************)
TypeOK ==
    /\ seeders \in [Entry -> Int \cup {Absent}]
    /\ leechers \in [Entry -> Int \cup {Absent}]
    /\ swarms \in [Shard -> SUBSET InfoHash]
    /\ numSeeders \in [Shard -> Nat]
    /\ numLeechers \in [Shard -> Nat]
    /\ now \in Nat
    /\ clock \in Nat
    /\ closed \in BOOLEAN
    /\ freed \in BOOLEAN
    /\ call \in [Caller -> InFlight \cup {Idle, Panicked}]
    /\ gc \in Collector
    /\ prom \in BOOLEAN

NoMembers == [e \in Entry |-> Absent]

Init ==
    /\ seeders = NoMembers
    /\ leechers = NoMembers
    /\ swarms = [s \in Shard |-> {}]
    /\ numSeeders = [s \in Shard |-> 0]
    /\ numLeechers = [s \in Shard |-> 0]
    /\ now = 0
    /\ clock = 0
    /\ closed = FALSE
    /\ freed = FALSE
    /\ call = [c \in Caller |-> Idle]
    /\ gc = NoCollection("wait")
    /\ prom = TRUE

-----------------------------------------------------------------------------
(***************************************************************************)
(* Time.  The time cache is refreshed by a ticker; between two refreshes    *)
(* real time advances by at most Lag.                                       *)
(***************************************************************************)
Tick ==
    /\ now < MaxTime
    /\ now - clock < Lag
    /\ now' = now + 1
    /\ UNCHANGED <<data, clock, closed, freed, call, gc, prom>>

RefreshClock ==
    /\ clock # now
    /\ clock' = now
    /\ UNCHANGED <<data, now, closed, freed, call, gc, prom>>

-----------------------------------------------------------------------------
(***************************************************************************)
(* The writing methods, as what they do while they hold the shard's lock.   *)
(***************************************************************************)
AddSwarm(e) ==
    swarms' = [swarms EXCEPT ![ShardOf(e)] = @ \cup {e[1]}]

\* Mutant of DropSwarmIfEmpty: only the seeders are looked at.
DropSwarmIfNoSeeders(ih, s) ==
    swarms' = IF \A e \in Swarm(ih, s) : seeders'[e] = Absent
              THEN [swarms EXCEPT ![s] = @ \ {ih}]
              ELSE swarms

\* delete(shard.swarms, ih) when both maps of the swarm are empty.
DropSwarmIfEmpty(ih, s) ==
    swarms' = IF IsEmpty(seeders', leechers', ih, s)
              THEN [swarms EXCEPT ![s] = @ \ {ih}]
              ELSE swarms

CountNew(m, n, e) ==
    IF m[e] = Absent THEN [n EXCEPT ![ShardOf(e)] = @ + 1] ELSE n

PutSeeder(e) ==
    /\ numSeeders' = CountNew(seeders, numSeeders, e)
    /\ seeders' = [seeders EXCEPT ![e] = clock]
    /\ AddSwarm(e)
    /\ UNCHANGED <<leechers, numLeechers>>

PutLeecher(e) ==
    /\ numLeechers' = CountNew(leechers, numLeechers, e)
    /\ leechers' = [leechers EXCEPT ![e] = clock]
    /\ AddSwarm(e)
    /\ UNCHANGED <<seeders, numSeeders>>

Exists(m, e) == e[1] \in swarms[ShardOf(e)] /\ m[e] # Absent

\* Mutant of DeleteSeeder: the peer is not looked up before it is deleted.
DeleteSeederUnchecked(e) ==
    /\ numSeeders' = [numSeeders EXCEPT ![ShardOf(e)] = @ - 1]
    /\ seeders' = [seeders EXCEPT ![e] = Absent]
    /\ UNCHANGED <<leechers, numLeechers>>
    /\ DropSwarmIfEmpty(e[1], ShardOf(e))

\* Otherwise the method returns ErrResourceDoesNotExist.
DeleteSeeder(e) ==
    IF Exists(seeders, e)
    THEN /\ numSeeders' = [numSeeders EXCEPT ![ShardOf(e)] = @ - 1]
         /\ seeders' = [seeders EXCEPT ![e] = Absent]
         /\ UNCHANGED <<leechers, numLeechers>>
         /\ DropSwarmIfEmpty(e[1], ShardOf(e))
    ELSE UNCHANGED data

DeleteLeecher(e) ==
    IF Exists(leechers, e)
    THEN /\ numLeechers' = [numLeechers EXCEPT ![ShardOf(e)] = @ - 1]
         /\ leechers' = [leechers EXCEPT ![e] = Absent]
         /\ UNCHANGED <<seeders, numSeeders>>
         /\ DropSwarmIfEmpty(e[1], ShardOf(e))
    ELSE UNCHANGED data

\* Mutant of GraduateLeecher: the peer is not taken off the leecher count.
GraduateLeecherUncounted(e) ==
    /\ leechers' = [leechers EXCEPT ![e] = Absent]
    /\ numSeeders' = CountNew(seeders, numSeeders, e)
    /\ seeders' = [seeders EXCEPT ![e] = clock]
    /\ AddSwarm(e)
    /\ UNCHANGED numLeechers

GraduateLeecher(e) ==
    /\ numLeechers' = IF leechers[e] # Absent
                      THEN [numLeechers EXCEPT ![ShardOf(e)] = @ - 1]
                      ELSE numLeechers
    /\ leechers' = [leechers EXCEPT ![e] = Absent]
    /\ numSeeders' = CountNew(seeders, numSeeders, e)
    /\ seeders' = [seeders EXCEPT ![e] = clock]
    /\ AddSwarm(e)

Execute(op, e) ==
    CASE op = "PutSeeder" -> PutSeeder(e)
      [] op = "DeleteSeeder" -> DeleteSeeder(e)
      [] op = "PutLeecher" -> PutLeecher(e)
      [] op = "DeleteLeecher" -> DeleteLeecher(e)
      [] op = "GraduateLeecher" -> GraduateLeecher(e)

\* The check every method begins with: on a closed store it panics.
CheckClosed(c, op, e) ==
    /\ call[c] = Idle
    /\ call' = [call EXCEPT ![c] = IF closed THEN Panicked
                                   ELSE [op |-> op, e |-> e, lost |-> FALSE]]
    /\ UNCHANGED <<data, now, clock, closed, freed, gc, prom>>

Perform(c) ==
    /\ call[c] \in InFlight
    /\ IF call[c].lost THEN UNCHANGED data
                       ELSE Execute(call[c].op, call[c].e)
    /\ call' = [call EXCEPT ![c] = Idle]
    /\ UNCHANGED <<now, clock, closed, freed, gc, prom>>

-----------------------------------------------------------------------------
(***************************************************************************)
(* The garbage collection goroutine and collectGarbage.                     *)
(***************************************************************************)
\* Mutant of GCStart: the cutoff is one unit of time too late.
GCStartEager ==
    /\ gc.pc = "wait"
    /\ ~closed
    /\ gc' = [pc |-> "scan", cutoff |-> now - PeerLifetime + 1, shard |-> 0,
              todo |-> {}]
    /\ UNCHANGED <<data, now, clock, closed, freed, call, prom>>

\* The timer fires and collectGarbage finds the store open.
GCStart ==
    /\ gc.pc = "wait"
    /\ ~closed
    /\ gc' = [pc |-> "scan", cutoff |-> now - PeerLifetime, shard |-> 0,
              todo |-> {}]
    /\ UNCHANGED <<data, now, clock, closed, freed, call, prom>>

\* List the infohashes of the shard under its read lock.
GCScan ==
    /\ gc.pc = "scan"
    /\ gc.shard \in Shard
    /\ gc' = [gc EXCEPT !.pc = "sweep", !.todo = swarms[gc.shard]]
    /\ UNCHANGED <<data, now, clock, closed, freed, call, prom>>

Stale(m, ih) ==
    {e \in Swarm(ih, gc.shard) : m[e] # Absent /\ m[e] <= gc.cutoff}

Without(m, E) == [e \in Entry |-> IF e \in E THEN Absent ELSE m[e]]

\* Sweep one of them under the write lock, if its swarm still exists.
GCSweep(ih) ==
    LET s == gc.shard IN
    /\ gc.pc = "sweep"
    /\ ih \in gc.todo
    /\ IF ih \in swarms[s]
       THEN /\ leechers' = Without(leechers, Stale(leechers, ih))
            /\ numLeechers' = [numLeechers EXCEPT
                                 ![s] = @ - Cardinality(Stale(leechers, ih))]
            /\ seeders' = Without(seeders, Stale(seeders, ih))
            /\ numSeeders' = [numSeeders EXCEPT
                                 ![s] = @ - Cardinality(Stale(seeders, ih))]
            /\ DropSwarmIfEmpty(ih, s)
       ELSE UNCHANGED data
    /\ gc' = [gc EXCEPT !.todo = @ \ {ih}]
    /\ UNCHANGED <<now, clock, closed, freed, call, prom>>

\* Mutant of GCNextShard: every other shard is skipped.
GCSkipShard ==
    /\ gc.pc = "sweep"
    /\ gc.todo = {}
    /\ gc' = [gc EXCEPT !.pc = "scan", !.shard = @ + 2]
    /\ UNCHANGED <<data, now, clock, closed, freed, call, prom>>

GCNextShard ==
    /\ gc.pc = "sweep"
    /\ gc.todo = {}
    /\ gc' = [gc EXCEPT !.pc = "scan", !.shard = @ + 1]
    /\ UNCHANGED <<data, now, clock, closed, freed, call, prom>>

\* Mutant of GCDone: the next collection begins without a look at closed.
GCRestart ==
    /\ gc.pc = "scan"
    /\ gc.shard \notin Shard
    /\ gc' = [gc EXCEPT !.shard = 0]
    /\ UNCHANGED <<data, now, clock, closed, freed, call, prom>>

GCDone ==
    /\ gc.pc = "scan"
    /\ gc.shard \notin Shard
    /\ gc' = NoCollection("wait")
    /\ UNCHANGED <<data, now, clock, closed, freed, call, prom>>

GCExit ==
    /\ gc.pc = "wait"
    /\ closed
    /\ gc' = NoCollection("exited")
    /\ UNCHANGED <<data, now, clock, closed, freed, call, prom>>

PromExit ==
    /\ prom
    /\ closed
    /\ prom' = FALSE
    /\ UNCHANGED <<data, now, clock, closed, freed, call, gc>>

-----------------------------------------------------------------------------
(***************************************************************************)
(* Stop closes the channel, waits for both goroutines and then replaces     *)
(* the shards by empty ones.  A call in flight may have found its shard     *)
(* already or may find a new one.                                           *)
(***************************************************************************)
StopClose ==
    /\ ~closed
    /\ closed' = TRUE
    /\ UNCHANGED <<data, now, clock, freed, call, gc, prom>>

StopFree ==
    /\ closed
    /\ ~freed
    /\ gc.pc = "exited"
    /\ ~prom
    /\ freed' = TRUE
    /\ seeders' = NoMembers
    /\ leechers' = NoMembers
    /\ swarms' = [s \in Shard |-> {}]
    /\ numSeeders' = [s \in Shard |-> 0]
    /\ numLeechers' = [s \in Shard |-> 0]
    /\ \E lost \in SUBSET {c \in Caller : call[c] \in InFlight} :
          call' = [c \in Caller |-> IF c \in lost
                                    THEN [call[c] EXCEPT !.lost = TRUE]
                                    ELSE call[c]]
    /\ UNCHANGED <<now, clock, closed, gc, prom>>

GCStep ==
    \/ GCStart
    \/ GCScan
    \/ \E ih \in InfoHash : GCSweep(ih)
    \/ GCNextShard
    \/ GCDone
    \/ GCExit

Next ==
    \/ Tick
    \/ RefreshClock
    \/ \E c \in Caller : \/ \E op \in Op, e \in Entry : CheckClosed(c, op, e)
                         \/ Perform(c)
    \/ GCStep
    \/ PromExit
    \/ StopClose
    \/ StopFree

Spec == Init /\ [][Next]_vars

(***************************************************************************)
(* Fairness: time passes and the time cache's ticker fires; the collector   *)
(* is a goroutine whose timer fires again and again and whose locks are     *)
(* granted; a call in flight finishes; the goroutines see the closed        *)
(* channel.  Nothing makes anybody call a method or stop the store.         *)
(***************************************************************************)
Fairness ==
    /\ WF_vars(Tick)
    /\ WF_vars(RefreshClock)
    /\ WF_vars(GCStep)
    /\ WF_vars(PromExit)
    /\ WF_vars(StopFree)
    /\ \A c \in Caller : WF_vars(Perform(c))

FairSpec == Spec /\ Fairness

-----------------------------------------------------------------------------
(***************************************************************************)
(* Properties.                                                              *)
(***************************************************************************)
\* The counters of a shard, which populateProm reports and which the methods
\* and the collector adjust one by one, are the numbers of seeders and
\* leechers in its maps.
Counts(n, m) == \A s \in Shard : n[s] = Cardinality(Members(m, s))
CountersMatch == Counts(numSeeders, seeders) /\ Counts(numLeechers, leechers)

\* A shard has a swarm for an infohash exactly when some peer is in it: no
\* method and no sweep leaves an empty swarm behind (it would never be freed
\* and would be announced as existing), none drops a swarm that has peers.
NonEmpty(sd, lc, s) == {ih \in InfoHash : ~IsEmpty(sd, lc, ih, s)}
SwarmsMatch == \A s \in Shard : swarms[s] = NonEmpty(seeders, leechers, s)

\* The refinement mapping: the abstract maps are the two maps of all shards, and
\* swarms, counters, cached clock, calls in flight and collector are hidden.
PS ==
    INSTANCE PeerStore WITH seeders <- seeders, leechers <- leechers,
                            now <- now, closed <- closed

\* The store keeps the promises of storage.PeerStore: in particular no sweep,
\* however long ago its cutoff was taken and whatever was put meanwhile,
\* removes a peer put less than PeerLifetime ago, and nothing but Stop
\* empties the store.
ImplementsPeerStore == PS!Spec

\* A collection is thorough: when it has been through all shards, no peer is
\* left that was stale when it began, although it lists the infohashes of a
\* shard before it sweeps them and the swarms come and go meanwhile.  (A peer
\* left has a time after the cutoff, or was put during the collection.)
Kept(t) ==
    t = Absent \/ t > gc.cutoff \/ t >= gc.cutoff + PeerLifetime - Lag
CollectsAllStale ==
    gc.pc = "scan" /\ gc.shard \notin Shard =>
        \A e \in Entry : Kept(seeders[e]) /\ Kept(leechers[e])

\* A peer that stops announcing is collected: an entry put early enough for
\* its lifetime to end within the bound on time is eventually put again,
\* deleted or collected, unless the store is stopped.
StaleCollected ==
    \A e \in Entry : \A t \in 0 .. (MaxTime - PeerLifetime) :
        /\ seeders[e] = t ~> (seeders[e] # t \/ closed)
        /\ leechers[e] = t ~> (leechers[e] # t \/ closed)

\* Stop returns: once the channel is closed the goroutines exit, even from
\* the middle of a collection, and the shards are freed.
StopCompletes == closed ~> freed

=============================================================================
