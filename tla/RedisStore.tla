----------------------------- MODULE RedisStore -----------------------------
(***************************************************************************)
(* The peer store kept in Redis, storage/redis/peer_store.go, for one       *)
(* address family (the keys of the two families are disjoint).              *)
(*                                                                         *)
(* Every swarm has a hash of seeders and a hash of leechers, which exist    *)
(* while they have fields.  The family's own hash lists the keys of those   *)
(* hashes, and three counters are kept beside them.  Several Chihaya        *)
(* instances may share the data.                                            *)
(*                                                                         *)
(* Redis runs one command, or one MULTI ... EXEC block, at a time: each is  *)
(* a step, and what one method or collection does is several steps with     *)
(* others in between.  A connection may fail between any two.               *)
(***************************************************************************)
EXTENDS Integers, FiniteSets

CONSTANTS
    InfoHash,       \* infohashes
    Peer,           \* peers of the family
    Caller,         \* goroutines that call the writing methods
    Reader,         \* goroutines that call AnnouncePeers or ScrapeSwarm
    Instance,       \* instances of Chihaya; each has a collector
    PeerLifetime,   \* Config.PeerLifetime
    Lag,            \* the time put is at most this old when it is stored
    MaxTime,        \* bound on real time
    MaxFailures,    \* bound on the number of failed connections
    Absent          \* "no such field"

ASSUME RedisAssumption ==
    /\ IsFiniteSet(InfoHash)
    /\ IsFiniteSet(Peer)
    /\ IsFiniteSet(Caller)
    /\ IsFiniteSet(Instance)
    /\ PeerLifetime \in Nat
    /\ Lag \in Nat
    /\ MaxTime \in Nat
    /\ MaxFailures \in Nat
    /\ Absent \notin Int

VARIABLES
    hash,           \* [Entry -> mtime or Absent]: the fields of all hashes
    group,          \* the fields of the family's hash: keys of hashes
    count,          \* [Counter -> Int]
    now,            \* real time
    owed,           \* [Caller -> counter updates it has still to send]
    gc,             \* [Instance -> the state of its collector]
    dirty,          \* [Instance -> the watched key has changed]
    read,           \* [Reader -> the state of its read]
    failures        \* connections that have failed so far

vars == <<hash, group, count, now, owed, gc, dirty, read, failures>>

\* The key of the hash of seeders ("S") or leechers ("L") of an infohash.
Key == {"S", "L"} \X InfoHash
SeederKey(ih) == <<"S", ih>>
LeecherKey(ih) == <<"L", ih>>

Entry == Key \X Peer

\* Seeders, leechers, and infohashes that have a hash of seeders.
Counter == {"S", "L", "H"}

NoDebt == [x \in Counter |-> 0]

\* The peers in the hash with key k.
Fields(h, k) == {p \in Peer : h[<<k, p>>] # Absent}

Swarm(h, ih) == Fields(h, SeederKey(ih)) \cup Fields(h, LeecherKey(ih))

\* A collector is between collections; about to list the keys; between two
\* keys; at a key, deleting the stale peers it has read there; or checking
\* whether the hash is gone.
Collector ==
    [pc : {"idle", "keys", "next", "delete", "hlen", "exec"}, cutoff : Int,
     todo : SUBSET Key, key : Key \cup {Absent}, stale : SUBSET Peer,
     removed : Nat]

NoCollection ==
    [pc |-> "idle", cutoff |-> 0, todo |-> {}, key |-> Absent, stale |-> {},
     removed |-> 0]

\* A read has seen the first hash, or both; `sure` are the peers that have
\* been in the swarm all the time since it began and did not stop seeding.
Read == [pc : {"idle", "second", "done"}, ih : InfoHash \cup {Absent},
         got : SUBSET Peer, sure : SUBSET Peer]

NoRead == [pc |-> "idle", ih |-> Absent, got |-> {}, sure |-> {}]

(***************************************************************************)
(* The type invariant; a connection watches nothing between two keys.       *)
(***************************************************************************)
TypeOK ==
    /\ hash \in [Entry -> Int \cup {Absent}]
    /\ group \in SUBSET Key
    /\ count \in [Counter -> Int]
    /\ now \in Nat
    /\ owed \in [Caller -> [Counter -> {-1, 0, 1}]]
    /\ gc \in [Instance -> Collector]
    /\ dirty \in [Instance -> BOOLEAN]
    /\ read \in [Reader -> Read]
    /\ failures \in Nat
    /\ \A g \in Instance : dirty[g] => gc[g].pc \in {"hlen", "exec"}

Init ==
    /\ hash = [e \in Entry |-> Absent]
    /\ group = {}
    /\ count = [x \in Counter |-> 0]
    /\ now = 0
    /\ owed = [c \in Caller |-> NoDebt]
    /\ gc = [g \in Instance |-> NoCollection]
    /\ dirty = [g \in Instance |-> FALSE]
    /\ read = [r \in Reader |-> NoRead]
    /\ failures = 0

Tick ==
    /\ now < MaxTime
    /\ now' = now + 1
    /\ UNCHANGED <<hash, group, count, owed, gc, dirty, read, failures>>

-----------------------------------------------------------------------------
(***************************************************************************)
(* Commands.                                                                *)
(***************************************************************************)
Watching(g, k) == gc[g].pc \in {"hlen", "exec"} /\ gc[g].key = k

\* The peers that are still in the swarm when the hashes become h, and have
\* not gone back from seeder to leecher.
Stays(h, ih) ==
    Fields(h, SeederKey(ih))
      \cup (Fields(h, LeecherKey(ih)) \ Fields(hash, SeederKey(ih)))

\* The hashes become h, by commands that changed the hashes with keys K.
Store(h, K) ==
    /\ hash' = h
    /\ dirty' = [g \in Instance |-> dirty[g] \/ \E k \in K : Watching(g, k)]
    /\ read' = [r \in Reader |->
                  IF read[r].pc = "second"
                  THEN [read[r] EXCEPT !.sure = @ \cap Stays(h, read[r].ih)]
                  ELSE read[r]]

If(b, n) == IF b THEN n ELSE 0

\* Caller c has EXECuted its block and will send the counter updates.
Owe(c, l, s, h) ==
    owed' = [owed EXCEPT ![c] = [x \in Counter |-> CASE x = "L" -> l
                                                     [] x = "S" -> s
                                                     [] x = "H" -> h]]

\* ps.getClock() was read a little before the block is executed.
PutTime == {t \in (now - Lag) .. now : t >= 0}

-----------------------------------------------------------------------------
(***************************************************************************)
(* The writing methods: one EXEC or HDEL, then the counter updates that its *)
(* reply calls for.                                                         *)
(***************************************************************************)
Free(c) == owed[c] = NoDebt

PutSeeder(c, ih, p) ==
    LET k == SeederKey(ih) IN
    /\ Free(c)
    /\ \E t \in PutTime : Store([hash EXCEPT ![<<k, p>>] = t], {k})
    /\ group' = group \cup {k}
    /\ Owe(c, 0, If(hash[<<k, p>>] = Absent, 1), If(k \notin group, 1))
    /\ UNCHANGED <<count, now, gc, failures>>

PutLeecher(c, ih, p) ==
    LET k == LeecherKey(ih) IN
    /\ Free(c)
    /\ \E t \in PutTime : Store([hash EXCEPT ![<<k, p>>] = t], {k})
    /\ group' = group \cup {k}
    /\ Owe(c, If(hash[<<k, p>>] = Absent, 1), 0, 0)
    /\ UNCHANGED <<count, now, gc, failures>>

\* HDEL; when it deletes nothing the method returns ErrResourceDoesNotExist.
DeleteSeeder(c, ih, p) ==
    LET k == SeederKey(ih) IN
    /\ Free(c)
    /\ hash[<<k, p>>] # Absent
    /\ Store([hash EXCEPT ![<<k, p>>] = Absent], {k})
    /\ Owe(c, 0, -1, 0)
    /\ UNCHANGED <<group, count, now, gc, failures>>

DeleteLeecher(c, ih, p) ==
    LET k == LeecherKey(ih) IN
    /\ Free(c)
    /\ hash[<<k, p>>] # Absent
    /\ Store([hash EXCEPT ![<<k, p>>] = Absent], {k})
    /\ Owe(c, -1, 0, 0)
    /\ UNCHANGED <<group, count, now, gc, failures>>

GraduateLeecher(c, ih, p) ==
    LET l == <<LeecherKey(ih), p>>
        s == <<SeederKey(ih), p>>
    IN
    /\ Free(c)
    /\ \E t \in PutTime :
          Store([hash EXCEPT ![l] = Absent, ![s] = t],
                {s[1]} \cup {k \in {l[1]} : hash[l] # Absent})
    /\ group' = group \cup {s[1]}
    /\ Owe(c, If(hash[l] # Absent, -1), If(hash[s] = Absent, 1),
           If(s[1] \notin group, 1))
    /\ UNCHANGED <<count, now, gc, failures>>

\* INCR or DECR, in the order of the code: leechers, seeders, infohashes.
Rank == [x \in Counter |-> CASE x = "L" -> 1 [] x = "S" -> 2 [] x = "H" -> 3]

Adjust(c) ==
    \E x \in Counter :
        /\ owed[c][x] # 0
        /\ \A y \in Counter : owed[c][y] # 0 => Rank[x] <= Rank[y]
        /\ count' = [count EXCEPT ![x] = @ + owed[c][x]]
        /\ owed' = [owed EXCEPT ![c][x] = 0]
        /\ UNCHANGED <<hash, group, now, gc, dirty, read, failures>>

\* The connection fails after the block: the updates are never sent.
Fail(c) ==
    /\ failures < MaxFailures
    /\ ~Free(c)
    /\ owed' = [owed EXCEPT ![c] = NoDebt]
    /\ failures' = failures + 1
    /\ UNCHANGED <<hash, group, count, now, gc, dirty, read>>

-----------------------------------------------------------------------------
(***************************************************************************)
(* AnnouncePeers and ScrapeSwarm read the leechers, then the seeders.       *)
(***************************************************************************)
\* Mutant of ReadOrder: the seeders first.
ReadOrderReversed(ih) == <<SeederKey(ih), LeecherKey(ih)>>

ReadOrder(ih) == <<LeecherKey(ih), SeederKey(ih)>>

ReadFirst(r, ih) ==
    /\ read[r].pc = "idle"
    /\ read' = [read EXCEPT ![r] = [pc |-> "second", ih |-> ih,
                                    got |-> Fields(hash, ReadOrder(ih)[1]),
                                    sure |-> Swarm(hash, ih)]]
    /\ UNCHANGED <<hash, group, count, now, owed, gc, dirty, failures>>

ReadSecond(r) ==
    /\ read[r].pc = "second"
    /\ read' = [read EXCEPT ![r] = [read[r] EXCEPT
                   !.pc = "done",
                   !.got = @ \cup Fields(hash, ReadOrder(read[r].ih)[2])]]
    /\ UNCHANGED <<hash, group, count, now, owed, gc, dirty, failures>>

ReadReturn(r) ==
    /\ read[r].pc = "done"
    /\ read' = [read EXCEPT ![r] = NoRead]
    /\ UNCHANGED <<hash, group, count, now, owed, gc, dirty, failures>>

-----------------------------------------------------------------------------
(***************************************************************************)
(* collectGarbage of one instance.                                          *)
(***************************************************************************)
GCStart(g) ==
    /\ gc[g].pc = "idle"
    /\ gc' = [gc EXCEPT ![g] = [NoCollection EXCEPT
                 !.pc = "keys", !.cutoff = now - PeerLifetime]]
    /\ UNCHANGED <<hash, group, count, now, owed, dirty, read, failures>>

\* Mutant of GCKeys: the hashes of leechers are left out.
GCKeysSeeders(g) ==
    /\ gc[g].pc = "keys"
    /\ gc' = [gc EXCEPT ![g] = [gc[g] EXCEPT
                 !.pc = "next", !.todo = {k \in group : k[1] = "S"}]]
    /\ UNCHANGED <<hash, group, count, now, owed, dirty, read, failures>>

\* HKEYS of the family's hash.
GCKeys(g) ==
    /\ gc[g].pc = "keys"
    /\ gc' = [gc EXCEPT ![g] = [gc[g] EXCEPT !.pc = "next", !.todo = group]]
    /\ UNCHANGED <<hash, group, count, now, owed, dirty, read, failures>>

\* Mutant of Stale: a peer is stale one time unit early.
StaleEarly(g, k) == {p \in Fields(hash, k) : hash[<<k, p>>] <= gc[g].cutoff + 1}

Stale(g, k) == {p \in Fields(hash, k) : hash[<<k, p>>] <= gc[g].cutoff}

\* Done with a key.
NextKey(g) == [gc[g] EXCEPT !.pc = "next", !.key = Absent]

\* Mutant of GCRead: a hash that has no fields is skipped.
GCReadSkipsEmpty(g, k) ==
    /\ gc[g].pc = "next"
    /\ k \in gc[g].todo
    /\ gc' = [gc EXCEPT ![g] =
                IF Fields(hash, k) = {}
                THEN [gc[g] EXCEPT !.todo = @ \ {k}]
                ELSE [gc[g] EXCEPT !.pc = "delete", !.todo = @ \ {k}, !.key = k,
                                   !.stale = Stale(g, k)]]
    /\ UNCHANGED <<hash, group, count, now, owed, dirty, read, failures>>

\* HGETALL of one of them: which of its peers are stale is decided here.
GCRead(g, k) ==
    /\ gc[g].pc = "next"
    /\ k \in gc[g].todo
    /\ gc' = [gc EXCEPT ![g] =
                [gc[g] EXCEPT !.pc = "delete", !.todo = @ \ {k}, !.key = k,
                              !.stale = Stale(g, k)]]
    /\ UNCHANGED <<hash, group, count, now, owed, dirty, read, failures>>

\* Mutant of GCDelete: the peer is counted whatever HDEL replies.
GCDeleteBlind(g, p) ==
    /\ gc[g].pc = "delete"
    /\ p \in gc[g].stale
    /\ gc' = [gc EXCEPT ![g] = [gc[g] EXCEPT !.stale = @ \ {p},
                                               !.removed = @ + 1]]
    /\ Store([hash EXCEPT ![<<gc[g].key, p>>] = Absent], {gc[g].key})
    /\ UNCHANGED <<group, count, now, owed, failures>>

\* HDEL of one of the stale peers, counted if it was still there.
GCDelete(g, p) ==
    /\ gc[g].pc = "delete"
    /\ p \in gc[g].stale
    /\ LET e == <<gc[g].key, p>> IN
       IF hash[e] = Absent
       THEN /\ gc' = [gc EXCEPT ![g] = [gc[g] EXCEPT !.stale = @ \ {p}]]
            /\ UNCHANGED <<hash, dirty, read>>
       ELSE /\ gc' = [gc EXCEPT ![g] = [gc[g] EXCEPT !.stale = @ \ {p},
                                               !.removed = @ + 1]]
            /\ Store([hash EXCEPT ![e] = Absent], {gc[g].key})
    /\ UNCHANGED <<group, count, now, owed, failures>>

\* DECRBY of the seeder or the leecher counter.
GCDecrBy(g) ==
    /\ gc[g].pc = "delete"
    /\ gc[g].stale = {}
    /\ gc[g].removed > 0
    /\ count' = [count EXCEPT ![gc[g].key[1]] = @ - gc[g].removed]
    /\ gc' = [gc EXCEPT ![g] = [gc[g] EXCEPT !.removed = 0]]
    /\ UNCHANGED <<hash, group, now, owed, dirty, read, failures>>

GCWatch(g) ==
    /\ gc[g].pc = "delete"
    /\ gc[g].stale = {}
    /\ gc[g].removed = 0
    /\ gc' = [gc EXCEPT ![g] = [gc[g] EXCEPT !.pc = "hlen"]]
    /\ dirty' = [dirty EXCEPT ![g] = FALSE]
    /\ UNCHANGED <<hash, group, count, now, owed, read, failures>>

\* HLEN of the watched hash, then UNWATCH when it is not empty.
GCLen(g) ==
    /\ gc[g].pc = "hlen"
    /\ IF Fields(hash, gc[g].key) = {}
       THEN gc' = [gc EXCEPT ![g] = [gc[g] EXCEPT !.pc = "exec"]] /\ UNCHANGED dirty
       ELSE gc' = [gc EXCEPT ![g] = NextKey(g)]
            /\ dirty' = [dirty EXCEPT ![g] = FALSE]
    /\ UNCHANGED <<hash, group, count, now, owed, read, failures>>

\* Mutant of GCExec: a block of its own, without the WATCH.
GCExecUnwatched(g) ==
    /\ gc[g].pc = "exec"
    /\ group' = group \ {gc[g].key}
    /\ count' = IF gc[g].key[1] = "S" THEN [count EXCEPT !["H"] = @ - 1]
                                      ELSE count
    /\ gc' = [gc EXCEPT ![g] = NextKey(g)]
    /\ dirty' = [dirty EXCEPT ![g] = FALSE]
    /\ UNCHANGED <<hash, now, owed, read, failures>>

\* EXEC of HDEL and DECR, which Redis refuses when the watched hash changed.
GCExec(g) ==
    /\ gc[g].pc = "exec"
    /\ IF dirty[g]
       THEN UNCHANGED <<group, count>>
       ELSE /\ group' = group \ {gc[g].key}
            /\ count' = IF gc[g].key[1] = "S" THEN [count EXCEPT !["H"] = @ - 1]
                                              ELSE count
    /\ gc' = [gc EXCEPT ![g] = NextKey(g)]
    /\ dirty' = [dirty EXCEPT ![g] = FALSE]
    /\ UNCHANGED <<hash, now, owed, read, failures>>

GCDone(g) ==
    /\ gc[g].pc = "next"
    /\ gc[g].todo = {}
    /\ gc' = [gc EXCEPT ![g] = NoCollection]
    /\ UNCHANGED <<hash, group, count, now, owed, dirty, read, failures>>

\* A command fails: collectGarbage returns the error and leaves the rest for
\* the next time.
GCFail(g) ==
    /\ failures < MaxFailures
    /\ gc[g].pc # "idle"
    /\ gc' = [gc EXCEPT ![g] = NoCollection]
    /\ dirty' = [dirty EXCEPT ![g] = FALSE]
    /\ failures' = failures + 1
    /\ UNCHANGED <<hash, group, count, now, owed, read>>

-----------------------------------------------------------------------------
Call(c) ==
    \E ih \in InfoHash, p \in Peer : \/ PutSeeder(c, ih, p)
                                     \/ DeleteSeeder(c, ih, p)
                                     \/ PutLeecher(c, ih, p)
                                     \/ DeleteLeecher(c, ih, p)
                                     \/ GraduateLeecher(c, ih, p)

ReadStep(r) ==
    \/ \E ih \in InfoHash : ReadFirst(r, ih)
    \/ ReadSecond(r)
    \/ ReadReturn(r)

GCStep(g) ==
    \/ GCStart(g)
    \/ GCKeys(g)
    \/ \E k \in Key : GCRead(g, k)
    \/ \E p \in Peer : GCDelete(g, p)
    \/ GCDecrBy(g)
    \/ GCWatch(g)
    \/ GCLen(g)
    \/ GCExec(g)
    \/ GCDone(g)

Next ==
    \/ Tick
    \/ \E c \in Caller : Call(c) \/ Adjust(c) \/ Fail(c)
    \/ \E r \in Reader : ReadStep(r)
    \/ \E g \in Instance : GCStep(g) \/ GCFail(g)

Spec == Init /\ [][Next]_vars

(***************************************************************************)
(* Fairness: time passes, every instance's collector runs again and again,  *)
(* and a caller whose connection holds sends its updates.                   *)
(***************************************************************************)
FairSpec ==
    /\ Spec
    /\ WF_vars(Tick)
    /\ \A g \in Instance : WF_vars(GCStep(g))
    /\ \A c \in Caller : WF_vars(Adjust(c))

-----------------------------------------------------------------------------
(***************************************************************************)
(* Properties.                                                              *)
(***************************************************************************)
\* A hash with peers is listed in the family's hash, whatever fails and
\* however many instances collect: the WATCH block never unlists a hash that
\* was filled meanwhile.  An unlisted hash would never be collected again.
SwarmsListed == \A k \in Key : Fields(hash, k) # {} => k \in group

\* Without failed connections the counters are what they count, up to the
\* updates that callers and collectors are about to send.
Counted(x) ==
    IF x = "H" THEN {k \in group : k[1] = "S"}
               ELSE {e \in Entry : e[1][1] = x /\ hash[e] # Absent}
Unsent(x, n) == {c \in Caller : owed[c][x] = n}
Removed(g, x) ==
    IF gc[g].pc = "delete" /\ gc[g].key[1] = x THEN gc[g].removed ELSE 0
\* A deletion that is still to be taken off is named by its collector and its
\* number.
Removals(x) == UNION {{g} \X (1 .. Removed(g, x)) : g \in Instance}
Settled(x) ==
    count[x] + Cardinality(Unsent(x, 1)) - Cardinality(Unsent(x, -1))
             - Cardinality(Removals(x))
      = Cardinality(Counted(x))
CountersSettle == failures = 0 => \A x \in Counter : Settled(x)

\* AnnouncePeers and ScrapeSwarm miss nobody: a peer that is in the swarm all
\* the time they take is seen even when it graduates between the two
\* commands, because they read the leechers before the seeders.  (A seeder
\* that turns leecher in between may be missed.)
NobodyMissed ==
    \A r \in Reader : read[r].pc = "done" => read[r].sure \subseteq read[r].got

\* A collection deletes no peer that was fresh when it began and has not
\* announced since: what it deletes has a time that is not after the cutoff, or
\* one of the collection's own.  (HGETALL and HDEL are two commands: a stale
\* peer that announces in between is deleted all the same.)
CollectsOnlyStale ==
    [][\A g \in Instance : \A e \in Entry :
          gc'[g] # gc[g] /\ hash[e] # Absent /\ hash'[e] = Absent
              => \/ hash[e] <= gc[g].cutoff
                 \/ hash[e] >= gc[g].cutoff + PeerLifetime - Lag]_vars

\* The refinement mapping: the hashes of seeders and those of leechers are a map
\* each, and what a collector has read to be stale and not yet deleted has been
\* found.  The list of keys, the counters, what is owed to them, watched keys
\* and readers are hidden.
Pair == InfoHash \X Peer
Stored(x) == [e \in Pair |-> hash[<<<<x, e[1]>>, e[2]>>]]
FoundStale(x) ==
    {e \in Pair : \E g \in Instance : /\ gc[g].pc = "delete"
                                      /\ gc[g].key = <<x, e[1]>>
                                      /\ e[2] \in gc[g].stale}
SS ==
    INSTANCE SharedPeerStore WITH
       Entry <- Pair, seeders <- Stored("S"), leechers <- Stored("L"),
       foundSeeders <- FoundStale("S"), foundLeechers <- FoundStale("L"), closed <- FALSE

\* The store keeps the promises of storage.PeerStore to all instances that
\* share it: each method changes its peer in one step, whatever it still owes
\* to the counters, and nothing else removes a peer than a collector that has
\* found it a lifetime old, even if connections fail in between.
ImplementsSharedStore == SS!SharedSpec

\* A collection is thorough: when it has been through all keys, no peer is left
\* that was stale when it began, whatever was put, deleted and unlisted
\* meanwhile and whatever other instances collect.  (A peer left has a time
\* after the cutoff, or one of the collection's own.)
CollectsAllStale ==
    \A g \in Instance :
        gc[g].pc = "next" /\ gc[g].todo = {} =>
            \A e \in Entry : \/ hash[e] = Absent
                              \/ hash[e] > gc[g].cutoff
                              \/ hash[e] >= gc[g].cutoff + PeerLifetime - Lag

\* A peer that stops announcing is collected, in spite of failures.
StaleCollected ==
    \A e \in Entry : \A t \in 0 .. (MaxTime - PeerLifetime) :
        hash[e] = t ~> hash[e] # t

\* The key of a hash that has become empty, by collection or by the departure
\* of its last peer, is eventually unlisted, or the hash is filled again.
EmptyUnlisted ==
    \A k \in Key : k \in group ~> (k \notin group \/ Fields(hash, k) # {})

=============================================================================
