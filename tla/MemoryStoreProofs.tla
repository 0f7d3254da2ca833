------------------------- MODULE MemoryStoreProofs -------------------------
(***************************************************************************)
(* Proofs about MemoryStore, for every number of shards, infohashes, peers  *)
(* and callers.                                                             *)
(***************************************************************************)
EXTENDS MemoryStore, FiniteSetTheorems, TLAPS

Map == [Entry -> Int \cup {Absent}]

\* shardIndex finds a shard of the array for every infohash and family.
LEMMA ShardOfType ==
    ASSUME NEW e \in Entry
    PROVE  ShardOf(e) \in Shard
<1>1. e[1] \in InfoHash /\ e[2] \in Peer
  BY DEF Entry
<1>2. ShardCount \in Nat /\ ShardCount > 0 /\ Prefix[e[1]] \in Nat
  BY <1>1, StoreAssumption
<1>3. Prefix[e[1]] % ShardCount \in 0 .. (ShardCount - 1)
  BY <1>2
<1>4. QED
  BY <1>2, <1>3 DEF ShardOf, shardIndex, Shard

\* A shard holds finitely many entries.
LEMMA MembersFinite ==
    ASSUME NEW m, NEW s
    PROVE  /\ IsFiniteSet(Members(m, s))
           /\ Cardinality(Members(m, s)) \in Nat
<1>1. IsFiniteSet(Entry)
  BY StoreAssumption, FS_Product DEF Entry
<1>2. IsFiniteSet(Members(m, s))
  BY <1>1, FS_Subset DEF Members
<1>3. QED
  BY <1>2, FS_CardinalityType

\* Putting an entry, counted when it is new, keeps the counters right.
LEMMA CountPut ==
    ASSUME NEW m \in Map, NEW n \in [Shard -> Int], NEW e \in Entry,
           NEW t \in Int, Counts(n, m)
    PROVE  /\ Counts(CountNew(m, n, e), [m EXCEPT ![e] = t])
           /\ CountNew(m, n, e) \in [Shard -> Int]
<1> DEFINE m2 == [m EXCEPT ![e] = t]
<1>1. ShardOf(e) \in Shard
  BY ShardOfType
<1>2. t # Absent
  BY StoreAssumption
<1>3. ASSUME NEW s \in Shard
      PROVE  CountNew(m, n, e)[s] = Cardinality(Members(m2, s))
  <2>1. CASE ShardOf(e) = s
    <3>1. Members(m2, s) = Members(m, s) \cup {e}
      BY <1>2, <2>1 DEF Members, Map
    <3>2. e \in Members(m, s) <=> m[e] # Absent
      BY <2>1 DEF Members
    <3>3. Cardinality(Members(m2, s)) =
              IF m[e] = Absent THEN Cardinality(Members(m, s)) + 1
                               ELSE Cardinality(Members(m, s))
      BY <3>1, <3>2, MembersFinite, FS_AddElement, Zenon
    <3>4. QED
      BY <1>1, <2>1, <3>3 DEF CountNew, Counts
  <2>2. CASE ShardOf(e) # s
    <3>1. Members(m2, s) = Members(m, s)
      BY <2>2 DEF Members, Map
    <3>2. QED
      BY <2>2, <3>1 DEF CountNew, Counts
  <2>3. QED
    BY <2>1, <2>2
<1>4. CountNew(m, n, e) \in [Shard -> Int]
  BY <1>1 DEF CountNew
<1>5. Counts(CountNew(m, n, e), m2)
  BY <1>3, Zenon DEF Counts
<1>6. QED
  BY <1>4, <1>5

\* Removing entries E of one shard, and taking their number off its counter,
\* keeps the counters right.
LEMMA CountWithout ==
    ASSUME NEW m \in Map, NEW n \in [Shard -> Int], NEW s \in Shard,
           NEW E \in SUBSET Members(m, s), Counts(n, m)
    PROVE  /\ Counts([n EXCEPT ![s] = @ - Cardinality(E)], Without(m, E))
           /\ [n EXCEPT ![s] = @ - Cardinality(E)] \in [Shard -> Int]
<1> DEFINE m2 == Without(m, E)
<1>1. IsFiniteSet(E) /\ Cardinality(E) \in Nat
  BY MembersFinite, FS_Subset, FS_CardinalityType
<1>2. Members(m2, s) = Members(m, s) \ E
  BY DEF Members, Without
<1>3. Cardinality(Members(m, s) \ E) = Cardinality(Members(m, s)) - Cardinality(E)
  <2>1. Members(m, s) \cap E = E
    OBVIOUS
  <2>2. QED
    BY <2>1, MembersFinite, FS_Difference, Zenon
<1>4. ASSUME NEW q \in Shard, q # s
      PROVE  Members(m2, q) = Members(m, q)
  BY <1>4 DEF Members, Without
<1> DEFINE n2 == [n EXCEPT ![s] = @ - Cardinality(E)]
<1>5. n2 \in [Shard -> Int]
  BY <1>1
<1>6. ASSUME NEW q \in Shard
      PROVE  n2[q] = Cardinality(Members(m2, q))
  <2>1. CASE q = s
    BY <1>1, <1>2, <1>3, <2>1, Zenon DEF Counts
  <2>2. CASE q # s
    BY <1>4, <2>2 DEF Counts
  <2>3. QED
    BY <2>1, <2>2
<1>7. Counts(n2, m2)
  BY <1>6 DEF Counts
<1>8. QED
  BY <1>5, <1>7

\* Deleting one entry is the case of a single element.
LEMMA CountDelete ==
    ASSUME NEW m \in Map, NEW n \in [Shard -> Int], NEW e \in Entry,
           m[e] # Absent, Counts(n, m)
    PROVE  /\ Counts([n EXCEPT ![ShardOf(e)] = @ - 1], [m EXCEPT ![e] = Absent])
           /\ [n EXCEPT ![ShardOf(e)] = @ - 1] \in [Shard -> Int]
<1>1. {e} \in SUBSET Members(m, ShardOf(e)) /\ ShardOf(e) \in Shard
  BY ShardOfType DEF Members
<1>2. Cardinality({e}) = 1
  BY FS_Singleton
<1>3. Without(m, {e}) = [m EXCEPT ![e] = Absent]
  BY Zenon DEF Without, Map
<1> DEFINE n2 == [n EXCEPT ![ShardOf(e)] = @ - Cardinality({e})]
<1>4. Counts(n2, Without(m, {e})) /\ n2 \in [Shard -> Int]
  BY <1>1, CountWithout, Zenon
<1>5. n2 = [n EXCEPT ![ShardOf(e)] = @ - 1]
  BY <1>2, Zenon
<1>6. QED
  BY <1>3, <1>4, <1>5

-----------------------------------------------------------------------------
\* Putting an entry makes its swarm, and no other, non-empty.
LEMMA NonEmptyPut ==
    ASSUME NEW sd \in Map, NEW lc \in Map, NEW sd2 \in Map, NEW lc2 \in Map,
           NEW e \in Entry, NEW s \in Shard,
           sd2[e] # Absent \/ lc2[e] # Absent,
           \A f \in Entry : f # e => sd2[f] = sd[f] /\ lc2[f] = lc[f]
    PROVE  NonEmpty(sd2, lc2, s) =
               IF s = ShardOf(e) THEN NonEmpty(sd, lc, s) \cup {e[1]}
                                 ELSE NonEmpty(sd, lc, s)
<1>1. e[1] \in InfoHash
  BY DEF Entry
<1>2. CASE s = ShardOf(e)
  <2>1. e \in Swarm(e[1], s)
    BY <1>2 DEF Swarm
  <2>2. ~IsEmpty(sd2, lc2, e[1], s)
    BY <2>1 DEF IsEmpty
  <2>3. ASSUME NEW ih \in InfoHash, ih # e[1]
        PROVE  IsEmpty(sd2, lc2, ih, s) <=> IsEmpty(sd, lc, ih, s)
    BY <2>3 DEF IsEmpty, Swarm
  <2>4. QED
    BY <1>1, <1>2, <2>2, <2>3 DEF NonEmpty
<1>3. CASE s # ShardOf(e)
  <2>1. ASSUME NEW ih \in InfoHash
        PROVE  IsEmpty(sd2, lc2, ih, s) <=> IsEmpty(sd, lc, ih, s)
    BY <1>3 DEF IsEmpty, Swarm
  <2>2. QED
    BY <1>3, <2>1 DEF NonEmpty
<1>4. QED
  BY <1>2, <1>3

\* Removing entries of one swarm leaves every other swarm as it is, and the
\* swarm itself non-empty only if it was.
LEMMA NonEmptyDrop ==
    ASSUME NEW sd \in Map, NEW lc \in Map, NEW sd2 \in Map, NEW lc2 \in Map,
           NEW ih \in InfoHash, NEW s \in Shard, NEW q \in Shard,
           \A f \in Entry : sd2[f] \in {sd[f], Absent} /\ lc2[f] \in {lc[f], Absent},
           \A f \in Entry \ Swarm(ih, s) : sd2[f] = sd[f] /\ lc2[f] = lc[f]
    PROVE  NonEmpty(sd2, lc2, q) =
               IF q = s /\ IsEmpty(sd2, lc2, ih, s)
               THEN NonEmpty(sd, lc, q) \ {ih}
               ELSE NonEmpty(sd, lc, q)
<1>1. ASSUME NEW k \in InfoHash, k # ih \/ q # s
      PROVE  IsEmpty(sd2, lc2, k, q) <=> IsEmpty(sd, lc, k, q)
  <2>1. Swarm(k, q) \subseteq Entry \ Swarm(ih, s)
    BY <1>1 DEF Swarm
  <2>2. QED
    BY <2>1 DEF IsEmpty
<1>2. ~IsEmpty(sd2, lc2, ih, s) => ~IsEmpty(sd, lc, ih, s)
  <2>1. Swarm(ih, s) \subseteq Entry
    BY DEF Swarm
  <2>2. QED
    BY <2>1 DEF IsEmpty
<1>3. QED
  BY <1>1, <1>2 DEF NonEmpty

-----------------------------------------------------------------------------
(***************************************************************************)
(* The five writing methods and the sweep keep the shards consistent.       *)
(***************************************************************************)
DataType ==
    /\ seeders \in Map
    /\ leechers \in Map
    /\ swarms \in [Shard -> SUBSET InfoHash]
    /\ numSeeders \in [Shard -> Int]
    /\ numLeechers \in [Shard -> Int]

DataInv == DataType /\ CountersMatch /\ SwarmsMatch

\* PutSeeder keeps the counters and the resident swarms right.
LEMMA PutSeederInv ==
    ASSUME DataInv, clock \in Nat, NEW e \in Entry, PutSeeder(e)
    PROVE  DataInv'
<1> USE DEF DataInv, DataType
<1>1. ShardOf(e) \in Shard /\ e[1] \in InfoHash
  BY ShardOfType DEF Entry
<1>2. clock # Absent /\ clock \in Int
  BY StoreAssumption
<1>3. seeders' \in Map /\ leechers' \in Map
  BY <1>2 DEF PutSeeder, Map
<1>4. swarms' \in [Shard -> SUBSET InfoHash]
  BY <1>1 DEF PutSeeder, AddSwarm
<1>5. Counts(numSeeders', seeders') /\ numSeeders' \in [Shard -> Int]
  BY <1>2, CountPut, Zenon DEF PutSeeder, CountersMatch
<1>6. Counts(numLeechers', leechers') /\ numLeechers' \in [Shard -> Int]
  BY DEF PutSeeder, CountersMatch
<1>7. ASSUME NEW s \in Shard
      PROVE  swarms'[s] = NonEmpty(seeders', leechers', s)
  <2>1. seeders'[e] # Absent
    BY <1>2 DEF PutSeeder, Map
  <2>2. \A f \in Entry : f # e => seeders'[f] = seeders[f] /\ leechers'[f] = leechers[f]
    BY DEF PutSeeder, Map
  <2>3. NonEmpty(seeders', leechers', s) =
            IF s = ShardOf(e) THEN NonEmpty(seeders, leechers, s) \cup {e[1]}
                              ELSE NonEmpty(seeders, leechers, s)
    BY <1>3, <2>1, <2>2, NonEmptyPut
  <2>4. QED
    BY <1>1, <2>3, Zenon DEF PutSeeder, AddSwarm, SwarmsMatch
<1>8. QED
  BY <1>3, <1>4, <1>5, <1>6, <1>7 DEF CountersMatch, SwarmsMatch, Counts

\* PutLeecher, likewise.
LEMMA PutLeecherInv ==
    ASSUME DataInv, clock \in Nat, NEW e \in Entry, PutLeecher(e)
    PROVE  DataInv'
<1> USE DEF DataInv, DataType
<1>1. ShardOf(e) \in Shard /\ e[1] \in InfoHash
  BY ShardOfType DEF Entry
<1>2. clock # Absent /\ clock \in Int
  BY StoreAssumption
<1>3. seeders' \in Map /\ leechers' \in Map
  BY <1>2 DEF PutLeecher, Map
<1>4. swarms' \in [Shard -> SUBSET InfoHash]
  BY <1>1 DEF PutLeecher, AddSwarm
<1>5. Counts(numLeechers', leechers') /\ numLeechers' \in [Shard -> Int]
  BY <1>2, CountPut, Zenon DEF PutLeecher, CountersMatch
<1>6. Counts(numSeeders', seeders') /\ numSeeders' \in [Shard -> Int]
  BY DEF PutLeecher, CountersMatch
<1>7. ASSUME NEW s \in Shard
      PROVE  swarms'[s] = NonEmpty(seeders', leechers', s)
  <2>1. leechers'[e] # Absent
    BY <1>2 DEF PutLeecher, Map
  <2>2. \A f \in Entry : f # e => seeders'[f] = seeders[f] /\ leechers'[f] = leechers[f]
    BY DEF PutLeecher, Map
  <2>3. NonEmpty(seeders', leechers', s) =
            IF s = ShardOf(e) THEN NonEmpty(seeders, leechers, s) \cup {e[1]}
                              ELSE NonEmpty(seeders, leechers, s)
    BY <1>3, <2>1, <2>2, NonEmptyPut
  <2>4. QED
    BY <1>1, <2>3, Zenon DEF PutLeecher, AddSwarm, SwarmsMatch
<1>8. QED
  BY <1>3, <1>4, <1>5, <1>6, <1>7 DEF CountersMatch, SwarmsMatch, Counts

\* GraduateLeecher takes the peer out of one map and puts it in the other.
LEMMA GraduateLeecherInv ==
    ASSUME DataInv, clock \in Nat, NEW e \in Entry, GraduateLeecher(e)
    PROVE  DataInv'
<1> USE DEF DataInv, DataType
<1>1. ShardOf(e) \in Shard /\ e[1] \in InfoHash
  BY ShardOfType DEF Entry
<1>2. clock # Absent /\ clock \in Int
  BY StoreAssumption
<1>3. seeders' \in Map /\ leechers' \in Map
  BY <1>2 DEF GraduateLeecher, Map
<1>4. swarms' \in [Shard -> SUBSET InfoHash]
  BY <1>1 DEF GraduateLeecher, AddSwarm
<1>5. Counts(numSeeders', seeders') /\ numSeeders' \in [Shard -> Int]
  BY <1>2, CountPut, Zenon DEF GraduateLeecher, CountersMatch
<1>6. Counts(numLeechers', leechers') /\ numLeechers' \in [Shard -> Int]
  <2>1. CASE leechers[e] # Absent
    BY <2>1, CountDelete, Zenon DEF GraduateLeecher, CountersMatch
  <2>2. CASE leechers[e] = Absent
    <3>1. leechers' = leechers
      BY <2>2 DEF GraduateLeecher, Map
    <3>2. QED
      BY <2>2, <3>1 DEF GraduateLeecher, CountersMatch
  <2>3. QED
    BY <2>1, <2>2
<1>7. ASSUME NEW s \in Shard
      PROVE  swarms'[s] = NonEmpty(seeders', leechers', s)
  <2>1. seeders'[e] # Absent
    BY <1>2 DEF GraduateLeecher, Map
  <2>2. \A f \in Entry : f # e => seeders'[f] = seeders[f] /\ leechers'[f] = leechers[f]
    BY DEF GraduateLeecher, Map
  <2>3. NonEmpty(seeders', leechers', s) =
            IF s = ShardOf(e) THEN NonEmpty(seeders, leechers, s) \cup {e[1]}
                              ELSE NonEmpty(seeders, leechers, s)
    BY <1>3, <2>1, <2>2, NonEmptyPut
  <2>4. QED
    BY <1>1, <2>3, Zenon DEF GraduateLeecher, AddSwarm, SwarmsMatch
<1>8. QED
  BY <1>3, <1>4, <1>5, <1>6, <1>7 DEF CountersMatch, SwarmsMatch, Counts

\* Removing entries of the swarm of ih in shard s and then dropping the swarm
\* if it is empty keeps the resident swarms right.
LEMMA DropInv ==
    ASSUME DataInv, seeders' \in Map, leechers' \in Map,
           NEW ih \in InfoHash, NEW s \in Shard,
           \A f \in Entry : /\ seeders'[f] \in {seeders[f], Absent}
                            /\ leechers'[f] \in {leechers[f], Absent},
           \A f \in Entry \ Swarm(ih, s) : /\ seeders'[f] = seeders[f]
                                           /\ leechers'[f] = leechers[f],
           DropSwarmIfEmpty(ih, s)
    PROVE  SwarmsMatch' /\ swarms' \in [Shard -> SUBSET InfoHash]
<1>1. ASSUME NEW q \in Shard
      PROVE  swarms'[q] = NonEmpty(seeders', leechers', q)
  <2>1. NonEmpty(seeders', leechers', q) =
            IF q = s /\ IsEmpty(seeders', leechers', ih, s)
            THEN NonEmpty(seeders, leechers, q) \ {ih}
            ELSE NonEmpty(seeders, leechers, q)
    BY NonEmptyDrop DEF DataInv, DataType
  <2>2. QED
    BY <2>1 DEF DropSwarmIfEmpty, SwarmsMatch, DataInv, DataType
<1>2. swarms' \in [Shard -> SUBSET InfoHash]
  BY DEF DropSwarmIfEmpty, DataInv, DataType
<1>3. QED
  BY <1>1, <1>2 DEF SwarmsMatch

\* DeleteSeeder keeps the counters and the resident swarms right.
LEMMA DeleteSeederInv ==
    ASSUME DataInv, NEW e \in Entry, DeleteSeeder(e)
    PROVE  DataInv'
<1> USE DEF DataInv, DataType
<1>1. ShardOf(e) \in Shard /\ e[1] \in InfoHash
  BY ShardOfType DEF Entry
<1>2. CASE Exists(seeders, e)
  <2>1. /\ numSeeders' = [numSeeders EXCEPT ![ShardOf(e)] = @ - 1]
        /\ seeders' = [seeders EXCEPT ![e] = Absent]
        /\ leechers' = leechers /\ numLeechers' = numLeechers
        /\ DropSwarmIfEmpty(e[1], ShardOf(e))
    BY <1>2 DEF DeleteSeeder
  <2>2. seeders' \in Map /\ leechers' \in Map
    BY <2>1 DEF Map
  <2>3. Counts(numSeeders', seeders') /\ numSeeders' \in [Shard -> Int]
    BY <1>2, <2>1, CountDelete, Zenon DEF CountersMatch, Exists
  <2>4. Counts(numLeechers', leechers') /\ numLeechers' \in [Shard -> Int]
    BY <2>1 DEF CountersMatch
  <2>5. \A f \in Entry : /\ seeders'[f] \in {seeders[f], Absent}
                         /\ leechers'[f] \in {leechers[f], Absent}
    BY <2>1 DEF Map
  <2>6. \A f \in Entry \ Swarm(e[1], ShardOf(e)) :
            seeders'[f] = seeders[f] /\ leechers'[f] = leechers[f]
    BY <2>1 DEF Map, Swarm
  <2>7. SwarmsMatch' /\ swarms' \in [Shard -> SUBSET InfoHash]
    BY <1>1, <2>1, <2>2, <2>5, <2>6, DropInv
  <2>8. QED
    BY <2>2, <2>3, <2>4, <2>7 DEF CountersMatch, Counts
<1>3. CASE ~Exists(seeders, e)
  BY <1>3 DEF DeleteSeeder, data, CountersMatch, Counts, SwarmsMatch
<1>4. QED
  BY <1>2, <1>3

\* DeleteLeecher, likewise.
LEMMA DeleteLeecherInv ==
    ASSUME DataInv, NEW e \in Entry, DeleteLeecher(e)
    PROVE  DataInv'
<1> USE DEF DataInv, DataType
<1>1. ShardOf(e) \in Shard /\ e[1] \in InfoHash
  BY ShardOfType DEF Entry
<1>2. CASE Exists(leechers, e)
  <2>1. /\ numLeechers' = [numLeechers EXCEPT ![ShardOf(e)] = @ - 1]
        /\ leechers' = [leechers EXCEPT ![e] = Absent]
        /\ seeders' = seeders /\ numSeeders' = numSeeders
        /\ DropSwarmIfEmpty(e[1], ShardOf(e))
    BY <1>2 DEF DeleteLeecher
  <2>2. seeders' \in Map /\ leechers' \in Map
    BY <2>1 DEF Map
  <2>3. Counts(numLeechers', leechers') /\ numLeechers' \in [Shard -> Int]
    BY <1>2, <2>1, CountDelete, Zenon DEF CountersMatch, Exists
  <2>4. Counts(numSeeders', seeders') /\ numSeeders' \in [Shard -> Int]
    BY <2>1 DEF CountersMatch
  <2>5. \A f \in Entry : /\ seeders'[f] \in {seeders[f], Absent}
                         /\ leechers'[f] \in {leechers[f], Absent}
    BY <2>1 DEF Map
  <2>6. \A f \in Entry \ Swarm(e[1], ShardOf(e)) :
            seeders'[f] = seeders[f] /\ leechers'[f] = leechers[f]
    BY <2>1 DEF Map, Swarm
  <2>7. SwarmsMatch' /\ swarms' \in [Shard -> SUBSET InfoHash]
    BY <1>1, <2>1, <2>2, <2>5, <2>6, DropInv
  <2>8. QED
    BY <2>2, <2>3, <2>4, <2>7 DEF CountersMatch, Counts
<1>3. CASE ~Exists(leechers, e)
  BY <1>3 DEF DeleteLeecher, data, CountersMatch, Counts, SwarmsMatch
<1>4. QED
  BY <1>2, <1>3

\* The sweep of one swarm takes the stale entries out of both maps, and their
\* numbers off both counters.
LEMMA SweepInv ==
    ASSUME DataInv, gc.shard \in Shard, NEW ih \in InfoHash, GCSweep(ih)
    PROVE  DataInv'
<1> USE DEF DataInv, DataType
<1> DEFINE s == gc.shard
<1>1. CASE ih \in swarms[s]
  <2>1. /\ leechers' = Without(leechers, Stale(leechers, ih))
        /\ numLeechers' = [numLeechers EXCEPT
                             ![s] = @ - Cardinality(Stale(leechers, ih))]
        /\ seeders' = Without(seeders, Stale(seeders, ih))
        /\ numSeeders' = [numSeeders EXCEPT
                             ![s] = @ - Cardinality(Stale(seeders, ih))]
        /\ DropSwarmIfEmpty(ih, s)
    BY <1>1 DEF GCSweep
  <2>2. /\ Stale(leechers, ih) \in SUBSET Members(leechers, s)
        /\ Stale(seeders, ih) \in SUBSET Members(seeders, s)
    BY DEF Stale, Members, Swarm
  <2>3. seeders' \in Map /\ leechers' \in Map
    BY <2>1 DEF Map, Without
  <2>4. Counts(numSeeders', seeders') /\ numSeeders' \in [Shard -> Int]
    BY <2>1, <2>2, CountWithout, Zenon DEF CountersMatch
  <2>5. Counts(numLeechers', leechers') /\ numLeechers' \in [Shard -> Int]
    BY <2>1, <2>2, CountWithout, Zenon DEF CountersMatch
  <2>6. \A f \in Entry : /\ seeders'[f] \in {seeders[f], Absent}
                         /\ leechers'[f] \in {leechers[f], Absent}
    BY <2>1 DEF Without
  <2>7. \A f \in Entry \ Swarm(ih, s) :
            seeders'[f] = seeders[f] /\ leechers'[f] = leechers[f]
    BY <2>1 DEF Without, Stale
  <2>8. SwarmsMatch' /\ swarms' \in [Shard -> SUBSET InfoHash]
    BY <2>1, <2>3, <2>6, <2>7, DropInv
  <2>9. QED
    BY <2>3, <2>4, <2>5, <2>8 DEF CountersMatch, Counts
<1>2. CASE ih \notin swarms[s]
  BY <1>2 DEF GCSweep, data, CountersMatch, Counts, SwarmsMatch
<1>3. QED
  BY <1>1, <1>2

\* Whatever method runs, the shards stay consistent.
LEMMA ExecuteInv ==
    ASSUME DataInv, clock \in Nat, NEW e \in Entry, NEW op \in Op, Execute(op, e)
    PROVE  DataInv'
<1>1. CASE op = "PutSeeder"
  BY <1>1, PutSeederInv DEF Execute
<1>2. CASE op = "DeleteSeeder"
  BY <1>2, DeleteSeederInv DEF Execute
<1>3. CASE op = "PutLeecher"
  BY <1>3, PutLeecherInv DEF Execute
<1>4. CASE op = "DeleteLeecher"
  BY <1>4, DeleteLeecherInv DEF Execute
<1>5. CASE op = "GraduateLeecher"
  BY <1>5, GraduateLeecherInv DEF Execute
<1>6. QED
  BY <1>1, <1>2, <1>3, <1>4, <1>5 DEF Op

\* New shards are consistent.
LEMMA EmptyInv ==
    ASSUME NEW m \in Map, m = NoMembers, NEW s \in Shard
    PROVE  /\ Cardinality(Members(m, s)) = 0
           /\ NonEmpty(m, m, s) = {}
<1>1. Members(m, s) = {}
  BY DEF Members, NoMembers
<1>2. NonEmpty(m, m, s) = {}
  BY DEF NonEmpty, IsEmpty, Swarm, NoMembers
<1>3. QED
  BY <1>1, <1>2, FS_EmptySet

-----------------------------------------------------------------------------
(***************************************************************************)
(* The inductive invariant.  ClockInv is what the refinement adds: the      *)
(* cached clock is close to real time, and a sweep under way has a cutoff   *)
(* that was, and still is, a lifetime in the past.                          *)
(***************************************************************************)
ClockInv ==
    /\ clock <= now
    /\ now - clock <= Lag
    /\ gc.pc \in {"scan", "sweep"} => gc.cutoff <= now - PeerLifetime
    /\ gc.pc = "sweep" => gc.shard \in Shard

IInv == TypeOK /\ CountersMatch /\ SwarmsMatch /\ ClockInv

ControlType ==
    /\ now \in Nat
    /\ clock \in Nat
    /\ closed \in BOOLEAN
    /\ freed \in BOOLEAN
    /\ call \in [Caller -> InFlight \cup {Idle, Panicked}]
    /\ gc \in Collector
    /\ prom \in BOOLEAN

\* The type invariant, split in the shards and the rest.
LEMMA TypeSplit == TypeOK => DataType /\ ControlType
BY DEF TypeOK, DataType, ControlType, Map

\* Counters that match the maps are not negative.
LEMMA CountersNat ==
    ASSUME NEW m \in Map, NEW n \in [Shard -> Int], Counts(n, m)
    PROVE  n \in [Shard -> Nat]
BY MembersFinite DEF Counts

\* The initial state satisfies the invariant.
LEMMA InitInv == Init => IInv
<1> SUFFICES ASSUME Init PROVE IInv
  OBVIOUS
<1>1. DataType
  BY DEF Init, NoMembers, DataType, Map
<1>2. ControlType
  <2>1. gc \in Collector
    <3>1. 0 \in 0 .. (2 * ShardCount) /\ {} \in SUBSET InfoHash
      BY StoreAssumption
    <3>2. NoCollection("wait") \in Collector
      BY <3>1 DEF Collector, NoCollection
    <3>3. QED
      BY <3>2 DEF Init
  <2>2. call \in [Caller -> InFlight \cup {Idle, Panicked}]
    BY DEF Init
  <2>3. QED
    BY <2>1, <2>2, Zenon DEF Init, ControlType
<1>3. CountersMatch /\ SwarmsMatch
  BY <1>1, EmptyInv DEF Init, DataType, CountersMatch, Counts, SwarmsMatch
<1>4. ClockInv
  BY StoreAssumption DEF Init, ClockInv, NoCollection
<1>5. QED
  <2>1. numSeeders \in [Shard -> Nat] /\ numLeechers \in [Shard -> Nat]
    BY DEF Init
  <2>2. TypeOK
    BY <1>1, <1>2, <2>1 DEF TypeOK, DataType, ControlType, Map
  <2>3. QED
    BY <1>3, <1>4, <2>2 DEF IInv

\* A step that does not touch the shards keeps them consistent.
LEMMA DataUnchanged ==
    ASSUME DataInv, UNCHANGED data
    PROVE  DataInv'
BY DEF DataInv, DataType, data, CountersMatch, Counts, SwarmsMatch

\* The collector outside of a collection is of its type.
LEMMA NoCollectionType ==
    ASSUME NEW pc \in {"wait", "exited"}
    PROVE  NoCollection(pc) \in Collector
<1>1. 0 \in 0 .. (2 * ShardCount) /\ {} \in SUBSET InfoHash
  BY StoreAssumption
<1>2. QED
  BY <1>1 DEF Collector, NoCollection

\* Every step keeps the shards consistent.
LEMMA NextData == IInv /\ [Next]_vars => DataInv'
<1> SUFFICES ASSUME IInv, [Next]_vars PROVE DataInv'
  OBVIOUS
<1>0. DataInv /\ ControlType
  BY TypeSplit DEF IInv, DataInv
<1>1. CASE Tick \/ RefreshClock \/ PromExit \/ StopClose
  BY <1>0, <1>1, DataUnchanged DEF Tick, RefreshClock, PromExit, StopClose
<1>2. ASSUME NEW c \in Caller, NEW op \in Op, NEW e \in Entry, CheckClosed(c, op, e)
      PROVE  DataInv'
  BY <1>0, <1>2, DataUnchanged DEF CheckClosed
<1>3. ASSUME NEW c \in Caller, Perform(c)
      PROVE  DataInv'
  <2>1. CASE call[c].lost
    BY <1>0, <1>3, <2>1, DataUnchanged DEF Perform
  <2>2. CASE ~call[c].lost
    <3>1. call[c].op \in Op /\ call[c].e \in Entry
      BY <1>3 DEF Perform, InFlight
    <3>2. Execute(call[c].op, call[c].e)
      BY <1>3, <2>2 DEF Perform
    <3>3. QED
      BY <1>0, <3>1, <3>2, ExecuteInv DEF ControlType
  <2>3. QED
    BY <2>1, <2>2
<1>4. CASE GCStart \/ GCScan \/ GCNextShard \/ GCDone \/ GCExit
  BY <1>0, <1>4, DataUnchanged DEF GCStart, GCScan, GCNextShard, GCDone, GCExit
<1>5. ASSUME NEW ih \in InfoHash, GCSweep(ih)
      PROVE  DataInv'
  <2>1. gc.shard \in Shard
    BY <1>5 DEF GCSweep, IInv, ClockInv
  <2>2. QED
    BY <1>0, <1>5, <2>1, SweepInv
<1>6. CASE StopFree
  <2>1. DataType'
    BY <1>6 DEF StopFree, DataType, NoMembers, Map
  <2>2. CountersMatch' /\ SwarmsMatch'
    BY <1>6, <2>1, EmptyInv DEF StopFree, DataType, CountersMatch, Counts, SwarmsMatch
  <2>3. QED
    BY <2>1, <2>2 DEF DataInv
<1>7. CASE UNCHANGED vars
  BY <1>0, <1>7, DataUnchanged DEF vars, data
<1>8. QED
  BY <1>1, <1>2, <1>3, <1>4, <1>5, <1>6, <1>7 DEF Next, GCStep

\* Every step of the collector keeps its type, its cutoff in the past and its
\* shard in the array.
LEMMA CollectorInv ==
    ASSUME IInv, GCStep
    PROVE  gc' \in Collector /\ ClockInv'
<1>0. /\ gc \in Collector /\ now \in Nat /\ clock \in Nat
      /\ swarms \in [Shard -> SUBSET InfoHash]
      /\ PeerLifetime \in Nat /\ Lag \in Nat /\ ShardCount \in Nat \ {0}
  BY StoreAssumption DEF IInv, TypeOK
<1>1. now' = now /\ clock' = clock /\ freed' = freed /\ prom' = prom
  BY DEF GCStep, GCStart, GCScan, GCSweep, GCNextShard, GCDone, GCExit
<1>2. CASE GCStart
  <2>1. 0 \in 0 .. (2 * ShardCount) /\ now - PeerLifetime \in Int
    BY <1>0
  <2>2. gc' \in Collector
    BY <1>2, <2>1 DEF GCStart, Collector
  <2>3. ClockInv'
    BY <1>0, <1>1, <1>2 DEF GCStart, IInv, ClockInv
  <2>4. QED
    BY <2>2, <2>3
<1>3. CASE GCScan
  <2>1. gc' \in Collector
    BY <1>0, <1>3, Zenon DEF GCScan, Collector
  <2>2. ClockInv'
    BY <1>0, <1>1, <1>3 DEF GCScan, IInv, ClockInv, Collector
  <2>3. QED
    BY <2>1, <2>2
<1>4. ASSUME NEW ih \in InfoHash, GCSweep(ih)
      PROVE  gc' \in Collector /\ ClockInv'
  <2>0. gc' = [gc EXCEPT !.todo = @ \ {ih}] /\ gc.pc = "sweep"
    BY <1>4 DEF GCSweep
  <2>1. gc' \in Collector
    BY <1>0, <2>0 DEF Collector
  <2>2. ClockInv'
    BY <1>0, <1>1, <2>0 DEF IInv, ClockInv, Collector
  <2>3. QED
    BY <2>1, <2>2
<1>5. CASE GCNextShard
  <2>1. gc.shard + 1 \in 0 .. (2 * ShardCount)
    BY <1>0, <1>5 DEF GCNextShard, IInv, ClockInv, Shard
  <2>2. gc' \in Collector
    BY <1>0, <1>5, <2>1, Zenon DEF GCNextShard, Collector
  <2>3. ClockInv'
    BY <1>0, <1>1, <1>5 DEF GCNextShard, IInv, ClockInv, Collector
  <2>4. QED
    BY <2>2, <2>3
<1>6. CASE GCDone \/ GCExit
  <2>1. gc' = NoCollection("wait") \/ gc' = NoCollection("exited")
    BY <1>6 DEF GCDone, GCExit
  <2>2. gc' \in Collector
    BY <2>1, NoCollectionType
  <2>3. ClockInv'
    BY <1>0, <1>1, <2>1 DEF NoCollection, IInv, ClockInv
  <2>4. QED
    BY <2>2, <2>3
<1>7. QED
  BY <1>2, <1>3, <1>4, <1>5, <1>6 DEF GCStep

\* The parts of the invariant after a step, put together.
LEMMA InvParts ==
    ASSUME DataInv', ControlType', ClockInv'
    PROVE  IInv'
<1>1. numSeeders' \in [Shard -> Nat] /\ numLeechers' \in [Shard -> Nat]
  BY CountersNat DEF DataInv, DataType, CountersMatch
<1>2. TypeOK'
  BY <1>1 DEF TypeOK, DataInv, DataType, ControlType, Map
<1>3. QED
  BY <1>2 DEF IInv, DataInv

\* Every step keeps the invariant.
LEMMA NextInv == IInv /\ [Next]_vars => IInv'
<1> SUFFICES ASSUME IInv, [Next]_vars PROVE IInv'
  OBVIOUS
<1>0. /\ ControlType
      /\ PeerLifetime \in Nat /\ Lag \in Nat
  BY TypeSplit, StoreAssumption DEF IInv
<1>1. DataInv'
  BY NextData
<1>2. CASE Tick
  <2>1. ControlType'
    BY <1>0, <1>2 DEF Tick, ControlType
  <2>2. ClockInv'
    BY <1>0, <1>2 DEF Tick, IInv, ClockInv, Collector, ControlType
  <2>3. QED
    BY <1>1, <2>1, <2>2, InvParts
<1>3. CASE RefreshClock
  <2>1. ControlType'
    BY <1>0, <1>3 DEF RefreshClock, ControlType
  <2>2. ClockInv'
    BY <1>0, <1>3 DEF RefreshClock, IInv, ClockInv, Collector, ControlType
  <2>3. QED
    BY <1>1, <2>1, <2>2, InvParts
<1>4. ASSUME NEW c \in Caller, NEW op \in Op, NEW e \in Entry, CheckClosed(c, op, e)
      PROVE  IInv'
  <2>1. ControlType'
    <3>1. [op |-> op, e |-> e, lost |-> FALSE] \in InFlight
      BY DEF InFlight
    <3>2. call' \in [Caller -> InFlight \cup {Idle, Panicked}]
      BY <1>0, <1>4, <3>1 DEF CheckClosed, ControlType
    <3>3. QED
      BY <1>0, <1>4, <3>2 DEF CheckClosed, ControlType
  <2>2. ClockInv'
    BY <1>4 DEF CheckClosed, IInv, ClockInv
  <2>3. QED
    BY <1>1, <2>1, <2>2, InvParts
<1>5. ASSUME NEW c \in Caller, Perform(c)
      PROVE  IInv'
  <2>1. ControlType'
    BY <1>0, <1>5 DEF Perform, ControlType
  <2>2. ClockInv'
    BY <1>5 DEF Perform, IInv, ClockInv
  <2>3. QED
    BY <1>1, <2>1, <2>2, InvParts
<1>6. CASE GCStep
  <2>1. gc' \in Collector /\ ClockInv'
    BY <1>6, CollectorInv
  <2>2. UNCHANGED <<now, clock, closed, freed, call, prom>>
    BY <1>6 DEF GCStep, GCStart, GCScan, GCSweep, GCNextShard, GCDone, GCExit
  <2>3. ControlType'
    BY <1>0, <2>1, <2>2 DEF ControlType
  <2>4. QED
    BY <1>1, <2>1, <2>3, InvParts
<1>7. CASE PromExit \/ StopClose
  <2>1. ControlType'
    BY <1>0, <1>7, Zenon DEF PromExit, StopClose, ControlType
  <2>2. ClockInv'
    BY <1>7 DEF PromExit, StopClose, IInv, ClockInv
  <2>3. QED
    BY <1>1, <2>1, <2>2, InvParts
<1>8. CASE StopFree
  <2>1. PICK lost \in SUBSET {c \in Caller : call[c] \in InFlight} :
            call' = [c \in Caller |-> IF c \in lost
                                      THEN [call[c] EXCEPT !.lost = TRUE]
                                      ELSE call[c]]
    BY <1>8, Zenon DEF StopFree
  <2>2. ASSUME NEW c \in lost
        PROVE  [call[c] EXCEPT !.lost = TRUE] \in InFlight
    BY Zenon DEF InFlight
  <2>3. call' \in [Caller -> InFlight \cup {Idle, Panicked}]
    BY <1>0, <2>1, <2>2 DEF ControlType
  <2>4. ControlType'
    BY <1>0, <1>8, <2>3 DEF StopFree, ControlType
  <2>5. ClockInv'
    BY <1>8 DEF StopFree, IInv, ClockInv
  <2>6. QED
    BY <1>1, <2>4, <2>5, InvParts
<1>9. CASE UNCHANGED vars
  <2>1. ControlType' /\ ClockInv'
    BY <1>0, <1>9 DEF vars, IInv, ClockInv, ControlType
  <2>2. QED
    BY <1>1, <2>1, InvParts
<1>10. QED
  BY <1>2, <1>3, <1>4, <1>5, <1>6, <1>7, <1>8, <1>9 DEF Next

\* The inductive invariant holds always.
THEOREM Invariance == Spec => []IInv
<1>1. Init => IInv
  BY InitInv
<1>2. IInv /\ [Next]_vars => IInv'
  BY NextInv
<1>3. QED
  BY <1>1, <1>2, PTL DEF Spec

\* The state of the store always has the shape the code's types give it.
THEOREM TypeCorrect == Spec => []TypeOK
<1>1. IInv => TypeOK
  BY DEF IInv
<1>2. QED
  BY <1>1, Invariance, PTL

\* The statistics counters of every shard always equal the contents of its
\* maps, whatever the interleaving of methods, sweeps and Stop.
THEOREM CountersCorrect == Spec => []CountersMatch
<1>1. IInv => CountersMatch
  BY DEF IInv
<1>2. QED
  BY <1>1, Invariance, PTL

\* A swarm is resident exactly when some peer is in it.
THEOREM SwarmsCorrect == Spec => []SwarmsMatch
<1>1. IInv => SwarmsMatch
  BY DEF IInv
<1>2. QED
  BY <1>1, Invariance, PTL

-----------------------------------------------------------------------------
(***************************************************************************)
(* MemoryStore implements PeerStore.  The mapping is the identity on the    *)
(* maps, real time and closed; the shards, the counters, the calls and the  *)
(* collector are hidden.                                                    *)
(***************************************************************************)
\* A method that runs on the live shards is the method of the contract, or
\* finds nothing to delete.
LEMMA ExecuteRefines ==
    ASSUME IInv, NEW op \in Op, NEW e \in Entry, Execute(op, e),
           now' = now, closed' = closed
    PROVE  PS!Next \/ UNCHANGED PS!vars
<1>0. clock \in (now - Lag) .. now
  BY StoreAssumption DEF IInv, TypeOK, ClockInv
<1>1. CASE op = "PutSeeder"
  <2>1. PS!PutSeeder(e)
    BY <1>0, <1>1 DEF Execute, PutSeeder, PS!PutSeeder
  <2>2. QED
    BY <2>1 DEF PS!Next
<1>2. CASE op = "DeleteSeeder"
  <2>1. PS!DeleteSeeder(e) \/ UNCHANGED PS!vars
    BY <1>2 DEF Execute, DeleteSeeder, PS!DeleteSeeder, data, PS!vars
  <2>2. QED
    BY <2>1 DEF PS!Next
<1>3. CASE op = "PutLeecher"
  <2>1. PS!PutLeecher(e)
    BY <1>0, <1>3 DEF Execute, PutLeecher, PS!PutLeecher
  <2>2. QED
    BY <2>1 DEF PS!Next
<1>4. CASE op = "DeleteLeecher"
  <2>1. PS!DeleteLeecher(e) \/ UNCHANGED PS!vars
    BY <1>4 DEF Execute, DeleteLeecher, PS!DeleteLeecher, data, PS!vars
  <2>2. QED
    BY <2>1 DEF PS!Next
<1>5. CASE op = "GraduateLeecher"
  <2>1. PS!GraduateLeecher(e)
    BY <1>0, <1>5 DEF Execute, GraduateLeecher, PS!GraduateLeecher
  <2>2. QED
    BY <2>1 DEF PS!Next
<1>6. QED
  BY <1>1, <1>2, <1>3, <1>4, <1>5 DEF Op

\* A sweep forgets only entries at least a lifetime old, by the real time of
\* the sweep: its cutoff is in the past, and an entry put since is newer.
LEMMA SweepRefines ==
    ASSUME IInv, NEW ih \in InfoHash, GCSweep(ih)
    PROVE  PS!Next \/ UNCHANGED PS!vars
<1>0. /\ gc.cutoff <= now - PeerLifetime /\ gc.cutoff \in Int
      /\ now \in Nat /\ PeerLifetime \in Nat
      /\ seeders \in Map /\ leechers \in Map
  BY StoreAssumption DEF GCSweep, IInv, ClockInv, TypeOK, Collector, Map
<1>1. now' = now /\ closed' = closed
  BY DEF GCSweep
<1>2. CASE ih \in swarms[gc.shard]
  <2>1. ASSUME NEW m \in Map
        PROVE  PS!Forgets(m, Without(m, Stale(m, ih)))
    <3>1. Without(m, Stale(m, ih)) \in Map
      BY DEF Without, Map
    <3>2. ASSUME NEW e \in Entry, Without(m, Stale(m, ih))[e] # m[e]
          PROVE  Without(m, Stale(m, ih))[e] = Absent /\ m[e] <= now - PeerLifetime
      <4>1. e \in Stale(m, ih)
        BY <3>2 DEF Without
      <4>2. m[e] \in Int /\ m[e] <= gc.cutoff
        BY <4>1 DEF Stale, Map
      <4>3. QED
        BY <1>0, <4>1, <4>2 DEF Without
    <3>3. QED
      BY <3>1, <3>2 DEF PS!Forgets, Map
  <2>2. PS!Expire
    BY <1>0, <1>1, <1>2, <2>1 DEF GCSweep, PS!Expire
  <2>3. QED
    BY <2>2 DEF PS!Next
<1>3. CASE ih \notin swarms[gc.shard]
  BY <1>1, <1>3 DEF GCSweep, data, PS!vars
<1>4. QED
  BY <1>2, <1>3

\* Every step of the store is a step of the contract or none.
LEMMA NextRefines == IInv /\ [Next]_vars => [PS!Next]_(PS!vars)
<1> SUFFICES ASSUME IInv, [Next]_vars PROVE PS!Next \/ UNCHANGED PS!vars
  OBVIOUS
<1>1. CASE Tick
  BY <1>1 DEF Tick, data, PS!Tick, PS!Next
<1>2. CASE RefreshClock \/ PromExit
  BY <1>2 DEF RefreshClock, PromExit, data, PS!vars
<1>3. ASSUME NEW c \in Caller, NEW op \in Op, NEW e \in Entry, CheckClosed(c, op, e)
      PROVE  UNCHANGED PS!vars
  BY <1>3 DEF CheckClosed, data, PS!vars
<1>4. ASSUME NEW c \in Caller, Perform(c)
      PROVE  PS!Next \/ UNCHANGED PS!vars
  <2>1. CASE call[c].lost
    BY <1>4, <2>1 DEF Perform, data, PS!vars
  <2>2. CASE ~call[c].lost
    <3>1. call[c].op \in Op /\ call[c].e \in Entry
      BY <1>4 DEF Perform, InFlight
    <3>2. Execute(call[c].op, call[c].e) /\ now' = now /\ closed' = closed
      BY <1>4, <2>2 DEF Perform
    <3>3. QED
      BY <3>1, <3>2, ExecuteRefines
  <2>3. QED
    BY <2>1, <2>2
<1>5. CASE GCStart \/ GCScan \/ GCNextShard \/ GCDone \/ GCExit
  BY <1>5 DEF GCStart, GCScan, GCNextShard, GCDone, GCExit, data, PS!vars
<1>6. ASSUME NEW ih \in InfoHash, GCSweep(ih)
      PROVE  PS!Next \/ UNCHANGED PS!vars
  BY <1>6, SweepRefines
<1>7. CASE StopClose
  BY <1>7 DEF StopClose, data, PS!Stop, PS!Next
<1>8. CASE StopFree
  BY <1>8 DEF StopFree, NoMembers, PS!Forget, PS!Next
<1>9. CASE UNCHANGED vars
  BY <1>9 DEF vars, PS!vars
<1>10. QED
  BY <1>1, <1>2, <1>3, <1>4, <1>5, <1>6, <1>7, <1>8, <1>9 DEF Next, GCStep

\* The in-memory store, with its shards, its two-step calls, its incremental
\* collector and its Stop, keeps the promises of storage.PeerStore.
THEOREM Refinement == Spec => ImplementsPeerStore
<1>1. Init => PS!Init
  BY DEF Init, NoMembers, PS!Init
<1>2. IInv /\ [Next]_vars => [PS!Next]_(PS!vars)
  BY NextRefines
<1>3. QED
  BY <1>1, <1>2, Invariance, PTL DEF Spec, ImplementsPeerStore, PS!Spec

-----------------------------------------------------------------------------
(***************************************************************************)
(* Thoroughness.  During a collection an entry is still ahead of the        *)
(* collector, or its two times are ones that the collection leaves.         *)
(***************************************************************************)
KeptBy(t, cutoff) ==
    t = Absent \/ t > cutoff \/ t >= cutoff + PeerLifetime - Lag

Ahead(q, e) ==
    \/ ShardOf(e) > q.shard
    \/ ShardOf(e) = q.shard /\ (q.pc = "scan" \/ e[1] \in q.todo)

Swept ==
    gc.pc \in {"scan", "sweep"} =>
        \A e \in Entry : \/ Ahead(gc, e)
                         \/ KeptBy(seeders[e], gc.cutoff) /\ KeptBy(leechers[e], gc.cutoff)

\* A map changes by puts with the cached time and by deletions.
Writes(m, n) == \A e \in Entry : n[e] \in {m[e], Absent, clock}

\* What the methods write.
LEMMA ExecuteWrites ==
    ASSUME DataType, NEW op \in Op, NEW e \in Entry, Execute(op, e)
    PROVE  Writes(seeders, seeders') /\ Writes(leechers, leechers')
<1>0. seeders \in Map /\ leechers \in Map
  BY DEF DataType
<1>1. CASE op = "PutSeeder"
  BY <1>0, <1>1 DEF Execute, PutSeeder, Writes, Map
<1>2. CASE op = "DeleteSeeder"
  BY <1>0, <1>2 DEF Execute, DeleteSeeder, Writes, Map, data
<1>3. CASE op = "PutLeecher"
  BY <1>0, <1>3 DEF Execute, PutLeecher, Writes, Map
<1>4. CASE op = "DeleteLeecher"
  BY <1>0, <1>4 DEF Execute, DeleteLeecher, Writes, Map, data
<1>5. CASE op = "GraduateLeecher"
  BY <1>0, <1>5 DEF Execute, GraduateLeecher, Writes, Map
<1>6. QED
  BY <1>1, <1>2, <1>3, <1>4, <1>5 DEF Op

\* A time that is written during a collection is one that it leaves.
LEMMA WriteKept ==
    ASSUME IInv, gc.pc \in {"scan", "sweep"}, NEW t, KeptBy(t, gc.cutoff),
           NEW u \in {t, Absent, clock}
    PROVE  KeptBy(u, gc.cutoff)
<1>1. /\ gc.cutoff \in Int /\ clock \in Int /\ now \in Int
      /\ PeerLifetime \in Int /\ Lag \in Int
  BY StoreAssumption DEF IInv, TypeOK, Collector
<1>2. gc.cutoff <= now - PeerLifetime /\ now - clock <= Lag
  BY DEF IInv, ClockInv
<1>3. KeptBy(clock, gc.cutoff)
  BY <1>1, <1>2 DEF KeptBy
<1>4. QED
  BY <1>3 DEF KeptBy

\* A swarm that is not resident has nobody in it.
LEMMA NotResident ==
    ASSUME IInv, NEW e \in Entry, e[1] \notin swarms[ShardOf(e)]
    PROVE  seeders[e] = Absent /\ leechers[e] = Absent
<1>1. ShardOf(e) \in Shard /\ e[1] \in InfoHash
  BY ShardOfType DEF Entry
<1>2. IsEmpty(seeders, leechers, e[1], ShardOf(e))
  BY <1>1 DEF IInv, SwarmsMatch, NonEmpty
<1>3. QED
  BY <1>2 DEF IsEmpty, Swarm

\* Every step of the collector keeps what it has swept.
LEMMA CollectSwept ==
    ASSUME IInv, Swept, GCStep
    PROVE  Swept'
<1>0. /\ gc \in Collector /\ gc.shard \in Int /\ gc.cutoff \in Int
      /\ swarms \in [Shard -> SUBSET InfoHash] /\ seeders \in Map /\ leechers \in Map
  BY StoreAssumption DEF IInv, TypeOK, Collector, Map
<1>1. \A e \in Entry : ShardOf(e) \in Shard /\ ShardOf(e) \in Nat
  BY ShardOfType, StoreAssumption DEF Shard
<1>2. CASE GCStart
  <2>1. gc'.shard = 0 /\ gc'.pc = "scan"
    BY <1>2 DEF GCStart
  <2>2. \A e \in Entry : Ahead(gc', e)
    BY <1>1, <2>1 DEF Ahead
  <2>3. QED
    BY <2>2 DEF Swept
<1>3. CASE GCScan
  <2>1. /\ gc'.shard = gc.shard /\ gc'.todo = swarms[gc.shard] /\ gc'.cutoff = gc.cutoff
        /\ gc.pc = "scan" /\ seeders' = seeders /\ leechers' = leechers
    BY <1>0, <1>3 DEF GCScan, Collector, data
  <2>2. ASSUME NEW e \in Entry, ~Ahead(gc', e)
        PROVE  KeptBy(seeders[e], gc.cutoff) /\ KeptBy(leechers[e], gc.cutoff)
    <3>1. CASE ShardOf(e) = gc.shard
      <4>1. e[1] \notin swarms[ShardOf(e)]
        BY <2>1, <2>2, <3>1 DEF Ahead
      <4>2. QED
        BY <4>1, NotResident DEF KeptBy
    <3>2. CASE ShardOf(e) # gc.shard
      BY <2>1, <2>2, <3>2 DEF Ahead, Swept
    <3>3. QED
      BY <3>1, <3>2
  <2>3. QED
    BY <2>1, <2>2 DEF Swept
<1>4. ASSUME NEW ih \in InfoHash, GCSweep(ih)
      PROVE  Swept'
  <2>1. /\ gc'.pc = "sweep" /\ gc'.shard = gc.shard /\ gc'.cutoff = gc.cutoff
        /\ gc'.todo = gc.todo \ {ih} /\ gc.pc = "sweep"
    BY <1>0, <1>4 DEF GCSweep, Collector
  <2>2. \/ ih \notin swarms[gc.shard] /\ seeders' = seeders /\ leechers' = leechers
        \/ /\ seeders' = Without(seeders, Stale(seeders, ih))
           /\ leechers' = Without(leechers, Stale(leechers, ih))
    BY <1>4 DEF GCSweep, data
  <2>3. ASSUME NEW e \in Entry, NEW m \in Map
        PROVE  /\ Without(m, Stale(m, ih))[e] \in {m[e], Absent}
               /\ e[1] = ih /\ ShardOf(e) = gc.shard
                     => KeptBy(Without(m, Stale(m, ih))[e], gc.cutoff)
    BY <1>0 DEF Without, Stale, Swarm, KeptBy, Map
  <2>4. ASSUME NEW e \in Entry, ~Ahead(gc', e)
        PROVE  KeptBy(seeders'[e], gc.cutoff) /\ KeptBy(leechers'[e], gc.cutoff)
    <3>1. CASE Ahead(gc, e)
      <4>1. e[1] = ih /\ ShardOf(e) = gc.shard
        BY <2>1, <2>4, <3>1 DEF Ahead
      <4>2. CASE ih \notin swarms[gc.shard] /\ seeders' = seeders /\ leechers' = leechers
        BY <4>1, <4>2, NotResident DEF KeptBy
      <4>3. CASE /\ seeders' = Without(seeders, Stale(seeders, ih))
                 /\ leechers' = Without(leechers, Stale(leechers, ih))
        BY <1>0, <2>3, <4>1, <4>3
      <4>4. QED
        BY <2>2, <4>2, <4>3
    <3>2. CASE ~Ahead(gc, e)
      <4>1. KeptBy(seeders[e], gc.cutoff) /\ KeptBy(leechers[e], gc.cutoff)
        BY <2>1, <3>2 DEF Swept
      <4>2. seeders'[e] \in {seeders[e], Absent} /\ leechers'[e] \in {leechers[e], Absent}
        BY <1>0, <2>2, <2>3
      <4>3. QED
        BY <4>1, <4>2 DEF KeptBy
    <3>3. QED
      BY <3>1, <3>2
  <2>5. QED
    BY <2>1, <2>4 DEF Swept
<1>5. CASE GCNextShard
  <2>1. /\ gc'.pc = "scan" /\ gc'.shard = gc.shard + 1 /\ gc'.cutoff = gc.cutoff
        /\ gc.pc = "sweep" /\ gc.todo = {} /\ seeders' = seeders /\ leechers' = leechers
    BY <1>0, <1>5 DEF GCNextShard, Collector, data
  <2>2. \A e \in Entry : Ahead(gc, e) => Ahead(gc', e)
    BY <1>0, <1>1, <2>1 DEF Ahead
  <2>3. QED
    BY <2>1, <2>2 DEF Swept
<1>6. CASE GCDone \/ GCExit
  BY <1>6 DEF GCDone, GCExit, NoCollection, Swept
<1>7. QED
  BY <1>2, <1>3, <1>4, <1>5, <1>6 DEF GCStep

\* When a collection has been through all shards, no peer is left that was stale
\* when it began (collectGarbage), although it lists the infohashes of a shard
\* before it locks it again for each of them.
THEOREM StalePeersCollected == Spec => []CollectsAllStale
<1>1. Init => Swept
  BY DEF Init, NoCollection, Swept
<1>2. IInv /\ Swept /\ [Next]_vars => Swept'
  <2> SUFFICES ASSUME IInv, Swept, [Next]_vars PROVE Swept'
    OBVIOUS
  <2>1. ASSUME UNCHANGED gc, Writes(seeders, seeders'), Writes(leechers, leechers')
        PROVE  Swept'
    <3> SUFFICES ASSUME gc.pc \in {"scan", "sweep"}, NEW e \in Entry, ~Ahead(gc, e)
                 PROVE  KeptBy(seeders'[e], gc.cutoff) /\ KeptBy(leechers'[e], gc.cutoff)
      BY <2>1 DEF Swept
    <3>1. KeptBy(seeders[e], gc.cutoff) /\ KeptBy(leechers[e], gc.cutoff)
      BY DEF Swept
    <3>2. /\ seeders'[e] \in {seeders[e], Absent, clock}
          /\ leechers'[e] \in {leechers[e], Absent, clock}
      BY <2>1 DEF Writes
    <3>3. QED
      BY <3>1, <3>2, WriteKept
  <2>2. ASSUME NEW c \in Caller, Perform(c), ~call[c].lost PROVE Swept'
    <3>1. /\ call[c].op \in Op /\ call[c].e \in Entry /\ DataType
          /\ Execute(call[c].op, call[c].e) /\ UNCHANGED gc
      BY <2>2, TypeSplit DEF Perform, InFlight, IInv
    <3>2. QED
      BY <2>1, <3>1, ExecuteWrites
  <2>3. CASE StopFree
    BY <2>3 DEF StopFree, Swept
  <2>4. CASE UNCHANGED <<seeders, leechers, gc>>
    BY <2>4 DEF Swept, Ahead, KeptBy
  <2>5. QED
    BY <2>2, <2>3, <2>4, CollectSwept DEF Next, Tick, RefreshClock, CheckClosed, Perform,
       PromExit, StopClose, data, vars
<1>3. IInv /\ Swept => CollectsAllStale
  <2> SUFFICES ASSUME IInv, Swept, gc.pc = "scan", gc.shard \notin Shard, NEW e \in Entry
               PROVE  Kept(seeders[e]) /\ Kept(leechers[e])
    BY DEF CollectsAllStale
  <2>1. gc.shard \in 0 .. (2 * ShardCount) /\ ShardOf(e) \in Shard /\ ShardCount \in Nat
    BY ShardOfType, StoreAssumption DEF IInv, TypeOK, Collector
  <2>2. ~Ahead(gc, e)
    BY <2>1 DEF Ahead, Shard
  <2>3. QED
    BY <2>2 DEF Swept, Kept, KeptBy
<1>4. QED
  BY <1>1, <1>2, <1>3, Invariance, PTL DEF Spec

=============================================================================
