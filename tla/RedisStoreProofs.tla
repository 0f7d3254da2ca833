-------------------------- MODULE RedisStoreProofs --------------------------
(***************************************************************************)
(* Proofs about RedisStore, for any number of infohashes, peers, callers,   *)
(* readers, instances and failed connections.                               *)
(***************************************************************************)
EXTENDS RedisStore, FiniteSetTheorems, TLAPS

HashMap == [Entry -> Int \cup {Absent}]

\* A collector that is at a key knows which.
AtKey ==
    \A g \in Instance :
        gc[g].pc \in {"delete", "hlen", "exec"} => gc[g].key \in Key

\* What makes the WATCH block safe: a collector that has seen the length zero
\* and whose watched hash has not changed since is at an empty hash.
ExecSafe ==
    \A g \in Instance :
        gc[g].pc = "exec" /\ ~dirty[g] => Fields(hash, gc[g].key) = {}

IInv == TypeOK /\ AtKey /\ SwarmsListed /\ ExecSafe

-----------------------------------------------------------------------------
\* The keys of an infohash are keys, its entries are entries.
LEMMA KeyType ==
    ASSUME NEW ih \in InfoHash, NEW p \in Peer
    PROVE  /\ SeederKey(ih) \in Key /\ LeecherKey(ih) \in Key
           /\ <<SeederKey(ih), p>> \in Entry /\ <<LeecherKey(ih), p>> \in Entry
BY DEF SeederKey, LeecherKey, Key, Entry

\* A change of the hashes keeps the types of what it touches.
LEMMA StoreType ==
    ASSUME TypeOK, NEW h \in HashMap, NEW K, Store(h, K)
    PROVE  /\ hash' \in HashMap
           /\ dirty' \in [Instance -> BOOLEAN]
           /\ read' \in [Reader -> Read]
           /\ \A g \in Instance : dirty'[g] => gc[g].pc \in {"hlen", "exec"}
<1>1. hash' \in HashMap
  BY DEF Store
<1>2. dirty' \in [Instance -> BOOLEAN]
  BY DEF Store
<1>3. read' \in [Reader -> Read]
  <2>1. ASSUME NEW r \in Reader
        PROVE  [read[r] EXCEPT !.sure = @ \cap Stays(h, read[r].ih)] \in Read
    <3>1. read[r] \in Read
      BY <2>1 DEF TypeOK
    <3>2. QED
      BY <3>1 DEF Read
  <2>2. QED
    BY <2>1 DEF Store, TypeOK
<1>4. ASSUME NEW g \in Instance, dirty'[g]
      PROVE  gc[g].pc \in {"hlen", "exec"}
  BY <1>4 DEF Store, TypeOK, Watching
<1>5. QED
  BY <1>1, <1>2, <1>3, <1>4

\* A change of the hashes with keys in K, as Redis sees it: a collector that
\* has its watched hash unchanged is still at an empty hash.
LEMMA StoreExecSafe ==
    ASSUME IInv, NEW h \in HashMap, NEW K \in SUBSET Key, Store(h, K),
           \A e \in Entry : e[1] \notin K => h[e] = hash[e],
           \A g \in Instance : gc'[g].pc = gc[g].pc /\ gc'[g].key = gc[g].key
    PROVE  ExecSafe'
<1> SUFFICES ASSUME NEW g \in Instance, gc'[g].pc = "exec", ~dirty'[g]
             PROVE  Fields(hash', gc'[g].key) = {}
  BY DEF ExecSafe
<1>1. gc[g].pc = "exec" /\ gc'[g].key = gc[g].key /\ gc[g].key \in Key
  BY DEF IInv, AtKey
<1>2. ~dirty[g] /\ gc[g].key \notin K
  BY <1>1, Zenon DEF Store, Watching, IInv, TypeOK
<1>3. Fields(hash, gc[g].key) = {}
  BY <1>1, <1>2 DEF IInv, ExecSafe
<1>4. \A p \in Peer : h[<<gc[g].key, p>>] = hash[<<gc[g].key, p>>]
  BY <1>1, <1>2 DEF Entry
<1>5. QED
  BY <1>1, <1>3, <1>4 DEF Fields, Store

\* The hashes after h is written are listed, if the group has the old keys
\* and every key whose hash may have got a field.
LEMMA StoreListed ==
    ASSUME SwarmsListed, NEW h \in HashMap, NEW K, Store(h, K),
           group \subseteq group',
           \A k \in Key : \A p \in Peer :
               h[<<k, p>>] # Absent => hash[<<k, p>>] # Absent \/ k \in group'
    PROVE  SwarmsListed'
BY DEF SwarmsListed, Store, Fields

\* The updates a caller owes have their type.
LEMMA OweType ==
    ASSUME TypeOK, NEW c \in Caller, NEW l \in {-1, 0, 1}, NEW s \in {-1, 0, 1},
           NEW h \in {-1, 0, 1}, Owe(c, l, s, h)
    PROVE  owed' \in [Caller -> [Counter -> {-1, 0, 1}]]
<1>1. [x \in Counter |-> CASE x = "L" -> l [] x = "S" -> s [] x = "H" -> h]
          \in [Counter -> {-1, 0, 1}]
  BY DEF Counter
<1>2. QED
  BY <1>1, Zenon DEF Owe, TypeOK

\* What the five writing methods have in common keeps the invariant.
LEMMA WriteInv ==
    ASSUME IInv, NEW h \in HashMap, NEW K \in SUBSET Key, Store(h, K),
           \A e \in Entry : e[1] \notin K => h[e] = hash[e],
           \A k \in Key : \A p \in Peer :
               h[<<k, p>>] # Absent => hash[<<k, p>>] # Absent \/ k \in group',
           group' \in SUBSET Key, group \subseteq group',
           owed' \in [Caller -> [Counter -> {-1, 0, 1}]],
           UNCHANGED <<count, now, gc, failures>>
    PROVE  IInv'
<1>1. /\ hash' \in HashMap
      /\ dirty' \in [Instance -> BOOLEAN]
      /\ read' \in [Reader -> Read]
      /\ \A g \in Instance : dirty'[g] => gc[g].pc \in {"hlen", "exec"}
  BY StoreType DEF IInv
<1>2. TypeOK'
  BY <1>1 DEF IInv, TypeOK, HashMap
<1>3. AtKey'
  BY DEF IInv, AtKey
<1>4. SwarmsListed'
  BY StoreListed DEF IInv
<1>5. ExecSafe'
  BY StoreExecSafe
<1>6. QED
  BY <1>2, <1>3, <1>4, <1>5 DEF IInv

\* PutSeeder keeps the invariant.
LEMMA PutSeederInv ==
    ASSUME IInv, NEW c \in Caller, NEW ih \in InfoHash, NEW p \in Peer,
           PutSeeder(c, ih, p)
    PROVE  IInv'
<1> DEFINE k == SeederKey(ih)
<1>1. k \in Key /\ <<k, p>> \in Entry
  BY KeyType, Zenon
<1>2. PICK t \in PutTime : Store([hash EXCEPT ![<<k, p>>] = t], {k})
  BY DEF PutSeeder
<1> DEFINE h == [hash EXCEPT ![<<k, p>>] = t]
<1>3. t \in Int
  BY RedisAssumption DEF PutTime, IInv, TypeOK
<1>4. h \in HashMap
  BY <1>3, Zenon DEF IInv, TypeOK, HashMap
<1>5. \A e \in Entry : e[1] \notin {k} => h[e] = hash[e]
  BY DEF IInv, TypeOK
<1>6. group' = group \cup {k} /\ group \in SUBSET Key
  BY DEF PutSeeder, IInv, TypeOK
<1>7. \A j \in Key : \A q \in Peer :
          h[<<j, q>>] # Absent => hash[<<j, q>>] # Absent \/ j \in group'
  BY <1>6 DEF IInv, TypeOK, Entry
<1>8. owed' \in [Caller -> [Counter -> {-1, 0, 1}]]
  BY OweType DEF PutSeeder, If, IInv
<1>9. QED
  BY <1>1, <1>2, <1>4, <1>5, <1>6, <1>7, <1>8, WriteInv, Zenon DEF PutSeeder

\* PutLeecher keeps the invariant.
LEMMA PutLeecherInv ==
    ASSUME IInv, NEW c \in Caller, NEW ih \in InfoHash, NEW p \in Peer,
           PutLeecher(c, ih, p)
    PROVE  IInv'
<1> DEFINE k == LeecherKey(ih)
<1>1. k \in Key /\ <<k, p>> \in Entry
  BY KeyType, Zenon
<1>2. PICK t \in PutTime : Store([hash EXCEPT ![<<k, p>>] = t], {k})
  BY DEF PutLeecher
<1> DEFINE h == [hash EXCEPT ![<<k, p>>] = t]
<1>3. t \in Int
  BY RedisAssumption DEF PutTime, IInv, TypeOK
<1>4. h \in HashMap
  BY <1>3, Zenon DEF IInv, TypeOK, HashMap
<1>5. \A e \in Entry : e[1] \notin {k} => h[e] = hash[e]
  BY DEF IInv, TypeOK
<1>6. group' = group \cup {k} /\ group \in SUBSET Key
  BY DEF PutLeecher, IInv, TypeOK
<1>7. \A j \in Key : \A q \in Peer :
          h[<<j, q>>] # Absent => hash[<<j, q>>] # Absent \/ j \in group'
  BY <1>6 DEF IInv, TypeOK, Entry
<1>8. owed' \in [Caller -> [Counter -> {-1, 0, 1}]]
  BY OweType DEF PutLeecher, If, IInv
<1>9. QED
  BY <1>1, <1>2, <1>4, <1>5, <1>6, <1>7, <1>8, WriteInv, Zenon DEF PutLeecher

\* The HDEL of DeleteSeeder and of DeleteLeecher keeps the invariant.
LEMMA DeleteInv ==
    ASSUME IInv, NEW k \in Key, NEW p \in Peer,
           Store([hash EXCEPT ![<<k, p>>] = Absent], {k}),
           owed' \in [Caller -> [Counter -> {-1, 0, 1}]],
           UNCHANGED <<group, count, now, gc, failures>>
    PROVE  IInv'
<1> DEFINE h == [hash EXCEPT ![<<k, p>>] = Absent]
<1>1. h \in HashMap
  BY Zenon DEF IInv, TypeOK, HashMap
<1>2. \A e \in Entry : e[1] \notin {k} => h[e] = hash[e]
  BY DEF IInv, TypeOK
<1>3. \A j \in Key : \A q \in Peer :
          h[<<j, q>>] # Absent => hash[<<j, q>>] # Absent \/ j \in group'
  BY DEF IInv, TypeOK, Entry
<1>4. group' \in SUBSET Key /\ group \subseteq group'
  BY DEF IInv, TypeOK
<1>5. QED
  BY <1>1, <1>2, <1>3, <1>4, WriteInv, Zenon

\* GraduateLeecher keeps the invariant.
LEMMA GraduateInv ==
    ASSUME IInv, NEW c \in Caller, NEW ih \in InfoHash, NEW p \in Peer,
           GraduateLeecher(c, ih, p)
    PROVE  IInv'
<1> DEFINE l == <<LeecherKey(ih), p>>
           s == <<SeederKey(ih), p>>
           K == {s[1]} \cup {k \in {l[1]} : hash[l] # Absent}
<1>1. l \in Entry /\ s \in Entry /\ l[1] \in Key /\ s[1] \in Key
  BY KeyType
<1>2. PICK t \in PutTime : Store([hash EXCEPT ![l] = Absent, ![s] = t], K)
  BY DEF GraduateLeecher
<1> DEFINE h == [hash EXCEPT ![l] = Absent, ![s] = t]
<1>3. t \in Int
  BY RedisAssumption DEF PutTime, IInv, TypeOK
<1>4. h \in HashMap
  BY <1>3, Zenon DEF IInv, TypeOK, HashMap
<1>5. ASSUME NEW e \in Entry, e[1] \notin K
      PROVE  h[e] = hash[e]
  <2>1. e # s
    BY <1>5
  <2>2. e # l \/ hash[l] = Absent
    BY <1>5
  <2>3. QED
    BY <2>1, <2>2 DEF IInv, TypeOK
<1>6. group' = group \cup {s[1]} /\ group \in SUBSET Key
  BY DEF GraduateLeecher, IInv, TypeOK
<1>7. \A j \in Key : \A q \in Peer :
          h[<<j, q>>] # Absent => hash[<<j, q>>] # Absent \/ j \in group'
  BY <1>6 DEF IInv, TypeOK, Entry
<1>8. owed' \in [Caller -> [Counter -> {-1, 0, 1}]]
  BY OweType DEF GraduateLeecher, If, IInv
<1>9. K \in SUBSET Key
  BY <1>1
<1>10. UNCHANGED <<count, now, gc, failures>>
  BY DEF GraduateLeecher
<1> HIDE DEF h, K
<1>11. QED
  BY <1>1, <1>2, <1>4, <1>5, <1>6, <1>7, <1>8, <1>9, <1>10, WriteInv, Zenon DEF h

-----------------------------------------------------------------------------
\* What the steps of a collection that leave the hashes alone have in common:
\* collector g goes to state q with the dirty flag d.
LEMMA CollectInv ==
    ASSUME IInv, NEW g \in Instance, NEW q \in Collector, NEW d \in BOOLEAN,
           gc' = [gc EXCEPT ![g] = q], dirty' = [dirty EXCEPT ![g] = d],
           d => q.pc \in {"hlen", "exec"},
           q.pc \in {"delete", "hlen", "exec"} => q.key \in Key,
           q.pc = "exec" /\ ~d => Fields(hash, q.key) = {},
           group' \in SUBSET Key, count' \in [Counter -> Int],
           failures' \in Nat, SwarmsListed', UNCHANGED <<hash, now, owed, read>>
    PROVE  IInv'
<1>1. /\ gc' \in [Instance -> Collector] /\ dirty' \in [Instance -> BOOLEAN]
      /\ gc'[g] = q /\ dirty'[g] = d
      /\ \A i \in Instance : i # g => gc'[i] = gc[i] /\ dirty'[i] = dirty[i]
  BY DEF IInv, TypeOK
<1>2. TypeOK'
  BY <1>1 DEF IInv, TypeOK
<1>3. AtKey'
  BY <1>1 DEF IInv, AtKey
<1>4. ExecSafe'
  BY <1>1 DEF IInv, ExecSafe, Fields
<1>5. QED
  BY <1>2, <1>3, <1>4 DEF IInv

\* The steps of a collection that change neither hashes nor listed keys.
LEMMA QuietCollectInv ==
    ASSUME IInv, NEW g \in Instance,
           \/ GCStart(g) \/ GCKeys(g) \/ (\E k \in Key : GCRead(g, k))
           \/ GCDecrBy(g) \/ GCWatch(g) \/ GCLen(g) \/ GCDone(g) \/ GCFail(g)
    PROVE  IInv'
<1>0. /\ gc \in [Instance -> Collector] /\ gc[g] \in Collector
      /\ dirty \in [Instance -> BOOLEAN] /\ dirty[g] \in BOOLEAN
      /\ group \in SUBSET Key /\ count \in [Counter -> Int] /\ failures \in Nat
      /\ now \in Nat /\ PeerLifetime \in Nat
      /\ dirty[g] => gc[g].pc \in {"hlen", "exec"}
  BY RedisAssumption DEF IInv, TypeOK
<1>1. NoCollection \in Collector /\ NoCollection.pc = "idle"
  BY DEF NoCollection, Collector
<1>2. CASE GCStart(g) \/ GCDone(g) \/ GCFail(g)
  <2>1. PICK q \in Collector :
            /\ q.pc \in {"idle", "keys"}
            /\ gc' = [gc EXCEPT ![g] = q]
    <3>1. [NoCollection EXCEPT !.pc = "keys", !.cutoff = now - PeerLifetime]
              \in Collector
      <4>1. now - PeerLifetime \in Int
        BY <1>0
      <4>2. QED
        BY <1>1, <4>1, Zenon DEF Collector
    <3>2. [NoCollection EXCEPT !.pc = "keys", !.cutoff = now - PeerLifetime].pc
              = "keys"
      BY DEF NoCollection
    <3>3. QED
      BY <1>1, <1>2, <3>1, <3>2, Zenon DEF GCStart, GCDone, GCFail
  <2>2. dirty' = [dirty EXCEPT ![g] = FALSE]
    BY <1>0, <1>2 DEF GCStart, GCDone, GCFail
  <2>3. group' = group /\ count' = count /\ failures' \in Nat
    BY <1>0, <1>2 DEF GCStart, GCDone, GCFail
  <2>4. UNCHANGED <<hash, now, owed, read>>
    BY <1>2 DEF GCStart, GCDone, GCFail
  <2>5. SwarmsListed'
    BY <2>3, <2>4 DEF IInv, SwarmsListed, Fields
  <2>6. QED
    BY <1>0, <2>1, <2>2, <2>3, <2>4, <2>5, CollectInv, Zenon
<1>3. CASE GCKeys(g)
  <2> DEFINE q == [gc[g] EXCEPT !.pc = "next", !.todo = group]
  <2>1. q \in Collector /\ q.pc = "next"
    BY <1>0, Zenon DEF Collector
  <2>2. gc' = [gc EXCEPT ![g] = q] /\ dirty' = [dirty EXCEPT ![g] = FALSE]
    BY <1>0, <1>3 DEF GCKeys
  <2>3. UNCHANGED <<hash, now, owed, read, group, count, failures>>
    BY <1>3 DEF GCKeys
  <2>4. SwarmsListed'
    BY <2>3 DEF IInv, SwarmsListed, Fields
  <2> HIDE DEF q
  <2>5. QED
    BY <1>0, <2>1, <2>2, <2>3, <2>4, CollectInv, Zenon
<1>4. ASSUME NEW k \in Key, GCRead(g, k)
      PROVE  IInv'
  <2> DEFINE q == [gc[g] EXCEPT !.pc = "delete", !.todo = @ \ {k}, !.key = k,
                                !.stale = Stale(g, k)]
  <2>1. Stale(g, k) \in SUBSET Peer
    BY DEF Stale, Fields
  <2>2. q \in Collector /\ q.pc = "delete" /\ q.key = k
    BY <1>0, <2>1, Zenon DEF Collector
  <2>3. gc' = [gc EXCEPT ![g] = q] /\ dirty' = [dirty EXCEPT ![g] = FALSE]
    BY <1>0, <1>4, Zenon DEF GCRead
  <2>4. UNCHANGED <<hash, now, owed, read, group, count, failures>>
    BY <1>4, Zenon DEF GCRead
  <2>5. SwarmsListed'
    BY <2>4 DEF IInv, SwarmsListed, Fields
  <2> HIDE DEF q
  <2>6. QED
    BY <1>0, <2>2, <2>3, <2>4, <2>5, CollectInv, Zenon
<1>5. CASE GCDecrBy(g) \/ GCWatch(g)
  <2>1. PICK q \in Collector : /\ q.pc \in {"delete", "hlen"}
                               /\ q.key = gc[g].key
                               /\ gc' = [gc EXCEPT ![g] = q]
    <3>1. /\ [gc[g] EXCEPT !.removed = 0] \in Collector
          /\ [gc[g] EXCEPT !.pc = "hlen"] \in Collector
      BY <1>0 DEF Collector
    <3>2. /\ [gc[g] EXCEPT !.removed = 0].pc = gc[g].pc
          /\ [gc[g] EXCEPT !.removed = 0].key = gc[g].key
          /\ [gc[g] EXCEPT !.pc = "hlen"].pc = "hlen"
          /\ [gc[g] EXCEPT !.pc = "hlen"].key = gc[g].key
      BY <1>0 DEF Collector
    <3>3. QED
      BY <1>5, <3>1, <3>2, Zenon DEF GCDecrBy, GCWatch
  <2>2. dirty' = [dirty EXCEPT ![g] = FALSE] /\ gc[g].key \in Key
    BY <1>0, <1>5 DEF GCDecrBy, GCWatch, IInv, AtKey
  <2>3. gc[g].removed \in Nat /\ gc[g].key[1] \in Counter
    BY <1>0, <2>2 DEF Collector, Key, Counter
  <2>4. count' \in [Counter -> Int]
    BY <1>0, <1>5, <2>3 DEF GCDecrBy, GCWatch
  <2>5. UNCHANGED <<hash, now, owed, read, group, failures>>
    BY <1>5 DEF GCDecrBy, GCWatch
  <2>6. SwarmsListed'
    BY <2>5 DEF IInv, SwarmsListed, Fields
  <2>7. QED
    BY <1>0, <2>1, <2>2, <2>4, <2>5, <2>6, CollectInv, Zenon
<1>6. CASE GCLen(g)
  <2>1. gc[g].key \in Key
    BY <1>6 DEF GCLen, IInv, AtKey
  <2>2. UNCHANGED <<hash, now, owed, read, group, count, failures>>
    BY <1>6 DEF GCLen
  <2>3. SwarmsListed'
    BY <2>2 DEF IInv, SwarmsListed, Fields
  <2>4. CASE Fields(hash, gc[g].key) = {}
    <3> DEFINE q == [gc[g] EXCEPT !.pc = "exec"]
    <3>1. q \in Collector /\ q.pc = "exec" /\ q.key = gc[g].key
      BY <1>0 DEF Collector
    <3>2. gc' = [gc EXCEPT ![g] = q] /\ dirty' = [dirty EXCEPT ![g] = dirty[g]]
      BY <1>0, <1>6, <2>4 DEF GCLen
    <3> HIDE DEF q
    <3>3. QED
      BY <1>0, <2>1, <2>2, <2>3, <2>4, <3>1, <3>2, CollectInv, Zenon
  <2>5. CASE Fields(hash, gc[g].key) # {}
    <3>1. NextKey(g) \in Collector /\ NextKey(g).pc = "next"
      BY <1>0, Zenon DEF NextKey, Collector
    <3>2. gc' = [gc EXCEPT ![g] = NextKey(g)] /\ dirty' = [dirty EXCEPT ![g] = FALSE]
      BY <1>6, <2>5 DEF GCLen
    <3>3. QED
      BY <1>0, <2>2, <2>3, <3>1, <3>2, CollectInv, Zenon
  <2>6. QED
    BY <2>4, <2>5
<1>7. QED
  BY <1>2, <1>3, <1>4, <1>5, <1>6

\* The HDEL of a collection keeps the invariant.
LEMMA GCDeleteInv ==
    ASSUME IInv, NEW g \in Instance, NEW p \in Peer, GCDelete(g, p)
    PROVE  IInv'
<1> DEFINE e == <<gc[g].key, p>>
           h == [hash EXCEPT ![e] = Absent]
<1>0. /\ gc \in [Instance -> Collector] /\ gc[g] \in Collector
      /\ gc[g].pc = "delete" /\ gc[g].key \in Key /\ e \in Entry
  BY DEF GCDelete, IInv, TypeOK, AtKey, Entry
<1>1. PICK d \in Collector : /\ d.pc = gc[g].pc /\ d.key = gc[g].key
                             /\ gc' = [gc EXCEPT ![g] = d]
  <2>1. /\ [gc[g] EXCEPT !.stale = @ \ {p}] \in Collector
        /\ [gc[g] EXCEPT !.stale = @ \ {p}, !.removed = @ + 1] \in Collector
    <3>1. gc[g].removed \in Nat /\ gc[g].stale \ {p} \in SUBSET Peer
      BY <1>0 DEF Collector
    <3>2. gc[g].removed + 1 \in Nat
      BY <3>1
    <3>3. QED
      BY <1>0, <3>1, <3>2, Zenon DEF Collector
  <2>2. /\ [gc[g] EXCEPT !.stale = @ \ {p}].pc = gc[g].pc
        /\ [gc[g] EXCEPT !.stale = @ \ {p}].key = gc[g].key
        /\ [gc[g] EXCEPT !.stale = @ \ {p}, !.removed = @ + 1].pc = gc[g].pc
        /\ [gc[g] EXCEPT !.stale = @ \ {p}, !.removed = @ + 1].key = gc[g].key
    BY <1>0 DEF Collector
  <2>3. QED
    BY <2>1, <2>2, Zenon DEF GCDelete
<1>2. /\ gc' \in [Instance -> Collector]
      /\ \A i \in Instance : gc'[i].pc = gc[i].pc /\ gc'[i].key = gc[i].key
  BY <1>0, <1>1
<1>3. UNCHANGED <<group, count, now, owed, failures>>
  BY DEF GCDelete
<1>4. AtKey'
  BY <1>2 DEF IInv, AtKey
<1>5. CASE hash[e] = Absent
  <2>1. UNCHANGED <<hash, dirty, read>>
    BY <1>5 DEF GCDelete
  <2>2. TypeOK'
    BY <1>2, <1>3, <2>1 DEF IInv, TypeOK
  <2>3. SwarmsListed' /\ ExecSafe'
    BY <1>2, <1>3, <2>1, Zenon DEF IInv, SwarmsListed, ExecSafe, Fields
  <2>4. QED
    BY <1>4, <2>2, <2>3 DEF IInv
<1>6. CASE hash[e] # Absent
  <2>1. Store(h, {gc[g].key})
    BY <1>6 DEF GCDelete
  <2>2. h \in HashMap
    BY <1>0 DEF IInv, TypeOK, HashMap
  <2>3. \A f \in Entry : f[1] \notin {gc[g].key} => h[f] = hash[f]
    BY DEF IInv, TypeOK
  <2>4. \A j \in Key : \A q \in Peer :
            h[<<j, q>>] # Absent => hash[<<j, q>>] # Absent \/ j \in group'
    BY DEF IInv, TypeOK, Entry
  <2> HIDE DEF h
  <2>5. /\ hash' \in HashMap /\ dirty' \in [Instance -> BOOLEAN]
        /\ read' \in [Reader -> Read]
        /\ \A i \in Instance : dirty'[i] => gc[i].pc \in {"hlen", "exec"}
    BY <2>1, <2>2, StoreType DEF IInv
  <2>6. TypeOK'
    BY <1>2, <1>3, <2>5 DEF IInv, TypeOK, HashMap
  <2>7. ExecSafe'
    BY <1>0, <1>2, <2>1, <2>2, <2>3, StoreExecSafe
  <2>8. SwarmsListed'
    BY <1>3, <2>1, <2>2, <2>4, StoreListed DEF IInv
  <2>9. QED
    BY <1>4, <2>6, <2>7, <2>8 DEF IInv
<1>7. QED
  BY <1>5, <1>6

\* The WATCH block keeps the invariant: it unlists a key only if the hash was
\* empty at the HLEN and has not changed since.
LEMMA GCExecInv ==
    ASSUME IInv, NEW g \in Instance, GCExec(g)
    PROVE  IInv'
<1>0. /\ gc[g] \in Collector /\ dirty[g] \in BOOLEAN
      /\ group \in SUBSET Key /\ count \in [Counter -> Int] /\ failures \in Nat
  BY DEF IInv, TypeOK
<1>1. NextKey(g) \in Collector /\ NextKey(g).pc = "next"
  BY <1>0, Zenon DEF NextKey, Collector
<1>2. /\ gc' = [gc EXCEPT ![g] = NextKey(g)] /\ dirty' = [dirty EXCEPT ![g] = FALSE]
      /\ UNCHANGED <<hash, now, owed, read, failures>>
  BY DEF GCExec
<1>3. group' \in SUBSET Key /\ count' \in [Counter -> Int]
  BY <1>0 DEF GCExec, Counter
<1>4. SwarmsListed'
  <2>1. CASE dirty[g]
    BY <1>2, <2>1 DEF GCExec, IInv, SwarmsListed, Fields
  <2>2. CASE ~dirty[g]
    <3>1. Fields(hash, gc[g].key) = {}
      BY <2>2 DEF GCExec, IInv, ExecSafe
    <3>2. group' = group \ {gc[g].key}
      BY <2>2 DEF GCExec
    <3>3. QED
      BY <1>2, <3>1, <3>2, Zenon DEF IInv, SwarmsListed, Fields
  <2>3. QED
    BY <2>1, <2>2
<1>5. QED
  BY <1>0, <1>1, <1>2, <1>3, <1>4, CollectInv, Zenon

-----------------------------------------------------------------------------
\* The steps that touch neither the hashes nor a collector.
LEMMA OtherInv ==
    ASSUME IInv, UNCHANGED <<hash, group, gc, dirty>>, now' \in Nat,
           count' \in [Counter -> Int], failures' \in Nat,
           owed' \in [Caller -> [Counter -> {-1, 0, 1}]],
           read' \in [Reader -> Read]
    PROVE  IInv'
BY DEF IInv, TypeOK, AtKey, SwarmsListed, ExecSafe, Fields

\* A read keeps its type.
LEMMA ReadType ==
    ASSUME IInv, NEW r \in Reader, ReadStep(r)
    PROVE  read' \in [Reader -> Read]
<1>0. read \in [Reader -> Read] /\ read[r] \in Read
  BY DEF IInv, TypeOK
<1>1. ASSUME NEW ih \in InfoHash, ReadFirst(r, ih)
      PROVE  read' \in [Reader -> Read]
  <2>1. [pc |-> "second", ih |-> ih, got |-> Fields(hash, ReadOrder(ih)[1]),
         sure |-> Swarm(hash, ih)] \in Read
    BY DEF Read, Fields, Swarm
  <2>2. QED
    BY <1>0, <1>1, <2>1 DEF ReadFirst
<1>2. CASE ReadSecond(r)
  <2>1. [read[r] EXCEPT !.pc = "done",
           !.got = @ \cup Fields(hash, ReadOrder(read[r].ih)[2])] \in Read
    <3>1. Fields(hash, ReadOrder(read[r].ih)[2]) \in SUBSET Peer
      BY DEF Fields
    <3>2. QED
      BY <1>0, <3>1, Zenon DEF Read
  <2>2. QED
    BY <1>0, <1>2, <2>1 DEF ReadSecond
<1>3. CASE ReadReturn(r)
  BY <1>0, <1>3 DEF ReadReturn, NoRead, Read
<1>4. QED
  BY <1>1, <1>2, <1>3 DEF ReadStep

\* Every step keeps the invariant.
LEMMA NextInv == IInv /\ [Next]_vars => IInv'
<1> SUFFICES ASSUME IInv, [Next]_vars PROVE IInv'
  OBVIOUS
<1>0. /\ now \in Nat /\ count \in [Counter -> Int] /\ failures \in Nat
      /\ owed \in [Caller -> [Counter -> {-1, 0, 1}]]
      /\ read \in [Reader -> Read]
  BY DEF IInv, TypeOK
<1>1. CASE Tick
  BY <1>0, <1>1, OtherInv DEF Tick
<1>2. ASSUME NEW c \in Caller, Call(c)
      PROVE  IInv'
  <2>1. PICK ih \in InfoHash, p \in Peer :
            \/ PutSeeder(c, ih, p) \/ DeleteSeeder(c, ih, p)
            \/ PutLeecher(c, ih, p) \/ DeleteLeecher(c, ih, p)
            \/ GraduateLeecher(c, ih, p)
    BY <1>2 DEF Call
  <2>2. SeederKey(ih) \in Key /\ LeecherKey(ih) \in Key
    BY KeyType, Zenon
  <2>3. CASE DeleteSeeder(c, ih, p)
    <3>1. owed' \in [Caller -> [Counter -> {-1, 0, 1}]]
      BY <2>3, OweType DEF DeleteSeeder, IInv
    <3>2. QED
      BY <2>2, <2>3, <3>1, DeleteInv, Zenon DEF DeleteSeeder
  <2>4. CASE DeleteLeecher(c, ih, p)
    <3>1. owed' \in [Caller -> [Counter -> {-1, 0, 1}]]
      BY <2>4, OweType DEF DeleteLeecher, IInv
    <3>2. QED
      BY <2>2, <2>4, <3>1, DeleteInv, Zenon DEF DeleteLeecher
  <2>5. QED
    BY <2>1, <2>3, <2>4, PutSeederInv, PutLeecherInv, GraduateInv
<1>3. ASSUME NEW c \in Caller, Adjust(c)
      PROVE  IInv'
  <2>1. PICK x \in Counter : /\ count' = [count EXCEPT ![x] = @ + owed[c][x]]
                             /\ owed' = [owed EXCEPT ![c][x] = 0]
    BY <1>3, Zenon DEF Adjust
  <2>2. owed[c] \in [Counter -> {-1, 0, 1}] /\ owed[c][x] \in Int
    BY <1>0
  <2>3. count' \in [Counter -> Int]
    BY <1>0, <2>1, <2>2
  <2>4. owed' \in [Caller -> [Counter -> {-1, 0, 1}]]
    BY <1>0, <2>1, <2>2
  <2>5. QED
    BY <1>0, <1>3, <2>3, <2>4, OtherInv DEF Adjust
<1>4. ASSUME NEW c \in Caller, Fail(c)
      PROVE  IInv'
  <2>1. owed' \in [Caller -> [Counter -> {-1, 0, 1}]]
    BY <1>0, <1>4 DEF Fail, NoDebt
  <2>2. failures' \in Nat
    BY <1>0, <1>4 DEF Fail
  <2>3. QED
    BY <1>0, <1>4, <2>1, <2>2, OtherInv DEF Fail
<1>5. ASSUME NEW r \in Reader, ReadStep(r)
      PROVE  IInv'
  <2>1. read' \in [Reader -> Read]
    BY <1>5, ReadType
  <2>2. UNCHANGED <<hash, group, count, now, owed, gc, dirty, failures>>
    BY <1>5 DEF ReadStep, ReadFirst, ReadSecond, ReadReturn
  <2>3. QED
    BY <1>0, <2>1, <2>2, OtherInv
<1>6. ASSUME NEW g \in Instance, GCStep(g) \/ GCFail(g)
      PROVE  IInv'
  BY <1>6, QuietCollectInv, GCDeleteInv, GCExecInv DEF GCStep
<1>7. CASE UNCHANGED vars
  BY <1>0, <1>7, OtherInv DEF vars
<1>8. QED
  BY <1>1, <1>2, <1>3, <1>4, <1>5, <1>6, <1>7 DEF Next

\* The initial state satisfies the invariant.
LEMMA InitInv == Init => IInv
<1> SUFFICES ASSUME Init PROVE IInv
  OBVIOUS
<1>1. NoCollection \in Collector /\ NoCollection.pc = "idle"
  BY DEF NoCollection, Collector
<1>2. NoRead \in Read
  BY DEF NoRead, Read
<1>3. TypeOK
  BY <1>1, <1>2 DEF Init, TypeOK, NoDebt
<1>4. AtKey /\ ExecSafe
  BY <1>1 DEF Init, AtKey, ExecSafe
<1>5. SwarmsListed
  BY Zenon DEF Init, SwarmsListed, Fields, Entry
<1>6. QED
  BY <1>3, <1>4, <1>5 DEF IInv

\* The inductive invariant holds always.
THEOREM Invariance == Spec => []IInv
<1>1. Init => IInv
  BY InitInv
<1>2. IInv /\ [Next]_vars => IInv'
  BY NextInv
<1>3. QED
  BY <1>1, <1>2, PTL DEF Spec

\* The state of the store, its callers, readers and collectors always has the
\* shape it is declared with.
THEOREM TypeCorrect == Spec => []TypeOK
<1>1. IInv => TypeOK
  BY DEF IInv
<1>2. QED
  BY <1>1, Invariance, PTL

\* Whatever the number of instances that collect, of callers and of failed
\* connections, a hash with peers is always listed in the family's hash.
THEOREM SwarmsStayListed == Spec => []SwarmsListed
<1>1. IInv => SwarmsListed
  BY DEF IInv
<1>2. QED
  BY <1>1, Invariance, PTL

-----------------------------------------------------------------------------
(***************************************************************************)
(* Reads.  After the first command of a read, a peer that has been in the   *)
(* swarm all the time is among the leechers read or is a seeder now.        *)
(***************************************************************************)
ReadInv ==
    \A r \in Reader :
        /\ read[r].pc = "second" =>
              /\ read[r].ih \in InfoHash
              /\ read[r].sure \subseteq
                    read[r].got \cup Fields(hash, SeederKey(read[r].ih))
        /\ read[r].pc = "done" => read[r].sure \subseteq read[r].got

\* A change of the hashes, whatever it is, keeps that.
LEMMA StoreRead ==
    ASSUME TypeOK, ReadInv, NEW h, NEW K, Store(h, K)
    PROVE  ReadInv'
<1> SUFFICES ASSUME NEW r \in Reader
             PROVE  /\ read'[r].pc = "second" =>
                          /\ read'[r].ih \in InfoHash
                          /\ read'[r].sure \subseteq
                                read'[r].got \cup Fields(h, SeederKey(read'[r].ih))
                    /\ read'[r].pc = "done" => read'[r].sure \subseteq read'[r].got
  BY DEF ReadInv, Store
<1>1. CASE read[r].pc = "second"
  <2>1. read'[r] = [read[r] EXCEPT !.sure = @ \cap Stays(h, read[r].ih)]
    BY <1>1 DEF Store
  <2>2. /\ read'[r].pc = "second" /\ read'[r].ih = read[r].ih
        /\ read'[r].got = read[r].got
        /\ read'[r].sure = read[r].sure \cap Stays(h, read[r].ih)
    BY <1>1, <2>1 DEF TypeOK, Read
  <2>3. QED
    BY <1>1, <2>2 DEF ReadInv, Stays
<1>2. CASE read[r].pc # "second"
  BY <1>2 DEF Store, ReadInv
<1>3. QED
  BY <1>1, <1>2

\* A step changes the hashes by commands, or leaves hashes and reads alone, or
\* is a step of a read.
LEMMA StepKinds ==
    ASSUME [Next]_vars
    PROVE  \/ \E h, K : Store(h, K)
           \/ UNCHANGED <<hash, read>>
           \/ \E r \in Reader : ReadStep(r)
<1>1. ASSUME NEW c \in Caller, Call(c)
      PROVE  \E h, K : Store(h, K)
  BY <1>1, Zenon DEF Call, PutSeeder, PutLeecher, DeleteSeeder, DeleteLeecher, GraduateLeecher
<1>2. ASSUME NEW g \in Instance, GCStep(g)
      PROVE  (\E h, K : Store(h, K)) \/ UNCHANGED <<hash, read>>
  BY <1>2, Zenon DEF GCStep, GCStart, GCKeys, GCRead, GCDelete, GCDecrBy, GCWatch, GCLen,
     GCExec, GCDone
<1>3. QED
  BY <1>1, <1>2 DEF Next, vars, Tick, Adjust, Fail, GCFail

\* A step of a read keeps it.
LEMMA ReadStepInv ==
    ASSUME TypeOK, ReadInv, NEW r \in Reader, ReadStep(r)
    PROVE  ReadInv'
<1>0. read \in [Reader -> Read] /\ read[r] \in Read
  BY DEF TypeOK
<1>1. hash' = hash
  BY DEF ReadStep, ReadFirst, ReadSecond, ReadReturn
<1>2. \A x \in Reader : x # r => read'[x] = read[x]
  BY <1>0 DEF ReadStep, ReadFirst, ReadSecond, ReadReturn
<1> DEFINE Right == /\ read'[r].pc = "second" =>
                          /\ read'[r].ih \in InfoHash
                          /\ read'[r].sure \subseteq
                                read'[r].got \cup Fields(hash, SeederKey(read'[r].ih))
                    /\ read'[r].pc = "done" => read'[r].sure \subseteq read'[r].got
<1>3. Right
  <2>1. ASSUME NEW ih \in InfoHash, ReadFirst(r, ih)
        PROVE  Right
    <3>1. /\ read'[r].pc = "second" /\ read'[r].ih = ih
          /\ read'[r].got = Fields(hash, LeecherKey(ih))
          /\ read'[r].sure = Swarm(hash, ih)
      BY <1>0, <2>1 DEF ReadFirst, ReadOrder
    <3>2. QED
      BY <3>1 DEF Swarm
  <2>2. CASE ReadSecond(r)
    <3>1. /\ read[r].pc = "second" /\ read'[r].pc = "done"
          /\ read'[r].got = read[r].got \cup Fields(hash, SeederKey(read[r].ih))
          /\ read'[r].sure = read[r].sure
      BY <1>0, <2>2 DEF ReadSecond, ReadOrder, Read
    <3>2. QED
      BY <3>1 DEF ReadInv
  <2>3. CASE ReadReturn(r)
    <3>1. read'[r].pc = "idle"
      BY <1>0, <2>3 DEF ReadReturn, NoRead
    <3>2. QED
      BY <3>1
  <2>4. QED
    BY <2>1, <2>2, <2>3 DEF ReadStep
<1>4. QED
  BY <1>1, <1>2, <1>3 DEF ReadInv, Fields

\* However writers, collectors and failures come between the two commands of
\* AnnouncePeers and ScrapeSwarm, a peer that stays in the swarm and does not
\* turn from seeder to leecher is seen.
THEOREM ReadsMissNobody == Spec => []NobodyMissed
<1>1. Init => ReadInv
  BY DEF Init, ReadInv, NoRead
<1>2. IInv /\ ReadInv /\ [Next]_vars => ReadInv'
  <2> SUFFICES ASSUME IInv, ReadInv, [Next]_vars
               PROVE  ReadInv'
    OBVIOUS
  <2>1. TypeOK
    BY DEF IInv
  <2>2. CASE UNCHANGED <<hash, read>>
    BY <2>2 DEF ReadInv, Fields
  <2>3. QED
    BY <2>1, <2>2, StepKinds, StoreRead, ReadStepInv
<1>3. ReadInv => NobodyMissed
  BY DEF ReadInv, NobodyMissed
<1>4. QED
  BY <1>1, <1>2, <1>3, Invariance, PTL DEF Spec

-----------------------------------------------------------------------------
(***************************************************************************)
(* Collections.  A peer that a collection is about to delete was stale when *)
(* its hash was read; if it has been put since, then with a time that is at *)
(* most Lag before the beginning of the collection.                         *)
(***************************************************************************)
Collectable(t, cutoff) ==
    t = Absent \/ t <= cutoff \/ t >= cutoff + PeerLifetime - Lag

Begun(t, q) == q.pc # "idle" => q.cutoff + PeerLifetime <= t

Marked(h, q) ==
    q.pc = "delete" => \A p \in q.stale : Collectable(h[<<q.key, p>>], q.cutoff)

StaleInv == \A g \in Instance : Begun(now, gc[g]) /\ Marked(hash, gc[g])

\* A caller's command keeps that: it leaves, deletes or puts a field.
LEMMA WriteStale ==
    ASSUME IInv, StaleInv, hash' \in HashMap, UNCHANGED <<gc, now>>,
           \A e \in Entry : \/ hash'[e] = hash[e] \/ hash'[e] = Absent
                            \/ hash'[e] >= now - Lag
    PROVE  StaleInv'
<1> SUFFICES ASSUME NEW g \in Instance, gc[g].pc = "delete", NEW p \in gc[g].stale
             PROVE  Collectable(hash'[<<gc[g].key, p>>], gc[g].cutoff)
  BY DEF StaleInv, Begun, Marked
<1>1. /\ gc[g].key \in Key /\ p \in Peer /\ gc[g].cutoff \in Int
      /\ now \in Int /\ PeerLifetime \in Int /\ Lag \in Int
  BY RedisAssumption DEF IInv, TypeOK, AtKey, Collector
<1>2. <<gc[g].key, p>> \in Entry
  BY <1>1 DEF Entry
<1>3. gc[g].cutoff + PeerLifetime <= now
  BY DEF StaleInv, Begun
<1>4. Collectable(hash[<<gc[g].key, p>>], gc[g].cutoff)
  BY DEF StaleInv, Marked
<1>5. CASE hash'[<<gc[g].key, p>>] = Absent
  BY <1>5 DEF Collectable
<1>6. CASE hash'[<<gc[g].key, p>>] = hash[<<gc[g].key, p>>]
  BY <1>4, <1>6
<1>7. CASE hash'[<<gc[g].key, p>>] # Absent /\ hash'[<<gc[g].key, p>>] >= now - Lag
  <2>1. hash'[<<gc[g].key, p>>] \in Int
    BY <1>2, <1>7 DEF HashMap
  <2>2. QED
    BY <1>1, <1>3, <1>7, <2>1 DEF Collectable
<1>8. QED
  BY <1>2, <1>5, <1>6, <1>7

\* A step in which collector g goes to state q keeps it, if q has it and no
\* field is put.
LEMMA CollectStale ==
    ASSUME IInv, StaleInv, NEW g \in Instance, NEW q,
           gc' = [gc EXCEPT ![g] = q], Begun(now, q), Marked(hash, q), now' = now,
           q.pc = "delete" => q.key \in Key /\ q.stale \subseteq Peer,
           \A e \in Entry : hash'[e] = hash[e] \/ hash'[e] = Absent
    PROVE  StaleInv'
<1> SUFFICES ASSUME NEW i \in Instance
             PROVE  Begun(now', gc'[i]) /\ Marked(hash', gc'[i])
  BY DEF StaleInv, Begun, Marked
<1>1. Begun(now', gc'[i])
  BY DEF IInv, TypeOK, StaleInv, Begun
<1>2. Marked(hash, gc'[i])
  BY DEF IInv, TypeOK, StaleInv
<1>3. gc'[i].pc = "delete" => gc'[i].key \in Key /\ gc'[i].stale \subseteq Peer
  BY DEF IInv, TypeOK, AtKey, Collector
<1>4. ASSUME gc'[i].pc = "delete", NEW p \in gc'[i].stale
      PROVE  Collectable(hash'[<<gc'[i].key, p>>], gc'[i].cutoff)
  <2>1. <<gc'[i].key, p>> \in Entry
    BY <1>3, <1>4 DEF Entry
  <2>2. Collectable(hash[<<gc'[i].key, p>>], gc'[i].cutoff)
    BY <1>2, <1>4 DEF Marked
  <2>3. QED
    BY <2>1, <2>2 DEF Collectable
<1>5. QED
  BY <1>1, <1>4 DEF Marked

\* The state of a collector after HDEL.
LEMMA DeleteState ==
    ASSUME IInv, NEW g \in Instance, NEW p \in Peer, GCDelete(g, p)
    PROVE  \E q \in Collector :
              /\ gc' = [gc EXCEPT ![g] = q] /\ q.pc = "delete" /\ q.key = gc[g].key
              /\ q.cutoff = gc[g].cutoff /\ q.stale \subseteq gc[g].stale
<1> DEFINE a == [gc[g] EXCEPT !.stale = @ \ {p}]
           b == [gc[g] EXCEPT !.stale = @ \ {p}, !.removed = @ + 1]
<1>1. gc[g] \in Collector
  BY DEF IInv, TypeOK
<1>2. /\ a \in Collector /\ a.pc = gc[g].pc /\ a.key = gc[g].key
      /\ a.cutoff = gc[g].cutoff /\ a.stale = gc[g].stale \ {p}
  BY <1>1 DEF Collector
<1>3. /\ b \in Collector /\ b.pc = gc[g].pc /\ b.key = gc[g].key
      /\ b.cutoff = gc[g].cutoff /\ b.stale = gc[g].stale \ {p}
  <2>1. gc[g].removed + 1 \in Nat
    BY <1>1 DEF Collector
  <2>2. QED
    BY <1>1, <2>1, Zenon DEF Collector
<1>4. gc[g].pc = "delete" /\ \E q \in {a, b} : gc' = [gc EXCEPT ![g] = q]
  BY DEF GCDelete
<1> HIDE DEF a, b
<1>5. QED
  BY <1>2, <1>3, <1>4, Zenon

\* The state of a collector after a step that reads and deletes no peers.
LEMMA RestState ==
    ASSUME IInv, NEW g \in Instance,
           GCKeys(g) \/ GCDecrBy(g) \/ GCWatch(g) \/ GCLen(g) \/ GCExec(g)
    PROVE  \E q \in Collector :
              /\ gc' = [gc EXCEPT ![g] = q]
              /\ q.pc = "delete" => gc[g].pc = "delete" /\ q.key = gc[g].key
              /\ q.cutoff = gc[g].cutoff /\ q.stale = gc[g].stale
<1> DEFINE a == [gc[g] EXCEPT !.pc = "next", !.todo = group]
           b == [gc[g] EXCEPT !.removed = 0]
           c == [gc[g] EXCEPT !.pc = "hlen"]
           d == [gc[g] EXCEPT !.pc = "exec"]
           f == NextKey(g)
<1>1. gc[g] \in Collector /\ group \in SUBSET Key
  BY DEF IInv, TypeOK
<1>2. /\ a \in Collector /\ a.pc = "next" /\ a.cutoff = gc[g].cutoff
      /\ a.stale = gc[g].stale
  BY <1>1, Zenon DEF Collector
<1>3. /\ b \in Collector /\ b.pc = gc[g].pc /\ b.cutoff = gc[g].cutoff
      /\ b.stale = gc[g].stale /\ b.key = gc[g].key
  BY <1>1 DEF Collector
<1>4. /\ c \in Collector /\ c.pc = "hlen" /\ c.cutoff = gc[g].cutoff
      /\ c.stale = gc[g].stale
      /\ d \in Collector /\ d.pc = "exec" /\ d.cutoff = gc[g].cutoff
      /\ d.stale = gc[g].stale
  BY <1>1 DEF Collector
<1>5. /\ f \in Collector /\ f.pc = "next" /\ f.cutoff = gc[g].cutoff
      /\ f.stale = gc[g].stale
  BY <1>1, Zenon DEF Collector, NextKey
<1>6. \/ gc' = [gc EXCEPT ![g] = a]
      \/ gc' = [gc EXCEPT ![g] = b] /\ gc[g].pc = "delete"
      \/ gc' = [gc EXCEPT ![g] = c]
      \/ gc' = [gc EXCEPT ![g] = d]
      \/ gc' = [gc EXCEPT ![g] = f]
  BY DEF GCKeys, GCDecrBy, GCWatch, GCLen, GCExec
<1> HIDE DEF a, b, c, d, f
<1>7. QED
  BY <1>2, <1>3, <1>4, <1>5, <1>6

\* Every step of a collector keeps it.
LEMMA GCStale ==
    ASSUME IInv, StaleInv, NEW g \in Instance, GCStep(g) \/ GCFail(g)
    PROVE  StaleInv'
<1>0. /\ gc[g] \in Collector /\ hash \in HashMap /\ now \in Nat /\ now' = now
      /\ PeerLifetime \in Nat /\ Begun(now, gc[g]) /\ Marked(hash, gc[g])
      /\ gc[g].pc \in {"delete", "hlen", "exec"} => gc[g].key \in Key
  BY RedisAssumption, Zenon DEF IInv, TypeOK, AtKey, HashMap, StaleInv, GCStep, GCFail,
     GCStart, GCKeys, GCRead, GCDelete, GCDecrBy, GCWatch, GCLen, GCExec, GCDone
<1>1. CASE GCStart(g)
  <2> DEFINE q == [NoCollection EXCEPT !.pc = "keys", !.cutoff = now - PeerLifetime]
  <2>1. q.pc = "keys" /\ q.cutoff = now - PeerLifetime
    BY DEF NoCollection
  <2>2. gc' = [gc EXCEPT ![g] = q] /\ hash' = hash
    BY <1>1 DEF GCStart
  <2> HIDE DEF q
  <2>3. Begun(now, q) /\ Marked(hash, q)
    BY <1>0, <2>1 DEF Begun, Marked
  <2>4. QED
    BY <1>0, <2>1, <2>2, <2>3, CollectStale, Zenon
<1>2. CASE GCDone(g) \/ GCFail(g)
  <2>1. NoCollection.pc = "idle" /\ gc' = [gc EXCEPT ![g] = NoCollection] /\ hash' = hash
    BY <1>2 DEF NoCollection, GCDone, GCFail
  <2>2. QED
    BY <1>0, <2>1, CollectStale, Zenon DEF Begun, Marked
<1>3. ASSUME NEW k \in Key, GCRead(g, k)
      PROVE  StaleInv'
  <2> DEFINE q == [gc[g] EXCEPT !.pc = "delete", !.todo = @ \ {k}, !.key = k,
                                !.stale = Stale(g, k)]
  <2>1. /\ q.pc = "delete" /\ q.key = k /\ q.stale = Stale(g, k)
        /\ q.cutoff = gc[g].cutoff /\ Stale(g, k) \subseteq Peer
    BY <1>0 DEF Collector, Stale, Fields
  <2>2. gc' = [gc EXCEPT ![g] = q] /\ hash' = hash /\ gc[g].pc # "idle"
    BY <1>3 DEF GCRead
  <2> HIDE DEF q
  <2>3. Begun(now, q)
    BY <1>0, <2>1, <2>2 DEF Begun
  <2>4. Marked(hash, q)
    BY <2>1 DEF Marked, Collectable, Stale
  <2>5. QED
    BY <1>0, <2>1, <2>2, <2>3, <2>4, CollectStale, Zenon
<1>4. ASSUME NEW p \in Peer, GCDelete(g, p)
      PROVE  StaleInv'
  <2>1. PICK q \in Collector :
            /\ gc' = [gc EXCEPT ![g] = q] /\ q.pc = "delete" /\ q.key = gc[g].key
            /\ q.cutoff = gc[g].cutoff /\ q.stale \subseteq gc[g].stale
    BY <1>4, DeleteState
  <2>2. \A e \in Entry : hash'[e] = hash[e] \/ hash'[e] = Absent
    BY <1>0, <1>4 DEF GCDelete, Store, HashMap
  <2>3. Begun(now, q) /\ Marked(hash, q) /\ q.key \in Key /\ q.stale \subseteq Peer
    BY <1>0, <1>4, <2>1 DEF Begun, Marked, GCDelete, Collector
  <2>4. QED
    BY <1>0, <2>1, <2>2, <2>3, CollectStale, Zenon
<1>5. CASE GCKeys(g) \/ GCDecrBy(g) \/ GCWatch(g) \/ GCLen(g) \/ GCExec(g)
  <2>1. PICK q \in Collector :
            /\ gc' = [gc EXCEPT ![g] = q]
            /\ q.pc = "delete" => gc[g].pc = "delete" /\ q.key = gc[g].key
            /\ q.cutoff = gc[g].cutoff /\ q.stale = gc[g].stale
    BY <1>5, RestState
  <2>2. hash' = hash /\ gc[g].pc # "idle"
    BY <1>5 DEF GCKeys, GCDecrBy, GCWatch, GCLen, GCExec
  <2>3. /\ Begun(now, q) /\ Marked(hash, q)
        /\ q.pc = "delete" => q.key \in Key /\ q.stale \subseteq Peer
    BY <1>0, <2>1, <2>2 DEF Begun, Marked, Collector
  <2>4. QED
    BY <1>0, <2>1, <2>2, <2>3, CollectStale, Zenon
<1>6. QED
  BY <1>1, <1>2, <1>3, <1>4, <1>5 DEF GCStep

\* What a caller's command does to the hashes.
LEMMA CallWrites ==
    ASSUME IInv, NEW c \in Caller, Call(c)
    PROVE  /\ UNCHANGED <<gc, now>>
           /\ \A e \in Entry : \/ hash'[e] = hash[e] \/ hash'[e] = Absent
                               \/ hash'[e] >= now - Lag
<1>1. PICK ih \in InfoHash, p \in Peer :
          \/ PutSeeder(c, ih, p) \/ DeleteSeeder(c, ih, p)
          \/ PutLeecher(c, ih, p) \/ DeleteLeecher(c, ih, p)
          \/ GraduateLeecher(c, ih, p)
  BY DEF Call
<1>2. hash \in [Entry -> Int \cup {Absent}] /\ now \in Int /\ Lag \in Int
  BY RedisAssumption DEF IInv, TypeOK
<1>3. \A t \in PutTime : t \in Int /\ t >= now - Lag
  BY <1>2 DEF PutTime
<1>4. UNCHANGED <<gc, now>>
  BY <1>1 DEF PutSeeder, DeleteSeeder, PutLeecher, DeleteLeecher, GraduateLeecher
<1>5. CASE PutSeeder(c, ih, p) \/ PutLeecher(c, ih, p)
  BY <1>2, <1>3, <1>4, <1>5, Zenon DEF PutSeeder, PutLeecher, Store
<1>6. CASE DeleteSeeder(c, ih, p) \/ DeleteLeecher(c, ih, p)
  BY <1>2, <1>4, <1>6 DEF DeleteSeeder, DeleteLeecher, Store
<1>7. CASE GraduateLeecher(c, ih, p)
  BY <1>2, <1>3, <1>4, <1>7 DEF GraduateLeecher, Store
<1>8. QED
  BY <1>1, <1>5, <1>6, <1>7

\* Every step keeps the invariant about collections.
LEMMA StaleNext == IInv /\ IInv' /\ StaleInv /\ [Next]_vars => StaleInv'
<1> SUFFICES ASSUME IInv, IInv', StaleInv, [Next]_vars
             PROVE  StaleInv'
  OBVIOUS
<1>0. hash' \in HashMap /\ now \in Nat
  BY DEF IInv, TypeOK, HashMap
<1>1. ASSUME NEW c \in Caller, Call(c)
      PROVE  StaleInv'
  BY <1>0, <1>1, CallWrites, WriteStale
<1>2. CASE UNCHANGED <<hash, gc>> /\ now' \in {now, now + 1}
  <2>1. \A g \in Instance : gc[g].cutoff \in Int /\ PeerLifetime \in Int
    BY RedisAssumption DEF IInv, TypeOK, Collector
  <2>2. QED
    BY <1>0, <1>2, <2>1 DEF StaleInv, Begun, Marked
<1>3. QED
  BY <1>1, <1>2, GCStale, Zenon DEF Next, vars, Tick, Adjust, Fail, ReadStep, ReadFirst,
     ReadSecond, ReadReturn

\* It is an invariant.
LEMMA StaleKept == Spec => []StaleInv
<1>1. Init => StaleInv
  BY DEF Init, StaleInv, NoCollection, Begun, Marked
<1>2. IInv /\ IInv' /\ StaleInv /\ [Next]_vars => StaleInv'
  BY StaleNext
<1>3. QED
  BY <1>1, <1>2, Invariance, PTL DEF Spec

\* However many callers, instances and failures there are, a collection leaves
\* a peer alone that was fresh when it began and has not announced since
\* (collectGarbage).
THEOREM FreshPeersKept == Spec => CollectsOnlyStale
<1> DEFINE Right == \A g \in Instance : \A e \in Entry :
                       gc'[g] # gc[g] /\ hash[e] # Absent /\ hash'[e] = Absent
                          => \/ hash[e] <= gc[g].cutoff
                             \/ hash[e] >= gc[g].cutoff + PeerLifetime - Lag
<1>1. IInv /\ StaleInv /\ [Next]_vars => [Right]_vars
  <2> SUFFICES ASSUME IInv, StaleInv, Next, NEW g \in Instance, NEW e \in Entry,
                      gc'[g] # gc[g], hash[e] # Absent, hash'[e] = Absent
               PROVE  \/ hash[e] <= gc[g].cutoff
                      \/ hash[e] >= gc[g].cutoff + PeerLifetime - Lag
    OBVIOUS
  <2>1. PICK i \in Instance : GCStep(i)
    <3>1. ASSUME NEW c \in Caller, Call(c)
          PROVE  gc' = gc
      BY <3>1, CallWrites
    <3>2. QED
      BY <3>1, Zenon DEF Next, Tick, Adjust, Fail, ReadStep, ReadFirst, ReadSecond,
         ReadReturn, GCFail
  <2>2. PICK p \in Peer : GCDelete(i, p)
    BY <2>1, Zenon DEF GCStep, GCStart, GCKeys, GCRead, GCDecrBy, GCWatch, GCLen, GCExec, GCDone
  <2>3. i = g
    BY <2>2 DEF GCDelete, IInv, TypeOK
  <2>4. gc[g].pc = "delete" /\ p \in gc[g].stale
    BY <2>2, <2>3 DEF GCDelete
  <2>5. e = <<gc[g].key, p>>
    BY <2>2, <2>3 DEF GCDelete, Store, IInv, TypeOK
  <2>6. Collectable(hash[<<gc[g].key, p>>], gc[g].cutoff)
    BY <2>4 DEF StaleInv, Marked
  <2>7. QED
    BY <2>5, <2>6 DEF Collectable
<1>2. QED
  BY <1>1, Invariance, StaleKept, PTL DEF Spec, CollectsOnlyStale

-----------------------------------------------------------------------------
(***************************************************************************)
(* Counters.  Each of the sets whose sizes CountersSettle compares changes  *)
(* in a step by what happens to one caller, one collector, one entry or one *)
(* key.                                                                     *)
(***************************************************************************)
\* Two sets that differ in x at most.
LEMMA SameBut ==
    ASSUME NEW S, NEW T, NEW x, IsFiniteSet(S), IsFiniteSet(T), S \ {x} = T \ {x}
    PROVE  Cardinality(T) = Cardinality(S) + If(x \in T, 1) - If(x \in S, 1)
<1>1. Cardinality(S) \in Nat /\ Cardinality(T) \in Nat
  BY FS_CardinalityType
<1>2. /\ Cardinality(S \ {x}) = IF x \in S THEN Cardinality(S) - 1 ELSE Cardinality(S)
      /\ Cardinality(T \ {x}) = IF x \in T THEN Cardinality(T) - 1 ELSE Cardinality(T)
  BY FS_RemoveElement
<1>3. Cardinality(S \ {x}) = Cardinality(T \ {x})
  OBVIOUS
<1>4. QED
  BY <1>1, <1>2, <1>3 DEF If

\* There are finitely many keys and entries.
LEMMA KeysFinite == IsFiniteSet(Key) /\ IsFiniteSet(Entry)
<1>1. IsFiniteSet({"S", "L"})
  <2>1. IsFiniteSet({"S"}) /\ {"S", "L"} = {"S"} \cup {"L"}
    BY FS_Singleton, Zenon
  <2>2. QED
    BY <2>1, FS_AddElement
<1>2. IsFiniteSet(Key)
  BY <1>1, RedisAssumption, FS_Product DEF Key
<1>3. QED
  BY <1>2, RedisAssumption, FS_Product DEF Entry

\* What is counted is finite, before a step and after it.
LEMMA CountedFinite ==
    ASSUME TypeOK, NEW x \in Counter
    PROVE  /\ IsFiniteSet(Counted(x)) /\ Cardinality(Counted(x)) \in Nat
           /\ TypeOK' => IsFiniteSet(Counted(x)')
<1>1. Counted(x) \in SUBSET Key \/ Counted(x) \in SUBSET Entry
  BY DEF Counted, TypeOK
<1>2. TypeOK' => Counted(x)' \in SUBSET Key \/ Counted(x)' \in SUBSET Entry
  BY DEF Counted, TypeOK
<1>3. QED
  BY <1>1, <1>2, KeysFinite, FS_Subset, FS_CardinalityType

\* The callers that owe an update are finitely many.
LEMMA UnsentFinite ==
    ASSUME NEW x \in Counter, NEW n
    PROVE  /\ IsFiniteSet(Unsent(x, n)) /\ Cardinality(Unsent(x, n)) \in Nat
           /\ IsFiniteSet(Unsent(x, n)') /\ Cardinality(Unsent(x, n)') \in Nat
<1>1. Unsent(x, n) \in SUBSET Caller /\ Unsent(x, n)' \in SUBSET Caller
  BY DEF Unsent
<1>2. QED
  BY <1>1, RedisAssumption, FS_Subset, FS_CardinalityType

\* The updates that callers have still to send add up to this.
Debt(x) == Cardinality(Unsent(x, 1)) - Cardinality(Unsent(x, -1))

\* When one caller's debt changes, so does the sum.
LEMMA DebtChange ==
    ASSUME TypeOK, TypeOK', NEW x \in Counter, NEW c \in Caller,
           \A d \in Caller \ {c} : owed'[d] = owed[d]
    PROVE  Debt(x)' = Debt(x) + owed'[c][x] - owed[c][x]
<1>1. ASSUME NEW n \in {-1, 1}
      PROVE  Cardinality(Unsent(x, n))' = Cardinality(Unsent(x, n))
                + If(owed'[c][x] = n, 1) - If(owed[c][x] = n, 1)
  <2>1. Unsent(x, n) \ {c} = Unsent(x, n)' \ {c}
    BY DEF Unsent
  <2>2. IsFiniteSet(Unsent(x, n)) /\ IsFiniteSet(Unsent(x, n)')
    BY UnsentFinite
  <2>3. /\ c \in Unsent(x, n) <=> owed[c][x] = n
        /\ c \in Unsent(x, n)' <=> owed'[c][x] = n
    BY DEF Unsent
  <2>4. Cardinality(Unsent(x, n)') = Cardinality(Unsent(x, n))
           + If(c \in Unsent(x, n)', 1) - If(c \in Unsent(x, n), 1)
    BY <2>1, <2>2, SameBut
  <2>5. QED
    BY <2>3, <2>4 DEF If
<1>2. owed[c][x] \in {-1, 0, 1} /\ owed'[c][x] \in {-1, 0, 1}
  BY DEF TypeOK
<1>3. Cardinality(Unsent(x, 1)) \in Nat /\ Cardinality(Unsent(x, -1)) \in Nat
  BY UnsentFinite
<1>4. /\ Cardinality(Unsent(x, 1))' = Cardinality(Unsent(x, 1))
             + If(owed'[c][x] = 1, 1) - If(owed[c][x] = 1, 1)
      /\ Cardinality(Unsent(x, -1))' = Cardinality(Unsent(x, -1))
             + If(owed'[c][x] = -1, 1) - If(owed[c][x] = -1, 1)
  BY <1>1
<1>5. QED
  BY <1>2, <1>3, <1>4 DEF Debt, If

\* When one entry changes, so does the number of its kind.
LEMMA EntryChange ==
    ASSUME TypeOK, TypeOK', NEW x \in {"S", "L"}, NEW e \in Entry, e[1][1] = x,
           \A f \in Entry : f # e /\ f[1][1] = x => hash'[f] = hash[f]
    PROVE  Cardinality(Counted(x))' = Cardinality(Counted(x))
              + If(hash'[e] # Absent, 1) - If(hash[e] # Absent, 1)
<1>1. x \in Counter /\ x # "H"
  BY DEF Counter
<1>2. Counted(x) \ {e} = Counted(x)' \ {e}
  BY <1>1 DEF Counted
<1>3. /\ e \in Counted(x) <=> hash[e] # Absent
      /\ e \in Counted(x)' <=> hash'[e] # Absent
  BY <1>1 DEF Counted
<1>4. IsFiniteSet(Counted(x)) /\ IsFiniteSet(Counted(x)')
  BY <1>1, CountedFinite
<1>5. Cardinality(Counted(x)') = Cardinality(Counted(x))
         + If(e \in Counted(x)', 1) - If(e \in Counted(x), 1)
  BY <1>2, <1>4, SameBut
<1>6. QED
  BY <1>3, <1>5 DEF If

\* When one key is listed or unlisted, so changes the number of infohashes.
LEMMA GroupChange ==
    ASSUME TypeOK, TypeOK', NEW k \in Key, k[1] = "S",
           \A j \in Key : j # k /\ j[1] = "S" => (j \in group' <=> j \in group)
    PROVE  Cardinality(Counted("H"))' = Cardinality(Counted("H"))
              + If(k \in group', 1) - If(k \in group, 1)
<1>1. "H" \in Counter
  BY DEF Counter
<1>2. Counted("H") \ {k} = Counted("H")' \ {k}
  BY DEF Counted, TypeOK
<1>3. (k \in Counted("H") <=> k \in group) /\ (k \in Counted("H")' <=> k \in group')
  BY DEF Counted
<1>4. IsFiniteSet(Counted("H")) /\ IsFiniteSet(Counted("H")')
  BY <1>1, CountedFinite
<1>5. Cardinality(Counted("H")') = Cardinality(Counted("H"))
         + If(k \in Counted("H")', 1) - If(k \in Counted("H"), 1)
  BY <1>2, <1>4, SameBut
<1>6. QED
  BY <1>3, <1>5 DEF If

\* The numbers 1 .. R[g] of every collector g.
Numbered(R) == UNION {{g} \X (1 .. R[g]) : g \in Instance}

\* There are finitely many of them.
LEMMA NumberedFinite ==
    ASSUME NEW R \in [Instance -> Nat]
    PROVE  IsFiniteSet(Numbered(R)) /\ Cardinality(Numbered(R)) \in Nat
<1> DEFINE F == [g \in Instance |-> {g} \X (1 .. R[g])]
<1>1. ASSUME NEW g \in Instance PROVE IsFiniteSet({g} \X (1 .. R[g]))
  <2>1. IsFiniteSet({g})
    BY FS_Singleton
  <2>2. R[g] \in Int
    OBVIOUS
  <2>3. IsFiniteSet(1 .. R[g])
    BY <2>2, FS_Interval
  <2>4. QED
    BY <2>1, <2>3, FS_Product
<1> DEFINE T == {{g} \X (1 .. R[g]) : g \in Instance}
<1>2. IsFiniteSet(T)
  <2>1. F \in Surjection(Instance, T)
    BY Zenon DEF Surjection
  <2> HIDE DEF F, T
  <2>2. QED
    BY <2>1, RedisAssumption, FS_Surjection
<1>3. \A t \in T : IsFiniteSet(t)
  BY <1>1
<1>4. Numbered(R) = UNION T
  BY DEF Numbered
<1> HIDE DEF T
<1>5. QED
  BY <1>2, <1>3, <1>4, FS_UNION, FS_CardinalityType

\* They change with the number of one collector.
LEMMA NumberedChange ==
    ASSUME NEW R \in [Instance -> Nat], NEW Q \in [Instance -> Nat],
           NEW g \in Instance, \A i \in Instance \ {g} : Q[i] = R[i]
    PROVE  Cardinality(Numbered(Q)) = Cardinality(Numbered(R)) + Q[g] - R[g]
<1> DEFINE O == [R EXCEPT ![g] = 0]
<1>1. ASSUME NEW P \in [Instance -> Nat], \A i \in Instance \ {g} : P[i] = R[i]
      PROVE  Cardinality(Numbered(P)) = Cardinality(Numbered(O)) + P[g]
  <2> DEFINE M == {g} \X (1 .. P[g])
  <2>1. Numbered(P) = Numbered(O) \cup M /\ Numbered(O) \cap M = {}
    <3>1. O \in [Instance -> Nat] /\ O[g] = 0 /\ \A i \in Instance \ {g} : O[i] = P[i]
      BY <1>1
    <3> HIDE DEF O
    <3>2. 1 .. O[g] = {}
      BY <3>1
    <3>3. QED
      BY <3>1, <3>2 DEF Numbered
  <2>2. IsFiniteSet(M) /\ Cardinality(M) = P[g]
    <3>1. IsFiniteSet({g}) /\ Cardinality({g}) = 1
      BY FS_Singleton, Zenon
    <3>2. IsFiniteSet(1 .. P[g]) /\ Cardinality(1 .. P[g]) = P[g]
      BY FS_Interval
    <3>3. IsFiniteSet(M) /\ Cardinality(M) = 1 * P[g]
      BY <3>1, <3>2, FS_Product, Zenon
    <3>4. QED
      BY <3>3
  <2>3. IsFiniteSet(Numbered(O)) /\ Cardinality(Numbered(O)) \in Nat
    BY NumberedFinite, Zenon
  <2>4. Cardinality({}) = 0
    BY FS_EmptySet
  <2> HIDE DEF M, O
  <2>5. Cardinality(Numbered(O) \cup M) =
            Cardinality(Numbered(O)) + Cardinality(M) - Cardinality(Numbered(O) \cap M)
    BY <2>2, <2>3, FS_Union
  <2>6. Cardinality(Numbered(P)) = Cardinality(Numbered(O)) + Cardinality(M) - 0
    BY <2>1, <2>4, <2>5, Zenon
  <2>7. P[g] \in Nat
    BY <1>1
  <2>8. QED
    BY <2>2, <2>3, <2>6, <2>7
<1>2. Cardinality(Numbered(O)) \in Nat
  BY NumberedFinite, Zenon
<1> HIDE DEF O
<1>3. /\ Cardinality(Numbered(R)) = Cardinality(Numbered(O)) + R[g]
      /\ Cardinality(Numbered(Q)) = Cardinality(Numbered(O)) + Q[g]
  BY <1>1
<1>4. QED
  BY <1>2, <1>3

\* When one collector goes on, so do the deletions that it has to take off.
LEMMA RemovalsChange ==
    ASSUME TypeOK, TypeOK', NEW x \in Counter, NEW g \in Instance,
           \A i \in Instance \ {g} : gc'[i] = gc[i]
    PROVE  Cardinality(Removals(x))'
              = Cardinality(Removals(x)) + Removed(g, x)' - Removed(g, x)
<1> DEFINE R == [i \in Instance |-> Removed(i, x)]
           Q == [i \in Instance |-> Removed(i, x)']
<1>1. R \in [Instance -> Nat] /\ Q \in [Instance -> Nat]
  BY DEF TypeOK, Collector, Removed
<1>2. \A i \in Instance \ {g} : Q[i] = R[i]
  BY DEF Removed
<1>3. Removals(x) = Numbered(R) /\ Removals(x)' = Numbered(Q)
  BY DEF Removals, Numbered
<1>4. R[g] = Removed(g, x) /\ Q[g] = Removed(g, x)'
  OBVIOUS
<1> HIDE DEF R, Q
<1>5. Cardinality(Numbered(Q)) = Cardinality(Numbered(R)) + Q[g] - R[g]
  BY <1>1, <1>2, NumberedChange
<1>6. Cardinality(Removals(x))' = Cardinality(Numbered(Q))
  BY <1>3
<1>7. QED
  BY <1>3, <1>4, <1>5, <1>6

\* What the collectors still hold back from a counter is a number.
LEMMA RemovalsFinite ==
    ASSUME TypeOK, TypeOK', NEW x \in Counter
    PROVE  Cardinality(Removals(x)) \in Nat /\ Cardinality(Removals(x))' \in Nat
<1> DEFINE R == [i \in Instance |-> Removed(i, x)]
           Q == [i \in Instance |-> Removed(i, x)']
<1>1. R \in [Instance -> Nat] /\ Q \in [Instance -> Nat]
  BY DEF TypeOK, Collector, Removed
<1>2. Removals(x) = Numbered(R) /\ Removals(x)' = Numbered(Q)
  BY DEF Removals, Numbered
<1> HIDE DEF R, Q
<1>3. QED
  BY <1>1, <1>2, NumberedFinite

\* A counter stays settled when the four numbers change to match.
LEMMA SettledKept ==
    ASSUME TypeOK, TypeOK', NEW x \in Counter, Settled(x),
           Cardinality(Counted(x))'
             = Cardinality(Counted(x)) + (count'[x] - count[x]) + (Debt(x)' - Debt(x))
               - (Cardinality(Removals(x))' - Cardinality(Removals(x)))
    PROVE  Settled(x)'
<1>1. /\ Cardinality(Unsent(x, 1)) \in Nat /\ Cardinality(Unsent(x, -1)) \in Nat
      /\ Cardinality(Unsent(x, 1))' \in Nat /\ Cardinality(Unsent(x, -1))' \in Nat
  BY UnsentFinite
<1>2. /\ count[x] \in Int /\ count'[x] \in Int
      /\ Cardinality(Counted(x)) \in Nat
      /\ Cardinality(Removals(x)) \in Nat /\ Cardinality(Removals(x))' \in Nat
  BY RemovalsFinite, CountedFinite DEF TypeOK
<1>3. count[x] + Debt(x) - Cardinality(Removals(x)) = Cardinality(Counted(x))
  BY <1>1, <1>2 DEF Settled, Debt
<1>4. Debt(x) \in Int /\ Debt(x)' \in Int
  BY <1>1 DEF Debt
<1>5. count'[x] + Debt(x)' - Cardinality(Removals(x))' = Cardinality(Counted(x))'
  BY <1>2, <1>3, <1>4
<1>6. QED
  BY <1>1, <1>2, <1>5 DEF Settled, Debt

\* A caller's command puts or deletes one entry of a kind and owes that.
LEMMA CallSettles ==
    ASSUME TypeOK, TypeOK', NEW c \in Caller, Free(c), UNCHANGED <<count, gc>>,
           \A d \in Caller \ {c} : owed'[d] = owed[d],
           NEW x \in {"S", "L"}, Settled(x), NEW e \in Entry, e[1][1] = x,
           \A f \in Entry : f # e /\ f[1][1] = x => hash'[f] = hash[f],
           owed'[c][x] = If(hash'[e] # Absent, 1) - If(hash[e] # Absent, 1)
    PROVE  Settled(x)'
<1>1. x \in Counter
  BY DEF Counter
<1>2. owed[c][x] = 0 /\ owed'[c][x] \in Int
  BY <1>1 DEF Free, NoDebt, TypeOK
<1>3. Debt(x)' = Debt(x) + owed'[c][x] - owed[c][x]
  BY <1>1, DebtChange
<1>4. Debt(x) \in Int
  BY <1>1, UnsentFinite DEF Debt
<1>5. Cardinality(Removals(x))' = Cardinality(Removals(x))
  BY DEF Removals, Removed
<1>6. count[x] \in Int /\ Cardinality(Removals(x)) \in Nat /\ Cardinality(Counted(x)) \in Nat
  BY <1>1, RemovalsFinite, CountedFinite DEF TypeOK
<1>7. Cardinality(Counted(x))' = Cardinality(Counted(x))
              + If(hash'[e] # Absent, 1) - If(hash[e] # Absent, 1)
  BY EntryChange
<1>8. Cardinality(Counted(x))'
        = Cardinality(Counted(x)) + (count'[x] - count[x]) + (Debt(x)' - Debt(x))
          - (Cardinality(Removals(x))' - Cardinality(Removals(x)))
  BY <1>2, <1>3, <1>4, <1>5, <1>6, <1>7 DEF If
<1>9. QED
  BY <1>1, <1>8, SettledKept

\* And a key that it lists is owed to the number of infohashes.
LEMMA ListSettles ==
    ASSUME TypeOK, TypeOK', NEW c \in Caller, Free(c), UNCHANGED <<count, gc>>,
           \A d \in Caller \ {c} : owed'[d] = owed[d],
           Settled("H"), NEW k \in Key, k[1] = "S",
           \A j \in Key : j # k /\ j[1] = "S" => (j \in group' <=> j \in group),
           owed'[c]["H"] = If(k \in group', 1) - If(k \in group, 1)
    PROVE  Settled("H")'
<1>1. "H" \in Counter
  BY DEF Counter
<1>2. owed[c]["H"] = 0 /\ owed'[c]["H"] \in Int
  BY <1>1 DEF Free, NoDebt, TypeOK
<1>3. Debt("H")' = Debt("H") + owed'[c]["H"] - owed[c]["H"]
  BY <1>1, DebtChange
<1>4. Debt("H") \in Int
  BY <1>1, UnsentFinite DEF Debt
<1>5. Cardinality(Removals("H"))' = Cardinality(Removals("H"))
  BY DEF Removals, Removed
<1>6. /\ count["H"] \in Int /\ Cardinality(Removals("H")) \in Nat
      /\ Cardinality(Counted("H")) \in Nat
  BY <1>1, RemovalsFinite, CountedFinite DEF TypeOK
<1>7. Cardinality(Counted("H"))' = Cardinality(Counted("H"))
              + If(k \in group', 1) - If(k \in group, 1)
  BY GroupChange
<1>8. Cardinality(Counted("H"))'
        = Cardinality(Counted("H")) + (count'["H"] - count["H"]) + (Debt("H")' - Debt("H"))
          - (Cardinality(Removals("H"))' - Cardinality(Removals("H")))
  BY <1>2, <1>3, <1>4, <1>5, <1>6, <1>7 DEF If
<1>9. QED
  BY <1>1, <1>8, SettledKept

\* One of the five writing methods, for this torrent and peer.
CallFor(c, ih, p) ==
    \/ PutSeeder(c, ih, p) \/ DeleteSeeder(c, ih, p)
    \/ PutLeecher(c, ih, p) \/ DeleteLeecher(c, ih, p)
    \/ GraduateLeecher(c, ih, p)

\* What caller c owes is what it did to the fields s and l, and to the list.
Incurs(c, s, l) ==
    /\ Free(c) /\ UNCHANGED <<count, gc>>
    /\ \A d \in Caller \ {c} : owed'[d] = owed[d]
    /\ \A e \in Entry \ {s, l} : hash'[e] = hash[e]
    /\ \A j \in Key : j # s[1] /\ j[1] = "S" => (j \in group' <=> j \in group)
    /\ owed'[c]["S"] = If(hash'[s] # Absent, 1) - If(hash[s] # Absent, 1)
    /\ owed'[c]["L"] = If(hash'[l] # Absent, 1) - If(hash[l] # Absent, 1)
    /\ owed'[c]["H"] = If(s[1] \in group', 1) - If(s[1] \in group, 1)

\* The writing methods owe what they did.
LEMMA CallOwes ==
    ASSUME IInv, NEW c \in Caller, NEW ih \in InfoHash, NEW p \in Peer, CallFor(c, ih, p),
           NEW s, s = <<SeederKey(ih), p>>, NEW l, l = <<LeecherKey(ih), p>>
    PROVE  Incurs(c, s, l)
<1>1. s \in Entry /\ l \in Entry /\ s # l /\ s[1] = SeederKey(ih) /\ l[1] = LeecherKey(ih)
  BY KeyType DEF SeederKey, LeecherKey
<1>2. LeecherKey(ih) # SeederKey(ih) /\ LeecherKey(ih)[1] = "L"
  BY DEF SeederKey, LeecherKey
<1>3. hash \in [Entry -> Int \cup {Absent}] /\ owed \in [Caller -> [Counter -> {-1, 0, 1}]]
  BY DEF IInv, TypeOK
<1>4. \A t \in PutTime : t # Absent
  BY RedisAssumption DEF PutTime, IInv, TypeOK
<1>5. ASSUME NEW a, NEW b, NEW h, Owe(c, a, b, h)
      PROVE  /\ owed'[c]["L"] = a /\ owed'[c]["S"] = b /\ owed'[c]["H"] = h
             /\ \A d \in Caller \ {c} : owed'[d] = owed[d]
  BY <1>3, <1>5 DEF Owe, Counter
<1>6. CASE PutSeeder(c, ih, p)
  BY <1>1, <1>2, <1>3, <1>4, <1>5, <1>6 DEF PutSeeder, Store, If, Incurs
<1>7. CASE DeleteSeeder(c, ih, p)
  BY <1>1, <1>2, <1>3, <1>5, <1>7 DEF DeleteSeeder, Store, If, Incurs
<1>8. CASE PutLeecher(c, ih, p)
  BY <1>1, <1>2, <1>3, <1>4, <1>5, <1>8 DEF PutLeecher, Store, If, Incurs
<1>9. CASE DeleteLeecher(c, ih, p)
  BY <1>1, <1>2, <1>3, <1>5, <1>9 DEF DeleteLeecher, Store, If, Incurs
<1>10. CASE GraduateLeecher(c, ih, p)
  BY <1>1, <1>2, <1>3, <1>4, <1>5, <1>10 DEF GraduateLeecher, Store, If, Incurs
<1>11. QED
  BY <1>6, <1>7, <1>8, <1>9, <1>10 DEF CallFor

\* A writing method keeps every counter settled.
LEMMA CallKeeps ==
    ASSUME IInv, IInv', NEW c \in Caller, Call(c), NEW x \in Counter, Settled(x)
    PROVE  Settled(x)'
<1>1. PICK ih \in InfoHash, p \in Peer : CallFor(c, ih, p)
  BY DEF Call, CallFor
<1> DEFINE s == <<SeederKey(ih), p>>
           l == <<LeecherKey(ih), p>>
<1>2. /\ s \in Entry /\ l \in Entry /\ s[1] \in Key
      /\ s[1][1] = "S" /\ l[1][1] = "L"
  BY KeyType DEF SeederKey, LeecherKey
<1>3. TypeOK /\ TypeOK'
  BY DEF IInv
<1>4. s = <<SeederKey(ih), p>> /\ l = <<LeecherKey(ih), p>>
  OBVIOUS
<1> HIDE DEF s, l
<1>5. Incurs(c, s, l)
  BY <1>1, <1>4, CallOwes
<1>6. CASE x = "S"
  <2>1. \A f \in Entry : f # s /\ f[1][1] = "S" => hash'[f] = hash[f]
    BY <1>2, <1>5 DEF Incurs
  <2>2. QED
    BY <1>2, <1>3, <1>5, <1>6, <2>1, CallSettles DEF Incurs
<1>7. CASE x = "L"
  <2>1. \A f \in Entry : f # l /\ f[1][1] = "L" => hash'[f] = hash[f]
    BY <1>2, <1>5 DEF Incurs
  <2>2. QED
    BY <1>2, <1>3, <1>5, <1>7, <2>1, CallSettles DEF Incurs
<1>8. CASE x = "H"
  BY <1>2, <1>3, <1>5, <1>8, ListSettles DEF Incurs
<1>9. QED
  BY <1>6, <1>7, <1>8 DEF Counter

\* So does an update that is sent.
LEMMA AdjustKeeps ==
    ASSUME IInv, IInv', NEW c \in Caller, Adjust(c), NEW x \in Counter, Settled(x)
    PROVE  Settled(x)'
<1>1. PICK y \in Counter : /\ count' = [count EXCEPT ![y] = @ + owed[c][y]]
                           /\ owed' = [owed EXCEPT ![c][y] = 0]
                           /\ UNCHANGED <<hash, group, gc>>
  BY Zenon DEF Adjust
<1>2. TypeOK /\ TypeOK'
  BY DEF IInv
<1>3. owed \in [Caller -> [Counter -> {-1, 0, 1}]] /\ count \in [Counter -> Int]
  BY <1>2 DEF TypeOK
<1>4. /\ count'[x] = count[x] + If(x = y, owed[c][x])
      /\ owed'[c][x] = owed[c][x] - If(x = y, owed[c][x])
      /\ \A d \in Caller \ {c} : owed'[d] = owed[d]
      /\ owed[c][x] \in {-1, 0, 1} /\ If(x = y, owed[c][x]) \in Int
  BY <1>1, <1>3 DEF If
<1>5. Debt(x)' = Debt(x) + owed'[c][x] - owed[c][x]
  BY <1>2, <1>4, DebtChange
<1>6. Debt(x) \in Int
  BY UnsentFinite DEF Debt
<1>7. Cardinality(Removals(x))' = Cardinality(Removals(x))
  BY <1>1 DEF Removals, Removed
<1>8. Cardinality(Counted(x))' = Cardinality(Counted(x))
  BY <1>1 DEF Counted
<1>9. count[x] \in Int /\ Cardinality(Removals(x)) \in Nat /\ Cardinality(Counted(x)) \in Nat
  BY <1>2, RemovalsFinite, CountedFinite DEF TypeOK
<1>10. Cardinality(Counted(x))'
         = Cardinality(Counted(x)) + (count'[x] - count[x]) + (Debt(x)' - Debt(x))
           - (Cardinality(Removals(x))' - Cardinality(Removals(x)))
  <2>1. /\ count'[x] - count[x] = If(x = y, owed[c][x])
        /\ Debt(x)' - Debt(x) = -If(x = y, owed[c][x])
    BY <1>4, <1>5, <1>6, <1>9
  <2>2. Cardinality(Removals(x))' - Cardinality(Removals(x)) = 0
    BY <1>7, <1>9
  <2>3. QED
    BY <1>4, <1>8, <1>9, <2>1, <2>2
<1>11. QED
  BY <1>2, <1>10, SettledKept

\* And a collector, if what it deletes and does not take off the counter now it
\* holds back.
LEMMA CollectSettles ==
    ASSUME IInv, IInv', NEW g \in Instance, \A i \in Instance \ {g} : gc'[i] = gc[i],
           UNCHANGED owed, NEW x \in Counter, Settled(x),
           Cardinality(Counted(x))' = Cardinality(Counted(x)) + (count'[x] - count[x])
                                        - (Removed(g, x)' - Removed(g, x))
    PROVE  Settled(x)'
<1>1. TypeOK /\ TypeOK'
  BY DEF IInv
<1>2. Cardinality(Removals(x))'
         = Cardinality(Removals(x)) + Removed(g, x)' - Removed(g, x)
  BY <1>1, RemovalsChange
<1>3. Removed(g, x) \in Nat /\ Removed(g, x)' \in Nat
  BY <1>1 DEF Removed, TypeOK, Collector
<1>4. Debt(x)' = Debt(x)
  BY DEF Debt, Unsent
<1>5. /\ count[x] \in Int /\ count'[x] \in Int
      /\ Cardinality(Removals(x)) \in Nat /\ Cardinality(Counted(x)) \in Nat
      /\ Debt(x) \in Int
  <2>1. count[x] \in Int /\ count'[x] \in Int
    BY <1>1 DEF TypeOK
  <2>2. Cardinality(Removals(x)) \in Nat /\ Cardinality(Counted(x)) \in Nat
    BY <1>1, RemovalsFinite, CountedFinite
  <2>3. Debt(x) \in Int
    BY <1>1, UnsentFinite DEF Debt
  <2>4. QED
    BY <2>1, <2>2, <2>3
<1>6. Cardinality(Counted(x))'
         = Cardinality(Counted(x)) + (count'[x] - count[x]) + (Debt(x)' - Debt(x))
           - (Cardinality(Removals(x))' - Cardinality(Removals(x)))
  BY <1>2, <1>3, <1>4, <1>5
<1>7. QED
  BY <1>1, <1>6, SettledKept

\* Only a collector that deletes at a key has deletions to take off.
Between == \A g \in Instance : gc[g].pc # "delete" => gc[g].removed = 0

\* Most steps of a collector touch no counter and nothing that is counted.
LEMMA QuietKeeps ==
    ASSUME IInv, IInv', Between, NEW g \in Instance, NEW x \in Counter, Settled(x),
           \/ GCStart(g) \/ GCKeys(g) \/ (\E k \in Key : GCRead(g, k))
           \/ GCWatch(g) \/ GCLen(g) \/ GCDone(g)
    PROVE  Settled(x)'
<1>1. UNCHANGED <<hash, group, count, owed>>
  BY Zenon DEF GCStart, GCKeys, GCRead, GCWatch, GCLen, GCDone
<1>2. gc \in [Instance -> Collector]
  BY DEF IInv, TypeOK
<1>3. \A i \in Instance \ {g} : gc'[i] = gc[i]
  BY <1>2, Zenon DEF GCStart, GCKeys, GCRead, GCWatch, GCLen, GCDone
<1>4. Removed(g, x) = 0 /\ Removed(g, x)' = 0
  <2>1. CASE GCStart(g) \/ GCKeys(g) \/ GCLen(g) \/ GCDone(g)
    <3>1. gc[g].pc # "delete"
      BY <2>1 DEF GCStart, GCKeys, GCLen, GCDone
    <3>2. CASE GCStart(g)
      BY <1>2, <3>1, <3>2 DEF GCStart, NoCollection, Removed, Collector
    <3>3. CASE GCKeys(g)
      BY <1>2, <3>1, <3>3 DEF GCKeys, Removed, Collector
    <3>4. CASE GCLen(g)
      BY <1>2, <3>1, <3>4, Zenon DEF GCLen, NextKey, Removed, Collector
    <3>5. CASE GCDone(g)
      BY <1>2, <3>1, <3>5, Zenon DEF GCDone, NoCollection, Removed
    <3>6. QED
      BY <2>1, <3>2, <3>3, <3>4, <3>5
  <2>2. CASE \E k \in Key : GCRead(g, k)
    BY <1>2, <2>2, Zenon DEF GCRead, Removed, Between, Collector
  <2>3. CASE GCWatch(g)
    BY <1>2, <2>3 DEF GCWatch, Removed, Collector
  <2>4. QED
    BY <2>1, <2>2, <2>3
<1>5. Cardinality(Counted(x))' = Cardinality(Counted(x))
  BY <1>1 DEF Counted
<1>6. count[x] \in Int /\ Cardinality(Counted(x)) \in Nat
  BY CountedFinite DEF IInv, TypeOK
<1>7. Cardinality(Counted(x))' = Cardinality(Counted(x)) + (count'[x] - count[x])
                                   - (Removed(g, x)' - Removed(g, x))
  BY <1>1, <1>4, <1>5, <1>6
<1>8. QED
  BY <1>1, <1>3, <1>7, CollectSettles

\* HDEL by a collector: what it deletes it holds back.
LEMMA GCDeleteKeeps ==
    ASSUME IInv, IInv', NEW g \in Instance, NEW p \in Peer, GCDelete(g, p),
           NEW x \in Counter, Settled(x)
    PROVE  Settled(x)'
<1> DEFINE e == <<gc[g].key, p>>
<1>1. gc \in [Instance -> Collector] /\ hash \in [Entry -> Int \cup {Absent}]
  BY DEF IInv, TypeOK
<1>2. gc[g].key \in Key /\ e \in Entry /\ e[1] = gc[g].key
  BY DEF IInv, AtKey, GCDelete, Entry
<1>3. UNCHANGED <<group, count, owed>> /\ \A i \in Instance \ {g} : gc'[i] = gc[i]
  BY <1>1 DEF GCDelete
<1>4. /\ \A f \in Entry \ {e} : hash'[f] = hash[f]
      /\ hash'[e] = Absent
      /\ Removed(g, x) = If(e[1][1] = x, gc[g].removed)
      /\ Removed(g, x)' = If(e[1][1] = x, gc[g].removed + If(hash[e] # Absent, 1))
  <2>1. CASE hash[e] = Absent
    BY <1>1, <1>2, <2>1 DEF GCDelete, Removed, If, Collector
  <2>2. CASE hash[e] # Absent
    <3>1. /\ gc' = [gc EXCEPT ![g] = [gc[g] EXCEPT !.stale = @ \ {p}, !.removed = @ + 1]]
          /\ hash' = [hash EXCEPT ![e] = Absent]
          /\ gc[g].pc = "delete"
      BY <2>2 DEF GCDelete, Store
    <3>2. gc[g] \in Collector /\ gc'[g] = [gc[g] EXCEPT !.stale = @ \ {p}, !.removed = @ + 1]
      BY <1>1, <3>1
    <3>3. /\ gc'[g].pc = "delete" /\ gc'[g].key = gc[g].key
          /\ gc'[g].removed = gc[g].removed + 1
      BY <3>1, <3>2, Zenon DEF Collector
    <3>4. hash'[e] = Absent /\ \A f \in Entry \ {e} : hash'[f] = hash[f]
      BY <1>1, <1>2, <3>1
    <3>5. QED
      BY <1>2, <2>2, <3>1, <3>3, <3>4 DEF Removed, If
  <2>3. QED
    BY <2>1, <2>2
<1> HIDE DEF e
<1>5. TypeOK /\ TypeOK' /\ gc[g].removed \in Nat
  BY <1>1 DEF IInv, Collector
<1>6. count[x] \in Int /\ Cardinality(Counted(x)) \in Nat
  BY CountedFinite DEF IInv, TypeOK
<1>7. CASE e[1][1] = x
  <2>1. x \in {"S", "L"}
    BY <1>2, <1>7 DEF Key
  <2>2. \A f \in Entry : f # e /\ f[1][1] = x => hash'[f] = hash[f]
    BY <1>4, Zenon
  <2>3. Cardinality(Counted(x))' = Cardinality(Counted(x))
              + If(hash'[e] # Absent, 1) - If(hash[e] # Absent, 1)
    BY <1>2, <1>5, <1>7, <2>1, <2>2, EntryChange, Zenon
  <2>4. /\ Removed(g, x) = gc[g].removed
        /\ Removed(g, x)' = gc[g].removed + If(hash[e] # Absent, 1)
        /\ If(hash'[e] # Absent, 1) = 0 /\ If(hash[e] # Absent, 1) \in Int
        /\ count'[x] = count[x]
    BY <1>3, <1>4, <1>7 DEF If
  <2>5. Cardinality(Counted(x))' = Cardinality(Counted(x)) + (count'[x] - count[x])
                                     - (Removed(g, x)' - Removed(g, x))
    BY <1>5, <1>6, <2>3, <2>4
  <2>6. QED
    BY <1>3, <2>5, CollectSettles
<1>8. CASE e[1][1] # x
  <2>1. Counted(x)' = Counted(x)
    BY <1>3, <1>4, <1>8, Zenon DEF Counted
  <2>2. Cardinality(Counted(x))' = Cardinality(Counted(x))
    BY <2>1
  <2>3. Removed(g, x) = 0 /\ Removed(g, x)' = 0 /\ count'[x] = count[x]
    BY <1>3, <1>4, <1>8 DEF If
  <2>4. Cardinality(Counted(x))' = Cardinality(Counted(x)) + (count'[x] - count[x])
                                     - (Removed(g, x)' - Removed(g, x))
    BY <1>6, <2>2, <2>3
  <2>5. QED
    BY <1>3, <2>4, CollectSettles
<1>9. QED
  BY <1>7, <1>8

\* DECRBY takes off what was held back.
LEMMA GCDecrByKeeps ==
    ASSUME IInv, IInv', NEW g \in Instance, GCDecrBy(g), NEW x \in Counter, Settled(x)
    PROVE  Settled(x)'
<1>1. gc \in [Instance -> Collector] /\ count \in [Counter -> Int]
  BY DEF IInv, TypeOK
<1>2. UNCHANGED <<hash, group, owed>> /\ \A i \in Instance \ {g} : gc'[i] = gc[i]
  BY <1>1 DEF GCDecrBy
<1>3. gc[g].removed \in Nat
  BY <1>1 DEF Collector
<1>4. Removed(g, x) = If(gc[g].key[1] = x, gc[g].removed) /\ Removed(g, x)' = 0
  BY <1>1 DEF GCDecrBy, Removed, If, Collector
<1>5. count'[x] = count[x] - If(gc[g].key[1] = x, gc[g].removed)
  BY <1>1, <1>3 DEF GCDecrBy, If
<1>6. Cardinality(Counted(x))' = Cardinality(Counted(x))
  BY <1>2 DEF Counted
<1>7. count[x] \in Int /\ Cardinality(Counted(x)) \in Nat
  BY CountedFinite DEF IInv, TypeOK
<1>8. Cardinality(Counted(x))' = Cardinality(Counted(x)) + (count'[x] - count[x])
                                   - (Removed(g, x)' - Removed(g, x))
  BY <1>3, <1>4, <1>5, <1>6, <1>7 DEF If
<1>9. QED
  BY <1>2, <1>8, CollectSettles

\* EXEC of the watched block takes the key off the list and the infohash off the
\* counter: the two agree when nobody else can have unlisted the key.
LEMMA GCExecKeeps ==
    ASSUME IInv, IInv', NEW g \in Instance, GCExec(g), NEW x \in Counter, Settled(x),
           x = "H" => gc[g].key \in group
    PROVE  Settled(x)'
<1>1. gc \in [Instance -> Collector] /\ count \in [Counter -> Int] /\ group \in SUBSET Key
  BY DEF IInv, TypeOK
<1>2. TypeOK /\ TypeOK' /\ gc[g].key \in Key
  BY DEF IInv, AtKey, GCExec
<1>3. UNCHANGED <<hash, owed>> /\ \A i \in Instance \ {g} : gc'[i] = gc[i]
  BY <1>1 DEF GCExec
<1>4. Removed(g, x) = 0 /\ Removed(g, x)' = 0
  BY <1>1 DEF GCExec, Removed, NextKey, Collector
<1>5. count[x] \in Int /\ Cardinality(Counted(x)) \in Nat
  BY CountedFinite DEF IInv, TypeOK
<1>6. CASE dirty[g] \/ gc[g].key[1] # "S" \/ x # "H"
  <2>1. Counted(x)' = Counted(x)
    <3>1. CASE x # "H"
      BY <1>3, <3>1 DEF Counted
    <3>2. CASE x = "H" /\ (dirty[g] \/ gc[g].key[1] # "S")
      <4>1. \A k \in Key : k[1] = "S" => (k \in group' <=> k \in group)
        BY <3>2 DEF GCExec
      <4>2. group' \in SUBSET Key
        BY <1>2 DEF TypeOK
      <4>3. QED
        BY <1>1, <3>2, <4>1, <4>2 DEF Counted
    <3>3. QED
      BY <1>6, <3>1, <3>2
  <2>2. count'[x] = count[x]
    BY <1>1, <1>6 DEF GCExec
  <2>3. Cardinality(Counted(x))' = Cardinality(Counted(x))
    BY <2>1
  <2>4. Cardinality(Counted(x))' = Cardinality(Counted(x)) + (count'[x] - count[x])
                                     - (Removed(g, x)' - Removed(g, x))
    BY <1>4, <1>5, <2>2, <2>3
  <2>5. QED
    BY <1>3, <2>4, CollectSettles, Zenon
<1>7. CASE ~dirty[g] /\ gc[g].key[1] = "S" /\ x = "H"
  <2> DEFINE k == gc[g].key
  <2>1. group' = group \ {k} /\ k \in group /\ count'["H"] = count["H"] - 1
    BY <1>1, <1>7 DEF GCExec, Counter
  <2>2. \A j \in Key : j # k /\ j[1] = "S" => (j \in group' <=> j \in group)
    BY <2>1
  <2>3. Cardinality(Counted("H"))' = Cardinality(Counted("H"))
              + If(k \in group', 1) - If(k \in group, 1)
    BY <1>2, <1>7, <2>2, GroupChange
  <2>4. k \notin group' /\ k \in group
    BY <2>1
  <2> HIDE DEF k
  <2>5. If(k \in group', 1) = 0 /\ If(k \in group, 1) = 1
    BY <2>4 DEF If
  <2>6. /\ Cardinality(Counted(x))' = Cardinality(Counted(x)) + 0 - 1
        /\ count'[x] = count[x] - 1
    BY <1>7, <2>1, <2>3, <2>5
  <2>7. Cardinality(Counted(x))' = Cardinality(Counted(x)) + (count'[x] - count[x])
                                     - (Removed(g, x)' - Removed(g, x))
    BY <1>4, <1>5, <2>6
  <2>8. QED
    BY <1>3, <2>7, CollectSettles
<1>8. QED
  BY <1>6, <1>7

\* Every step without a failure keeps a counter settled; the number of
\* infohashes, if the key that a collector unlists is still listed.
LEMMA StepKeeps ==
    ASSUME IInv, IInv', Between, [Next]_vars, failures' = 0, NEW x \in Counter, Settled(x),
           x = "H" => \A g \in Instance : gc[g].pc = "exec" => gc[g].key \in group
    PROVE  Settled(x)'
<1>1. CASE \E c \in Caller : Call(c)
  BY <1>1, CallKeeps
<1>2. CASE \E c \in Caller : Adjust(c)
  BY <1>2, AdjustKeeps
<1>3. CASE (\E c \in Caller : Fail(c)) \/ (\E g \in Instance : GCFail(g))
  BY <1>3 DEF Fail, GCFail, IInv, TypeOK
<1>4. CASE \E g \in Instance : GCStep(g)
  <2>1. PICK g \in Instance : GCStep(g)
    BY <1>4
  <2>2. CASE \/ GCStart(g) \/ GCKeys(g) \/ (\E k \in Key : GCRead(g, k))
             \/ GCWatch(g) \/ GCLen(g) \/ GCDone(g)
    BY <2>2, QuietKeeps
  <2>3. CASE \E p \in Peer : GCDelete(g, p)
    BY <2>3, GCDeleteKeeps
  <2>4. CASE GCDecrBy(g)
    BY <2>4, GCDecrByKeeps
  <2>5. CASE GCExec(g)
    <3>1. x = "H" => gc[g].key \in group
      BY <2>5 DEF GCExec
    <3>2. QED
      BY <2>5, <3>1, GCExecKeeps
  <2>6. QED
    BY <2>1, <2>2, <2>3, <2>4, <2>5, Zenon DEF GCStep
<1>5. CASE Tick \/ (\E r \in Reader : ReadStep(r)) \/ UNCHANGED vars
  <2>1. UNCHANGED <<hash, group, count, owed, gc>>
    BY <1>5, Zenon DEF Tick, ReadStep, ReadFirst, ReadSecond, ReadReturn, vars
  <2>2. QED
    BY <2>1 DEF Settled, Counted, Unsent, Removals, Removed
<1>6. QED
  BY <1>1, <1>2, <1>3, <1>4, <1>5 DEF Next

\* At the beginning nothing is counted and nothing is owed.
LEMMA InitSettled == ASSUME Init, NEW x \in Counter PROVE Settled(x)
<1>1. Counted(x) = {}
  BY DEF Init, Counted, Entry
<1>2. Unsent(x, 1) = {} /\ Unsent(x, -1) = {}
  BY DEF Init, Unsent, NoDebt
<1>3. Removals(x) = {}
  <2>1. \A g \in Instance : Removed(g, x) = 0
    BY DEF Init, Removed, NoCollection
  <2>2. \A g \in Instance : {g} \X (1 .. Removed(g, x)) = {}
    BY <2>1
  <2>3. QED
    BY <2>2 DEF Removals
<1>4. count[x] = 0
  BY DEF Init
<1>5. Cardinality({}) = 0
  BY FS_EmptySet
<1>6. QED
  BY <1>1, <1>2, <1>3, <1>4, <1>5 DEF Settled

\* A collector takes its deletions off before it leaves the key.
LEMMA BetweenNext == IInv /\ Between /\ [Next]_vars => Between'
<1> SUFFICES ASSUME IInv, Between, [Next]_vars PROVE Between'
  OBVIOUS
<1>1. gc \in [Instance -> Collector]
  BY DEF IInv, TypeOK
<1>2. CASE UNCHANGED gc
  BY <1>2 DEF Between
<1>3. ASSUME NEW g \in Instance, GCStep(g) \/ GCFail(g)
      PROVE  /\ \A i \in Instance \ {g} : gc'[i] = gc[i]
             /\ gc'[g].pc # "delete" => gc'[g].removed = 0
  <2>1. gc[g].pc # "delete" => gc[g].removed = 0
    BY DEF Between
  <2>2. CASE GCDone(g)
    BY <1>1, <2>2 DEF GCDone, NoCollection
  <2>3. CASE GCFail(g)
    BY <1>1, <2>3 DEF GCFail, NoCollection
  <2>4. CASE GCStart(g)
    BY <1>1, <2>4 DEF GCStart, NoCollection
  <2>5. CASE GCKeys(g)
    BY <1>1, <2>1, <2>5 DEF GCKeys, Collector
  <2>6. CASE \E k \in Key : GCRead(g, k)
    BY <1>1, <2>6 DEF GCRead, Collector
  <2>7. CASE GCDecrBy(g)
    BY <1>1, <2>7 DEF GCDecrBy, Collector
  <2>8. CASE GCWatch(g)
    BY <1>1, <2>8 DEF GCWatch, Collector
  <2>9. CASE \E p \in Peer : GCDelete(g, p)
    BY <1>1, <2>9, Zenon DEF GCDelete, Collector
  <2>10. CASE GCLen(g)
    BY <1>1, <2>1, <2>10, Zenon DEF GCLen, NextKey, Collector
  <2>11. CASE GCExec(g)
    BY <1>1, <2>1, <2>11 DEF GCExec, NextKey, Collector
  <2>12. QED
    BY <1>3, <2>2, <2>3, <2>4, <2>5, <2>6, <2>7, <2>8, <2>9, <2>10, <2>11, Zenon DEF GCStep
<1>4. CASE \E g \in Instance : GCStep(g) \/ GCFail(g)
  BY <1>3, <1>4 DEF Between
<1>5. CASE (\E c \in Caller : Call(c))
  BY <1>2, <1>5, CallWrites
<1>6. CASE \/ Tick \/ (\E c \in Caller : Adjust(c) \/ Fail(c))
           \/ (\E r \in Reader : ReadStep(r)) \/ UNCHANGED vars
  BY <1>2, <1>6, Zenon DEF Tick, Adjust, Fail, ReadStep, ReadFirst, ReadSecond, ReadReturn, vars
<1>7. QED
  BY <1>4, <1>5, <1>6 DEF Next

\* Failures are not undone.
LEMMA FailuresGrow == ASSUME IInv, [Next]_vars, failures' = 0 PROVE failures = 0
<1>1. CASE \E c \in Caller : Call(c)
  <2>1. PICK c \in Caller, ih \in InfoHash, p \in Peer : CallFor(c, ih, p)
    BY <1>1 DEF Call, CallFor
  <2>2. UNCHANGED failures
    BY <2>1 DEF CallFor, PutSeeder, PutLeecher, DeleteSeeder, DeleteLeecher, GraduateLeecher
  <2>3. QED
    BY <2>2
<1>2. CASE \E g \in Instance : GCStep(g)
  BY <1>2, Zenon DEF GCStep, GCStart, GCKeys, GCRead, GCDelete, GCDecrBy, GCWatch, GCLen, GCExec,
              GCDone
<1>3. CASE (\E c \in Caller : Fail(c)) \/ (\E g \in Instance : GCFail(g))
  BY <1>3 DEF Fail, GCFail, IInv, TypeOK
<1>4. CASE \/ Tick \/ (\E c \in Caller : Adjust(c))
           \/ (\E r \in Reader : ReadStep(r)) \/ UNCHANGED vars
  BY <1>4, Zenon DEF Tick, Adjust, ReadStep, ReadFirst, ReadSecond, ReadReturn, vars
<1>5. QED
  BY <1>1, <1>2, <1>3, <1>4 DEF Next

\* The numbers of seeders and leechers, of CountersSettle.
PeersCounted == failures = 0 => \A x \in {"S", "L"} : Settled(x)

\* Without failed connections the counters of seeders and leechers agree with
\* the hashes, up to the updates in flight, however many callers write and
\* however many instances collect the same hashes: each HDEL is counted by the
\* one whose reply says that it deleted the field.
THEOREM PeersStayCounted == Spec => []PeersCounted
<1>1. Init => Between /\ PeersCounted
  <2>1. Init => Between
    BY DEF Init, Between, NoCollection
  <2>2. Init => PeersCounted
    BY InitSettled DEF PeersCounted, Counter
  <2>3. QED
    BY <2>1, <2>2
<1>2. IInv /\ IInv' /\ Between /\ PeersCounted /\ [Next]_vars => Between' /\ PeersCounted'
  <2> SUFFICES ASSUME IInv, IInv', Between, PeersCounted, [Next]_vars
               PROVE  Between' /\ PeersCounted'
    OBVIOUS
  <2>1. failures' = 0 => failures = 0
    BY FailuresGrow
  <2>2. ASSUME failures' = 0, NEW x \in {"S", "L"} PROVE Settled(x)'
    <3>1. x \in Counter /\ Settled(x) /\ x # "H"
      BY <2>1, <2>2 DEF PeersCounted, Counter
    <3>2. QED
      BY <2>2, <3>1, StepKeeps
  <2>3. QED
    BY <2>2, BetweenNext DEF PeersCounted
<1>3. QED
  BY <1>1, <1>2, Invariance, PTL DEF Spec

\* What holds with one collector only: the keys it has still to go through, and
\* the one it is at, are listed.
OneListed ==
    \A g \in Instance :
        /\ gc[g].todo \subseteq group
        /\ gc[g].pc \in {"delete", "hlen", "exec"} => gc[g].key \in group \ gc[g].todo

\* Every step keeps that, if there is no other instance.
LEMMA ListedNext ==
    ASSUME \A g, i \in Instance : g = i, IInv, OneListed, [Next]_vars
    PROVE  OneListed'
<1>1. gc \in [Instance -> Collector] /\ group \in SUBSET Key
  BY DEF IInv, TypeOK
<1>2. CASE UNCHANGED gc /\ group \subseteq group'
  BY <1>2 DEF OneListed
<1>3. ASSUME NEW c \in Caller, Call(c) PROVE UNCHANGED gc /\ group \subseteq group'
  BY <1>3 DEF Call, PutSeeder, PutLeecher, DeleteSeeder, DeleteLeecher, GraduateLeecher
<1>4. ASSUME NEW g \in Instance, GCStep(g) \/ GCFail(g) PROVE OneListed'
  <2>1. /\ gc[g].todo \subseteq group
        /\ gc[g].pc \in {"delete", "hlen", "exec"} => gc[g].key \in group \ gc[g].todo
    BY DEF OneListed
  <2> SUFFICES /\ gc'[g].todo \subseteq group'
               /\ gc'[g].pc \in {"delete", "hlen", "exec"}
                     => gc'[g].key \in group' \ gc'[g].todo
    BY DEF OneListed
  <2>2. CASE GCDone(g) \/ GCFail(g)
    <3>1. gc'[g] = NoCollection
      BY <1>1, <2>2 DEF GCDone, GCFail
    <3>2. QED
      BY <3>1 DEF NoCollection
  <2>3. CASE GCStart(g)
    BY <1>1, <2>3 DEF GCStart, NoCollection
  <2>4. CASE GCKeys(g)
    BY <1>1, <2>4 DEF GCKeys, Collector
  <2>5. CASE \E k \in Key : GCRead(g, k)
    BY <1>1, <2>1, <2>5 DEF GCRead, Collector
  <2>6. CASE \E p \in Peer : GCDelete(g, p)
    <3>1. PICK p \in Peer : GCDelete(g, p)
      BY <2>6
    <3>2. /\ group' = group
          /\ \/ gc' = [gc EXCEPT ![g] = [gc[g] EXCEPT !.stale = @ \ {p}]]
             \/ gc' = [gc EXCEPT ![g] = [gc[g] EXCEPT !.stale = @ \ {p},
                                                      !.removed = @ + 1]]
      BY <3>1 DEF GCDelete
    <3>3. gc'[g].todo = gc[g].todo /\ gc'[g].pc = gc[g].pc /\ gc'[g].key = gc[g].key
      <4>1. gc[g] \in Collector
        BY <1>1
      <4>2. CASE gc'[g] = [gc[g] EXCEPT !.stale = @ \ {p}]
        BY <4>1, <4>2 DEF Collector
      <4>3. CASE gc'[g] = [gc[g] EXCEPT !.stale = @ \ {p}, !.removed = @ + 1]
        BY <4>1, <4>3 DEF Collector
      <4>4. QED
        BY <1>1, <3>2, <4>2, <4>3
    <3>4. QED
      BY <2>1, <3>2, <3>3
  <2>7. CASE GCDecrBy(g) \/ GCWatch(g)
    BY <1>1, <2>1, <2>7 DEF GCDecrBy, GCWatch, Collector
  <2>8. CASE GCLen(g)
    <3>1. gc[g].pc = "hlen" /\ group' = group
      BY <2>8 DEF GCLen
    <3>2. CASE gc' = [gc EXCEPT ![g] = [gc[g] EXCEPT !.pc = "exec"]]
      BY <1>1, <2>1, <3>1, <3>2 DEF Collector
    <3>3. CASE gc' = [gc EXCEPT ![g] = NextKey(g)]
      BY <1>1, <2>1, <3>1, <3>3 DEF NextKey, Collector
    <3>4. QED
      BY <2>8, <3>2, <3>3 DEF GCLen
  <2>9. CASE GCExec(g)
    BY <1>1, <2>1, <2>9 DEF GCExec, NextKey, Collector
  <2>10. QED
    BY <1>4, <2>2, <2>3, <2>4, <2>5, <2>6, <2>7, <2>8, <2>9, Zenon DEF GCStep
<1>5. CASE \/ Tick \/ (\E c \in Caller : Adjust(c) \/ Fail(c))
           \/ (\E r \in Reader : ReadStep(r)) \/ UNCHANGED vars
  BY <1>2, <1>5, Zenon DEF Tick, Adjust, Fail, ReadStep, ReadFirst, ReadSecond, ReadReturn, vars
<1>6. QED
  BY <1>2, <1>3, <1>4, <1>5 DEF Next

\* With one instance the number of infohashes agrees too: between the HKEYS and
\* the EXEC nobody else unlists a key.  (With two it does not: both may DECR for
\* the same key.)
THEOREM CountersStaySettled ==
    ASSUME \A g, i \in Instance : g = i
    PROVE  Spec => []CountersSettle
<1> DEFINE J == Between /\ OneListed /\ CountersSettle
<1>1. Init => J
  <2>1. Init => Between /\ OneListed
    BY DEF Init, Between, OneListed, NoCollection
  <2>2. Init => CountersSettle
    BY InitSettled DEF CountersSettle
  <2>3. QED
    BY <2>1, <2>2
<1>2. IInv /\ IInv' /\ J /\ [Next]_vars => J'
  <2> SUFFICES ASSUME IInv, IInv', J, [Next]_vars PROVE J'
    OBVIOUS
  <2>1. Between' /\ OneListed'
    BY BetweenNext, ListedNext
  <2>2. ASSUME failures' = 0, NEW x \in Counter PROVE Settled(x)'
    <3>1. Settled(x)
      BY <2>2, FailuresGrow DEF CountersSettle
    <3>2. \A g \in Instance : gc[g].pc = "exec" => gc[g].key \in group
      BY DEF OneListed
    <3>3. QED
      BY <2>2, <3>1, <3>2, StepKeeps
  <2>3. CountersSettle'
    BY <2>2 DEF CountersSettle
  <2>4. QED
    BY <2>1, <2>3
<1>3. J => CountersSettle
  OBVIOUS
<1> HIDE DEF J
<1>4. QED
  BY <1>1, <1>2, <1>3, Invariance, PTL DEF Spec

-----------------------------------------------------------------------------
(***************************************************************************)
(* Thoroughness.  An entry that was stale when a collection began is gone   *)
(* already, or the collection has still to come to it: it has not listed    *)
(* the keys, has the key of the entry before it, or has marked the peer.    *)
(***************************************************************************)
Left(t, cutoff) ==
    t = Absent \/ t > cutoff \/ t >= cutoff + PeerLifetime - Lag

Ahead(q, e) ==
    \/ q.pc = "keys"
    \/ e[1] \in q.todo
    \/ q.pc = "delete" /\ e[1] = q.key /\ e[2] \in q.stale

Sweeps(h, q) ==
    q.pc # "idle" => \A e \in Entry : Ahead(q, e) \/ Left(h[e], q.cutoff)

Thorough == \A g \in Instance : Sweeps(hash, gc[g])

\* A step in which collector g goes to state q keeps that, if q has it and no
\* field is put.
LEMMA CollectThorough ==
    ASSUME IInv, Thorough, NEW g \in Instance, NEW q,
           gc' = [gc EXCEPT ![g] = q], Sweeps(hash', q),
           \A e \in Entry : hash'[e] = hash[e] \/ hash'[e] = Absent
    PROVE  Thorough'
<1> SUFFICES ASSUME NEW i \in Instance, i # g PROVE Sweeps(hash', gc'[i])
  BY DEF Thorough, Sweeps, Ahead, Left, IInv, TypeOK
<1>1. gc'[i] = gc[i] /\ Sweeps(hash, gc[i])
  BY DEF IInv, TypeOK, Thorough
<1>2. QED
  BY <1>1 DEF Sweeps, Left

\* HKEYS: the group lists every hash that has a field.
LEMMA GCKeysThorough ==
    ASSUME IInv, Thorough, NEW g \in Instance, GCKeys(g)
    PROVE  Thorough'
<1> DEFINE q == [gc[g] EXCEPT !.pc = "next", !.todo = group]
<1>1. gc' = [gc EXCEPT ![g] = q] /\ hash' = hash
  BY DEF GCKeys
<1>2. q.todo = group
  BY DEF IInv, TypeOK, Collector
<1> HIDE DEF q
<1>3. ASSUME NEW e \in Entry, hash[e] # Absent PROVE e[1] \in group
  <2>1. e[1] \in Key /\ e[2] \in Peer /\ e = <<e[1], e[2]>>
    BY DEF Entry
  <2>2. e[2] \in Fields(hash, e[1])
    BY <1>3, <2>1 DEF Fields
  <2>3. QED
    BY <2>1, <2>2 DEF IInv, SwarmsListed
<1>4. Sweeps(hash', q)
  BY <1>1, <1>2, <1>3 DEF Sweeps, Ahead, Left
<1>5. QED
  BY <1>1, <1>4, CollectThorough, Zenon

\* HGETALL: a peer of the hash is marked, or is left.
LEMMA GCReadThorough ==
    ASSUME IInv, Thorough, NEW g \in Instance, NEW k \in Key, GCRead(g, k)
    PROVE  Thorough'
<1> DEFINE q == [gc[g] EXCEPT !.pc = "delete", !.todo = @ \ {k}, !.key = k,
                              !.stale = Stale(g, k)]
<1>1. gc' = [gc EXCEPT ![g] = q] /\ hash' = hash /\ gc[g].pc = "next"
  BY DEF GCRead
<1>2. /\ q.pc = "delete" /\ q.todo = gc[g].todo \ {k} /\ q.key = k
      /\ q.stale = Stale(g, k) /\ q.cutoff = gc[g].cutoff
  BY DEF IInv, TypeOK, Collector
<1>3. Sweeps(hash, gc[g])
  BY DEF Thorough
<1> HIDE DEF q
<1>4. ASSUME NEW e \in Entry PROVE Ahead(q, e) \/ Left(hash[e], q.cutoff)
  <2>1. e[1] \in Key /\ e[2] \in Peer /\ e = <<e[1], e[2]>>
    BY DEF Entry
  <2>2. CASE e[1] = k
    <3>1. hash[e] = Absent \/ hash[e] \in Int
      BY DEF IInv, TypeOK
    <3>2. gc[g].cutoff \in Int
      BY DEF IInv, TypeOK, Collector
    <3>3. e[2] \in Stale(g, k) <=> hash[e] # Absent /\ hash[e] <= gc[g].cutoff
      BY <2>1, <2>2 DEF Stale, Fields
    <3>4. QED
      BY <1>2, <2>2, <3>1, <3>2, <3>3 DEF Ahead, Left
  <2>3. CASE e[1] # k
    BY <1>1, <1>2, <1>3, <2>3 DEF Sweeps, Ahead
  <2>4. QED
    BY <2>2, <2>3
<1>5. Sweeps(hash', q)
  BY <1>1, <1>4 DEF Sweeps
<1>6. QED
  BY <1>1, <1>5, CollectThorough, Zenon

\* HDEL: a marked peer is gone.
LEMMA GCDeleteThorough ==
    ASSUME IInv, Thorough, NEW g \in Instance, NEW p \in Peer, GCDelete(g, p)
    PROVE  Thorough'
<1> DEFINE a == [gc[g] EXCEPT !.stale = @ \ {p}]
           b == [gc[g] EXCEPT !.stale = @ \ {p}, !.removed = @ + 1]
<1>1. gc[g] \in Collector /\ hash \in HashMap
  BY DEF IInv, TypeOK, HashMap
<1>2. \E q \in {a, b} : gc' = [gc EXCEPT ![g] = q]
  BY DEF GCDelete
<1>3. /\ a.pc = gc[g].pc /\ a.key = gc[g].key /\ a.cutoff = gc[g].cutoff
      /\ a.todo = gc[g].todo /\ a.stale = gc[g].stale \ {p}
  BY <1>1 DEF Collector
<1>4. /\ b.pc = gc[g].pc /\ b.key = gc[g].key /\ b.cutoff = gc[g].cutoff
      /\ b.todo = gc[g].todo /\ b.stale = gc[g].stale \ {p}
  BY <1>1 DEF Collector
<1> HIDE DEF a, b
<1>5. PICK q : /\ gc' = [gc EXCEPT ![g] = q] /\ q.pc = gc[g].pc /\ q.key = gc[g].key
               /\ q.cutoff = gc[g].cutoff /\ q.todo = gc[g].todo
               /\ q.stale = gc[g].stale \ {p}
  BY <1>2, <1>3, <1>4, Zenon
<1>6. gc[g].key \in Key /\ gc[g].pc = "delete" /\ <<gc[g].key, p>> \in Entry
  BY DEF IInv, AtKey, GCDelete, Entry
<1>7. /\ \A e \in Entry : hash'[e] = hash[e] \/ hash'[e] = Absent
      /\ hash'[<<gc[g].key, p>>] = Absent
  BY <1>1, <1>6 DEF GCDelete, Store, HashMap
<1>8. Sweeps(hash, gc[g])
  BY DEF Thorough
<1>9. ASSUME NEW e \in Entry PROVE Ahead(q, e) \/ Left(hash'[e], q.cutoff)
  <2>1. e = <<e[1], e[2]>>
    BY DEF Entry
  <2>2. Ahead(gc[g], e) \/ Left(hash[e], gc[g].cutoff)
    BY <1>6, <1>8 DEF Sweeps
  <2>3. CASE Left(hash[e], gc[g].cutoff)
    BY <1>5, <1>7, <2>3 DEF Left
  <2>4. CASE Ahead(gc[g], e)
    BY <1>5, <1>6, <1>7, <2>1, <2>4 DEF Ahead, Left
  <2>5. QED
    BY <2>2, <2>3, <2>4
<1>10. Sweeps(hash', q)
  BY <1>9 DEF Sweeps
<1>11. QED
  BY <1>5, <1>7, <1>10, CollectThorough, Zenon

\* The other steps of a collector delete and skip nothing.
LEMMA GCRestThorough ==
    ASSUME IInv, Thorough, NEW g \in Instance,
           \/ GCStart(g) \/ GCDecrBy(g) \/ GCWatch(g) \/ GCLen(g) \/ GCExec(g)
           \/ GCDone(g) \/ GCFail(g)
    PROVE  Thorough'
<1>1. gc[g] \in Collector /\ Sweeps(hash, gc[g])
  BY DEF IInv, TypeOK, Thorough
<1>2. hash' = hash
  BY DEF GCStart, GCDecrBy, GCWatch, GCLen, GCExec, GCDone, GCFail
<1>3. CASE GCStart(g)
  <2> DEFINE q == [NoCollection EXCEPT !.pc = "keys", !.cutoff = now - PeerLifetime]
  <2>1. q.pc = "keys" /\ gc' = [gc EXCEPT ![g] = q]
    BY <1>3 DEF NoCollection, GCStart
  <2> HIDE DEF q
  <2>2. Sweeps(hash', q)
    BY <2>1 DEF Sweeps, Ahead
  <2>3. QED
    BY <1>2, <2>1, <2>2, CollectThorough, Zenon
<1>4. CASE GCDone(g) \/ GCFail(g)
  <2>1. NoCollection.pc = "idle" /\ gc' = [gc EXCEPT ![g] = NoCollection]
    BY <1>4, Zenon DEF NoCollection, GCDone, GCFail
  <2>2. Sweeps(hash', NoCollection)
    BY <2>1 DEF Sweeps
  <2>3. QED
    BY <1>2, <2>1, <2>2, CollectThorough, Zenon
<1>5. CASE GCDecrBy(g) \/ GCWatch(g) \/ GCLen(g) \/ GCExec(g)
  <2> DEFINE b == [gc[g] EXCEPT !.removed = 0]
             c == [gc[g] EXCEPT !.pc = "hlen"]
             d == [gc[g] EXCEPT !.pc = "exec"]
             f == NextKey(g)
  <2>1. /\ b.todo = gc[g].todo /\ b.cutoff = gc[g].cutoff
        /\ c.todo = gc[g].todo /\ c.cutoff = gc[g].cutoff
    BY <1>1 DEF Collector
  <2>2. /\ d.todo = gc[g].todo /\ d.cutoff = gc[g].cutoff
        /\ f.todo = gc[g].todo /\ f.cutoff = gc[g].cutoff
    BY <1>1 DEF Collector, NextKey
  <2>3. \E q \in {b, c, d, f} : gc' = [gc EXCEPT ![g] = q]
    BY <1>5 DEF GCDecrBy, GCWatch, GCLen, GCExec
  <2>4. /\ gc[g].pc \in {"delete", "hlen", "exec"}
        /\ gc[g].pc = "delete" => gc[g].stale = {}
    BY <1>5 DEF GCDecrBy, GCWatch, GCLen, GCExec
  <2> HIDE DEF b, c, d, f
  <2>5. PICK q : /\ gc' = [gc EXCEPT ![g] = q] /\ q.todo = gc[g].todo
                 /\ q.cutoff = gc[g].cutoff
    BY <2>1, <2>2, <2>3, Zenon
  <2>6. Sweeps(hash', q)
    BY <1>1, <1>2, <2>4, <2>5, Zenon DEF Sweeps, Ahead
  <2>7. QED
    BY <1>2, <2>5, <2>6, CollectThorough, Zenon
<1>6. QED
  BY <1>3, <1>4, <1>5

\* Every step keeps it: what is put during a collection has a time of its own.
LEMMA ThoroughNext == IInv /\ IInv' /\ StaleInv /\ Thorough /\ [Next]_vars => Thorough'
<1> SUFFICES ASSUME IInv, IInv', StaleInv, Thorough, [Next]_vars PROVE Thorough'
  OBVIOUS
<1>1. ASSUME NEW c \in Caller, Call(c) PROVE Thorough'
  <2>1. /\ UNCHANGED gc
        /\ \A e \in Entry : \/ hash'[e] = hash[e] \/ hash'[e] = Absent
                            \/ hash'[e] >= now - Lag
    BY <1>1, CallWrites
  <2>2. ASSUME NEW g \in Instance, NEW e \in Entry, gc[g].pc # "idle",
               Ahead(gc[g], e) \/ Left(hash[e], gc[g].cutoff)
        PROVE  Ahead(gc[g], e) \/ Left(hash'[e], gc[g].cutoff)
    <3>1. gc[g].cutoff + PeerLifetime <= now
      BY <2>2 DEF StaleInv, Begun
    <3>2. gc[g].cutoff \in Int /\ now \in Int /\ PeerLifetime \in Int /\ Lag \in Int
      BY RedisAssumption DEF IInv, TypeOK, Collector
    <3>3. hash'[e] = Absent \/ hash'[e] \in Int
      BY DEF IInv, TypeOK
    <3>4. CASE hash'[e] \in Int /\ hash'[e] >= now - Lag
      BY <3>1, <3>2, <3>4 DEF Left
    <3>5. CASE hash'[e] = Absent
      BY <3>5 DEF Left
    <3>6. CASE hash'[e] = hash[e]
      BY <2>2, <3>6
    <3>7. QED
      BY <2>1, <3>3, <3>4, <3>5, <3>6
  <2>3. QED
    BY <2>1, <2>2 DEF Thorough, Sweeps
<1>2. ASSUME NEW g \in Instance, GCStep(g) \/ GCFail(g) PROVE Thorough'
  BY <1>2, GCKeysThorough, GCReadThorough, GCDeleteThorough, GCRestThorough DEF GCStep
<1>3. CASE UNCHANGED <<hash, gc>>
  BY <1>3 DEF Thorough, Sweeps, Ahead, Left
<1>4. QED
  BY <1>1, <1>2, <1>3, Zenon DEF Next, vars, Tick, Adjust, Fail, ReadStep, ReadFirst,
     ReadSecond, ReadReturn

\* When a collection has been through all keys, no peer is left that was stale
\* when it began (collectGarbage), whatever callers write and other instances
\* collect and unlist meanwhile: a key that it does not find in the group, or
\* that is unlisted before it comes there, has an empty hash.
THEOREM StalePeersCollected == Spec => []CollectsAllStale
<1>1. Init => StaleInv /\ Thorough
  BY DEF Init, StaleInv, NoCollection, Begun, Marked, Thorough, Sweeps
<1>2. IInv /\ IInv' /\ StaleInv /\ Thorough /\ [Next]_vars => StaleInv' /\ Thorough'
  BY StaleNext, ThoroughNext
<1>3. Thorough => CollectsAllStale
  BY DEF Thorough, Sweeps, Ahead, Left, CollectsAllStale
<1>4. QED
  BY <1>1, <1>2, <1>3, Invariance, PTL DEF Spec

-----------------------------------------------------------------------------
(***************************************************************************)
(* Refinement.  A caller's command is the abstract method; every other step *)
(* leaves the peers alone, but for a collector's HDEL of a peer it found.   *)
(***************************************************************************)
\* The entry of a pair in the role x.
Field(x, e) == <<<<x, e[1]>>, e[2]>>

Role == {"S", "L"}

\* Pairs and roles tell entries apart.
LEMMA FieldsDiffer ==
    ASSUME NEW x \in Role, NEW y \in Role, NEW d \in Pair, NEW e \in Pair
    PROVE  /\ Field(x, d) \in Entry
           /\ Field(x, d) = Field(y, e) <=> x = y /\ d = e
<1>1. /\ d = <<d[1], d[2]>> /\ d[1] \in InfoHash /\ d[2] \in Peer
      /\ e = <<e[1], e[2]>>
  BY DEF Pair
<1>2. Field(x, d) \in Entry
  BY <1>1 DEF Field, Entry, Key, Role
<1>3. Field(x, d) = Field(y, e) <=> x = y /\ d[1] = e[1] /\ d[2] = e[2]
  BY DEF Field
<1>4. QED
  BY <1>1, <1>2, <1>3

\* A map changes where its hashes do.
LEMMA StoredPut ==
    ASSUME NEW x, NEW d \in Pair, NEW v, hash'[Field(x, d)] = v,
           \A e \in Pair \ {d} : hash'[Field(x, e)] = hash[Field(x, e)]
    PROVE  Stored(x)' = [Stored(x) EXCEPT ![d] = v]
  BY Zenon DEF Stored, Field

\* A map whose hashes stay is the same.
LEMMA StoredSame ==
    ASSUME NEW x, \A e \in Pair : hash'[Field(x, e)] = hash[Field(x, e)]
    PROVE  Stored(x)' = Stored(x)
  BY DEF Stored, Field

\* One field is written.
LEMMA WriteStored ==
    ASSUME IInv, NEW x \in Role, NEW d \in Pair, NEW v, hash' = [hash EXCEPT ![Field(x, d)] = v]
    PROVE  /\ Stored(x)' = [Stored(x) EXCEPT ![d] = v]
           /\ \A y \in Role \ {x} : Stored(y)' = Stored(y)
<1>1. hash \in [Entry -> Int \cup {Absent}]
  BY DEF IInv, TypeOK
<1>2. hash'[Field(x, d)] = v
  BY <1>1, FieldsDiffer
<1>3. ASSUME NEW y \in Role, NEW e \in Pair, y # x \/ e # d
      PROVE  hash'[Field(y, e)] = hash[Field(y, e)]
  BY <1>1, <1>3, FieldsDiffer
<1>4. QED
  BY <1>2, <1>3, StoredPut, StoredSame

\* The five methods are the five methods.
LEMMA CallRefines ==
    ASSUME IInv, NEW c \in Caller, Call(c)
    PROVE  SS!SharedNext
<1>1. PICK ih \in InfoHash, p \in Peer : CallFor(c, ih, p)
  BY DEF Call, CallFor
<1> DEFINE d == <<ih, p>>
<1>2. /\ d \in Pair
      /\ <<SeederKey(ih), p>> = Field("S", d) /\ <<LeecherKey(ih), p>> = Field("L", d)
  BY DEF Pair, Field, SeederKey, LeecherKey
<1>3. UNCHANGED <<gc, now>>
  BY CallWrites
<1>4. FoundStale("S")' = FoundStale("S") /\ FoundStale("L")' = FoundStale("L")
  BY <1>3 DEF FoundStale
<1>5. "S" \in Role /\ "L" \in Role /\ "S" # "L"
  BY DEF Role
<1> HIDE DEF d
<1>6. SUFFICES \/ SS!PutSeeder(d) \/ SS!DeleteSeeder(d) \/ SS!PutLeecher(d)
               \/ SS!DeleteLeecher(d) \/ SS!GraduateLeecher(d)
  BY <1>2, <1>4 DEF SS!SharedNext, SS!found
<1>7. CASE PutSeeder(c, ih, p)
  <2>1. PICK t \in PutTime : hash' = [hash EXCEPT ![Field("S", d)] = t]
    BY <1>2, <1>7, Zenon DEF PutSeeder, Store
  <2>2. Stored("S")' = [Stored("S") EXCEPT ![d] = t] /\ Stored("L")' = Stored("L")
    BY <1>2, <1>5, <2>1, WriteStored, Zenon
  <2>3. SS!PutSeeder(d)
    BY <1>3, <2>1, <2>2 DEF SS!PutSeeder, PutTime
  <2>4. QED
    BY <2>3
<1>8. CASE PutLeecher(c, ih, p)
  <2>1. PICK t \in PutTime : hash' = [hash EXCEPT ![Field("L", d)] = t]
    BY <1>2, <1>8, Zenon DEF PutLeecher, Store
  <2>2. Stored("L")' = [Stored("L") EXCEPT ![d] = t] /\ Stored("S")' = Stored("S")
    BY <1>2, <1>5, <2>1, WriteStored, Zenon
  <2>3. SS!PutLeecher(d)
    BY <1>3, <2>1, <2>2 DEF SS!PutLeecher, PutTime
  <2>4. QED
    BY <2>3
<1>9. CASE DeleteSeeder(c, ih, p)
  <2>1. hash' = [hash EXCEPT ![Field("S", d)] = Absent]
    BY <1>2, <1>9, Zenon DEF DeleteSeeder, Store
  <2>2. Stored("S")' = [Stored("S") EXCEPT ![d] = Absent] /\ Stored("L")' = Stored("L")
    BY <1>2, <1>5, <2>1, WriteStored, Zenon
  <2>3. SS!DeleteSeeder(d)
    BY <1>3, <2>2 DEF SS!DeleteSeeder
  <2>4. QED
    BY <2>3
<1>10. CASE DeleteLeecher(c, ih, p)
  <2>1. hash' = [hash EXCEPT ![Field("L", d)] = Absent]
    BY <1>2, <1>10, Zenon DEF DeleteLeecher, Store
  <2>2. Stored("L")' = [Stored("L") EXCEPT ![d] = Absent] /\ Stored("S")' = Stored("S")
    BY <1>2, <1>5, <2>1, WriteStored, Zenon
  <2>3. SS!DeleteLeecher(d)
    BY <1>3, <2>2 DEF SS!DeleteLeecher
  <2>4. QED
    BY <2>3
<1>11. CASE GraduateLeecher(c, ih, p)
  <2>1. PICK t \in PutTime :
           hash' = [hash EXCEPT ![Field("L", d)] = Absent, ![Field("S", d)] = t]
    BY <1>2, <1>11, Zenon DEF GraduateLeecher, Store
  <2>2. hash \in [Entry -> Int \cup {Absent}]
    BY DEF IInv, TypeOK
  <2>3. hash'[Field("S", d)] = t /\ hash'[Field("L", d)] = Absent
    BY <1>2, <1>5, <2>1, <2>2, FieldsDiffer
  <2>4. ASSUME NEW x \in Role, NEW e \in Pair \ {d}
        PROVE  hash'[Field(x, e)] = hash[Field(x, e)]
    BY <1>2, <1>5, <2>1, <2>2, <2>4, FieldsDiffer
  <2>5. /\ Stored("S")' = [Stored("S") EXCEPT ![d] = t]
        /\ Stored("L")' = [Stored("L") EXCEPT ![d] = Absent]
    BY <1>2, <1>5, <2>3, <2>4, StoredPut
  <2>6. SS!GraduateLeecher(d)
    BY <1>3, <2>1, <2>5 DEF SS!GraduateLeecher, PutTime
  <2>7. QED
    BY <2>6
<1>12. QED
  BY <1>1, <1>7, <1>8, <1>9, <1>10, <1>11 DEF CallFor

\* Where the hashes and the time are left alone, what is found must be stale.
LEMMA FindRefines ==
    ASSUME UNCHANGED <<hash, now>>,
           \A x \in Role : FoundStale(x)' \subseteq FoundStale(x) \cup SS!Old(Stored(x))
    PROVE  SS!Find
<1>1. Stored("S")' = Stored("S") /\ Stored("L")' = Stored("L")
  BY DEF Stored
<1>2. "S" \in Role /\ "L" \in Role
  BY DEF Role
<1>3. QED
  BY <1>1, <1>2 DEF SS!Find, SS!vars

\* What a collector has found is in its state.
LEMMA FoundChange ==
    ASSUME IInv, NEW g \in Instance, NEW q, gc' = [gc EXCEPT ![g] = q], NEW x,
           NEW e \in FoundStale(x)'
    PROVE  \/ e \in FoundStale(x)
           \/ q.pc = "delete" /\ q.key = <<x, e[1]>> /\ e[2] \in q.stale
<1>1. e \in Pair
  BY DEF FoundStale
<1>2. PICK i \in Instance : /\ gc'[i].pc = "delete"
                            /\ gc'[i].key = <<x, e[1]>>
                            /\ e[2] \in gc'[i].stale
  BY DEF FoundStale
<1>3. gc'[i] = IF i = g THEN q ELSE gc[i]
  BY DEF IInv, TypeOK
<1>4. QED
  BY <1>1, <1>2, <1>3 DEF FoundStale

\* A collector that stays at its key, or leaves it, finds nothing new.
LEMMA FoundShrinks ==
    ASSUME IInv, NEW g \in Instance, NEW q, gc' = [gc EXCEPT ![g] = q], NEW x,
           q.pc = "delete" => /\ gc[g].pc = "delete" /\ q.key = gc[g].key
                              /\ q.stale \subseteq gc[g].stale
    PROVE  FoundStale(x)' \subseteq FoundStale(x)
<1>1. SUFFICES ASSUME NEW e \in FoundStale(x)' PROVE e \in FoundStale(x)
  OBVIOUS
<1>2. e \in Pair
  BY DEF FoundStale
<1>3. CASE q.pc = "delete" /\ q.key = <<x, e[1]>> /\ e[2] \in q.stale
  BY <1>2, <1>3 DEF FoundStale
<1>4. QED
  BY <1>3, FoundChange, Zenon

\* HGETALL finds what is stale now, as the cutoff is a lifetime ago.
LEMMA ReadRefines ==
    ASSUME IInv, StaleInv, NEW g \in Instance, NEW k \in Key, GCRead(g, k)
    PROVE  SS!Find
<1> DEFINE q == [gc[g] EXCEPT !.pc = "delete", !.todo = @ \ {k}, !.key = k,
                              !.stale = Stale(g, k)]
<1>1. gc' = [gc EXCEPT ![g] = q] /\ UNCHANGED <<hash, now>> /\ gc[g].pc = "next"
  BY DEF GCRead
<1>2. q.key = k /\ q.stale = Stale(g, k)
  BY DEF IInv, TypeOK, Collector
<1> HIDE DEF q
<1>3. /\ gc[g].cutoff \in Int /\ now \in Int /\ PeerLifetime \in Int
      /\ gc[g].cutoff + PeerLifetime <= now
  BY <1>1, RedisAssumption DEF IInv, TypeOK, Collector, StaleInv, Begun
<1>4. ASSUME NEW x \in Role, NEW e \in FoundStale(x)'
      PROVE  e \in FoundStale(x) \cup SS!Old(Stored(x))
  <2>1. CASE q.key = <<x, e[1]>> /\ e[2] \in q.stale
    <3>1. e \in Pair
      BY <1>4 DEF FoundStale
    <3>2. Stored(x)[e] = hash[<<k, e[2]>>]
      BY <1>2, <2>1, <3>1 DEF Stored
    <3>3. hash[<<k, e[2]>>] # Absent /\ hash[<<k, e[2]>>] <= gc[g].cutoff
      BY <1>2, <2>1 DEF Stale, Fields
    <3>4. hash[<<k, e[2]>>] \in Int
      <4>1. e[2] \in Peer
        BY <3>1 DEF Pair
      <4>2. <<k, e[2]>> \in Entry
        BY <4>1 DEF Entry
      <4>3. QED
        BY <3>3, <4>2 DEF IInv, TypeOK
    <3>5. hash[<<k, e[2]>>] <= now - PeerLifetime
      BY <1>3, <3>3, <3>4
    <3>6. QED
      BY <3>1, <3>2, <3>3, <3>5 DEF SS!Old
  <2>2. QED
    BY <1>1, <1>4, <2>1, FoundChange, Zenon
<1>5. QED
  BY <1>1, <1>4, FindRefines

\* HDEL forgets what was found.
LEMMA DeleteRefines ==
    ASSUME IInv, NEW g \in Instance, NEW p \in Peer, GCDelete(g, p)
    PROVE  SS!Find \/ SS!ForgetFound
<1>1. PICK q \in Collector :
          /\ gc' = [gc EXCEPT ![g] = q] /\ q.pc = "delete" /\ q.key = gc[g].key
          /\ q.cutoff = gc[g].cutoff /\ q.stale \subseteq gc[g].stale
  BY DeleteState
<1>2. gc[g].pc = "delete" /\ p \in gc[g].stale /\ now' = now
  BY DEF GCDelete
<1>3. \A x \in Role : FoundStale(x)' \subseteq FoundStale(x)
  BY <1>1, <1>2, FoundShrinks, Zenon
<1>4. CASE hash' = hash
  BY <1>2, <1>3, <1>4, FindRefines
<1>5. CASE hash' = [hash EXCEPT ![<<gc[g].key, p>>] = Absent]
  <2>1. gc[g].key \in Key
    BY <1>2 DEF IInv, AtKey
  <2>2. PICK y \in Role, ih \in InfoHash : gc[g].key = <<y, ih>>
    BY <2>1 DEF Key, Role
  <2> DEFINE d == <<ih, p>>
  <2>3. d \in Pair /\ <<gc[g].key, p>> = Field(y, d)
    BY <2>2 DEF Pair, Field
  <2>4. d \in FoundStale(y)
    BY <1>2, <2>2, <2>3 DEF FoundStale
  <2> HIDE DEF d
  <2>5. /\ Stored(y)' = [Stored(y) EXCEPT ![d] = Absent]
        /\ \A x \in Role \ {y} : Stored(x)' = Stored(x)
    BY <1>5, <2>3, WriteStored, Zenon
  <2>6. ASSUME NEW x \in Role
        PROVE  SS!Loses(Stored(x), Stored(x)', FoundStale(x))
    <3>1. Stored(x) \in [Pair -> Int \cup {Absent}]
      <4>1. \A e \in Pair : <<<<x, e[1]>>, e[2]>> \in Entry
        BY <2>6, FieldsDiffer DEF Field
      <4>2. QED
        BY <4>1 DEF Stored, IInv, TypeOK
    <3>2. CASE x = y
      BY <2>3, <2>4, <2>5, <3>1, <3>2 DEF SS!Loses
    <3>3. CASE x # y
      BY <2>5, <3>1, <3>3 DEF SS!Loses
    <3>4. QED
      BY <3>2, <3>3
  <2>7. "S" \in Role /\ "L" \in Role
    BY DEF Role
  <2>8. QED
    BY <1>2, <1>3, <2>6, <2>7 DEF SS!ForgetFound
<1>6. QED
  BY <1>4, <1>5 DEF GCDelete, Store

\* Every step is a step of the shared store, or none.
LEMMA NextShared ==
    ASSUME IInv, StaleInv, [Next]_vars
    PROVE  SS!SharedNext \/ UNCHANGED <<SS!vars, SS!found>>
<1>1. ASSUME NEW c \in Caller, Call(c) PROVE SS!SharedNext
  BY <1>1, CallRefines
<1>2. CASE Tick
  <2>1. /\ Stored("S")' = Stored("S") /\ Stored("L")' = Stored("L")
        /\ FoundStale("S")' = FoundStale("S") /\ FoundStale("L")' = FoundStale("L")
    BY <1>2 DEF Tick, Stored, FoundStale
  <2>2. now' = now + 1
    BY <1>2 DEF Tick
  <2>3. QED
    BY <2>1, <2>2 DEF SS!SharedNext, SS!Tick, SS!found
<1>3. CASE UNCHANGED <<hash, now, gc>>
  BY <1>3 DEF SS!vars, SS!found, Stored, FoundStale
<1>4. CASE \/ (\E c \in Caller : Adjust(c) \/ Fail(c)) \/ (\E r \in Reader : ReadStep(r))
           \/ UNCHANGED vars
  BY <1>3, <1>4, Zenon DEF Adjust, Fail, ReadStep, ReadFirst, ReadSecond, ReadReturn, vars
<1>5. ASSUME NEW g \in Instance, GCStep(g) \/ GCFail(g) PROVE SS!Find \/ SS!ForgetFound
  <2>1. CASE \E k \in Key : GCRead(g, k)
    BY <2>1, ReadRefines
  <2>2. CASE \E p \in Peer : GCDelete(g, p)
    BY <2>2, DeleteRefines
  <2>3. ASSUME NEW q, gc' = [gc EXCEPT ![g] = q], UNCHANGED <<hash, now>>,
               q.pc = "delete" => /\ gc[g].pc = "delete" /\ q.key = gc[g].key
                                  /\ q.stale \subseteq gc[g].stale
        PROVE  SS!Find
    <3>1. \A x \in Role : FoundStale(x)' \subseteq FoundStale(x)
      BY <2>3, FoundShrinks, Zenon
    <3>2. QED
      BY <2>3, <3>1, FindRefines
  <2>4. CASE GCStart(g)
    <3> DEFINE q == [NoCollection EXCEPT !.pc = "keys", !.cutoff = now - PeerLifetime]
    <3>1. q.pc # "delete"
      BY DEF NoCollection
    <3>2. gc' = [gc EXCEPT ![g] = q] /\ UNCHANGED <<hash, now>>
      BY <2>4 DEF GCStart
    <3> HIDE DEF q
    <3>3. QED
      BY <2>3, <3>1, <3>2, Zenon
  <2>5. CASE GCDone(g) \/ GCFail(g)
    <3>1. NoCollection.pc # "delete"
      BY DEF NoCollection
    <3>2. gc' = [gc EXCEPT ![g] = NoCollection] /\ UNCHANGED <<hash, now>>
      BY <2>5 DEF GCDone, GCFail
    <3>3. QED
      BY <2>3, <3>1, <3>2, Zenon
  <2>6. CASE GCKeys(g) \/ GCDecrBy(g) \/ GCWatch(g) \/ GCLen(g) \/ GCExec(g)
    <3>1. PICK q \in Collector :
              /\ gc' = [gc EXCEPT ![g] = q]
              /\ q.pc = "delete" => gc[g].pc = "delete" /\ q.key = gc[g].key
              /\ q.cutoff = gc[g].cutoff /\ q.stale = gc[g].stale
      BY <2>6, RestState
    <3>2. UNCHANGED <<hash, now>>
      BY <2>6 DEF GCKeys, GCDecrBy, GCWatch, GCLen, GCExec
    <3>3. QED
      BY <2>3, <3>1, <3>2, Zenon
  <2>7. QED
    BY <1>5, <2>1, <2>2, <2>4, <2>5, <2>6 DEF GCStep
<1>6. QED
  BY <1>1, <1>2, <1>4, <1>5 DEF Next, SS!SharedNext

\* The store implements the contract of a store that instances share: each
\* method takes effect in one step, and only a peer that a collector has found
\* stale is lost otherwise, for any number of callers, instances and failures
\* (storage/redis/peer_store.go).
THEOREM SharedRefinement == Spec => ImplementsSharedStore
<1>1. Init => SS!SharedInit
  <2> SUFFICES ASSUME Init PROVE SS!SharedInit
    OBVIOUS
  <2>1. \A x \in Role : Stored(x) = [e \in Pair |-> Absent]
    BY FieldsDiffer DEF Init, Stored, Field
  <2>2. FoundStale("S") = {} /\ FoundStale("L") = {}
    BY DEF Init, FoundStale, NoCollection
  <2>3. now = 0 /\ "S" \in Role /\ "L" \in Role
    BY DEF Init, Role
  <2>4. QED
    BY <2>1, <2>2, <2>3 DEF SS!SharedInit, SS!Init
<1>2. IInv /\ StaleInv /\ [Next]_vars => [SS!SharedNext]_<<SS!vars, SS!found>>
  BY NextShared
<1>3. QED
  BY <1>1, <1>2, Invariance, StaleKept, PTL DEF Spec, ImplementsSharedStore, SS!SharedSpec

=============================================================================
