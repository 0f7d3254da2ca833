# A TLA+ verification of the Chihaya tracker

Chihaya is a BitTorrent tracker: clients announce over HTTP or UDP that they take part
in a swarm and are told of other peers. This directory models the parts of it in which
something can go wrong that a unit test would hardly reach: the in-memory store and its
locks, the store kept in Redis, the way of an announce from a frontend through the hooks
to the store and back, the configured hooks themselves, and starting, reloading and
stopping the process. TLC checks the models on small instances; TLAPS proves the most
important safety properties for every size.

## 1. The system

| part | state | operations | meets |
|---|---|---|---|
| storage contract (`storage/storage.go`) | swarms of seeders and leechers | put, delete, graduate, list, scrape, stop | implemented by the two stores |
| in-memory store (`storage/memory`) | an array of shards, each with a lock, a map of swarms and two counters | the methods, a collector goroutine, a statistics goroutine, `Stop` | called by the hooks from any number of goroutines |
| time cache (`pkg/timecache`) | one atomic integer | refreshed by a ticker | stamps every put |
| Redis store (`storage/redis`) | hashes per swarm, a hash per family that lists them, three counters | each method is a few commands; a collector per instance | shared by several trackers |
| logic and hooks (`middleware/logic.go`, `hooks.go`) | none of its own | `HandleAnnounce` (pre-hooks, response hook), `AfterAnnounce` (post-hooks, swarm interaction) | frontends and store |
| HTTP and UDP frontends | listener, wait group, closing channel | serve, handle a request, `Stop` | logic; stop group |
| UDP connection IDs (`frontend/udp/connection_id.go`) | none: the ID carries its time and a MAC | `Generate`, `Validate` | UDP frontend; instances that share a key |
| peer limit (`middleware/peerlimit`) | a Redis set per user and torrent, with an expiry | pre-hook | logic; Redis |
| traffic push (`middleware/trafficpush`) | a Redis hash per peer, a stream | pre-hook | logic; Redis; the site, which adds the stream up |
| passkey approval (`middleware/passkeyapproval`) | a Redis set with an expiry | pre-hook | logic; Redis; the site's API |
| JWT (`middleware/jwt`, `jwtoptional`) | a map of public keys for each of the two | pre-hook, a goroutine that fetches keys | logic; the issuer |
| approval lists, interval variation | lists; none | pre-hook | logic |
| process (`cmd/chihaya/main.go`, `pkg/stop`) | `Run`, signal contexts | `Start`, `Stop`, the signal loop | everything |

Nothing but the Redis store survives the process. What makes the system hard:

* every announce has two goroutines, the handler and the one for `AfterAnnounce`,
  and nobody waits for the second one, neither the next announce nor `Stop`;
* a list of peers is read from two shards under two read locks;
* the collectors decide what to remove before they remove it, and run beside writers;
* counters are kept beside what they count, in memory and in Redis;
* commands to Redis fail, and several trackers collect the same data;
* hooks read something in Redis, decide, and write it later, while other announces of
  the same user do the same; they go on when Redis fails;
* a shutdown must end while clients keep sending, and a reload must keep the peers.

Correct means: a store holds what was put and not deleted or expired, its counters
agree, stale peers go, no lock is waited for in a circle; an announce is answered with
the best peers within the limits, and is applied if and only if it was let through; what
a hook refuses, limits, counts or approves is right however announces overlap and
commands fail, or wrong only as stated; a stop waits for the requests in progress, and
ends.

`PROJECT.json` lists the parts with what is modelled of each, and the hazards with
the line at which each bites and the properties that would notice.

## 2. The modules

| module | models | checked by | proved in |
|---|---|---|---|
| `PeerStore` | the contract `storage.PeerStore`, as an abstract specification | (refined by `MemoryStore`) | |
| `SharedPeerStore` | the weaker contract of a store that several trackers share | (refined by `RedisStore`) | |
| `MemoryStore` | `storage/memory/peer_store.go`: writes, collector, `Stop` | `MCMemoryStore` | `MemoryStoreProofs` |
| `ShardLocks` | the read-write locks of the two shards of an infohash | `MCShardLocks` | `ShardLocksProofs` |
| `RedisStore` | `storage/redis/peer_store.go`, command by command | `MCRedisStore` | `RedisStoreProofs` |
| `Tracker` | the path of an announce | `MCTracker` | `TrackerProofs` |
| `Lifecycle` | `main.go`, the stop group, the goroutines of the frontends | `Lifecycle` | `LifecycleProofs` |
| `PreHooks` | the loop of `Logic.HandleAnnounce` over the pre-hooks, which the next six extend | `MCHookChain` | `HookChainProofs` |
| `PeerLimit` | `middleware/peerlimit` | `MCHookChain` | `PeerLimitProofs` |
| `TrafficPush` | `middleware/trafficpush` | `MCHookChain` | `TrafficPushProofs` |
| `PasskeyApproval` | `middleware/passkeyapproval` | `MCHookChain` | `HookChainProofs` |
| `JWT` | `middleware/jwt`, `middleware/jwtoptional` | `MCHookChain` | `HookChainProofs` |
| `VarInterval` | `middleware/varinterval` and `Intn` of `middleware/pkg/random` | `MCHookChain` | `HookChainProofs` |
| `ConnectionID` | `frontend/udp/connection_id.go` | `MCHookChain` | `HookChainProofs` |
| `HookChain` | the six composed, with the approval lists, in any configured order | `MCHookChain` | the three above |

They fit together like this: `MemoryStore` takes what happens under a lock as one step,
which `ShardLocks` justifies (`SnapshotReads`); `Tracker` takes the store's methods as
atomic and entries as liable to expire, which is what `PeerStore` allows and
`MemoryStore` is shown to implement; its pre-hooks either refuse an announce or let it
through, and `HookChain` shows what lies behind that choice; `Lifecycle` keeps of
`Tracker` only where a handler is, and adds who waits for whom. An operator whose
comment begins with "Mutant of" is a plausible bug: put in the place of the definition
it names it makes a property fail. No specification uses it.

### MemoryStore

The maps of all shards are two functions on pairs of infohash and peer (`seeders`,
`leechers`, a time or `Absent`), since the pair determines its shard (`shardIndex`).
Kept per shard are the infohashes that have a swarm and the two counters. A writing
method is two steps, the look at the closed channel (`CheckClosed`) and the work under
the lock (`Perform`); `Stop` may come between. `StopFree` replaces the array, so that a
call which has found its shard already writes to memory nobody reads (`lost`). The
collector takes its cutoff from the real clock and the puts take theirs from the
cached one, at most `Lag` behind. It lists the infohashes of a shard (`GCScan`) and
sweeps them one by one (`GCSweep`).

### ShardLocks

`sync.RWMutex` as Go documents and implements it: a waiting writer keeps new readers
out, an unlocking writer lets in the readers that wait, writers exclude one another.
A goroutine has a list of locks still to take and of locks held; `reading` has the
shards that a method has found locked and whose contents it has not yet put together
(`ReadShards`), so that `SnapshotReads` spans the wait for the second lock. `New` of the
store always turns dual-stack lists on, so that `AnnouncePeers` and `ScrapeSwarm` take
two read locks; the branches for single-stack lists are never reached.

### RedisStore

One address family (the keys of the two are disjoint). `hash` has the fields of all
hashes of swarms, `group` the keys listed in the family's hash. A step is one command
or one `MULTI ... EXEC`. A caller's counter updates are `owed` until sent. `dirty` is
Redis's own mark that a watched key has changed. A failed connection loses what was
still to be sent. Redis itself does not lose data in the model. `sure` is a history
variable: the peers that a read may not miss. The store does not implement `PeerStore`:
a peer that announces again between the collector's `HGETALL` and its `HDEL` is deleted
though it is not stale. It implements `SharedPeerStore`, whose methods are those of
`PeerStore` and whose collection is in two steps: stale pairs are found (`Find`), and
what was found may be forgotten later (`ForgetFound`). The mapping takes the hashes for
the maps, and for the pairs found what the collectors have still to delete at their key
(`Stored`, `FoundStale`); a method is the one command that changes a hash, and whatever
follows it, counters and failures included, is invisible. `CollectsOnlyStale` states
how fresh a deleted peer can be.

### Tracker

A handler is a goroutine with a request, then the goroutine of `AfterAnnounce`. One
infohash is enough because a request names one and the hooks touch no other. The
result of `AnnouncePeers` is kept as what each of its four loops appended, because
their order is what the properties are about; the order within a loop is Go's
arbitrary one. Encoding is modelled by the one thing it can do besides succeed: panic
in `compact4`. The contexts' `SkipSwarmInteractionKey` and `SkipResponseHookKey` are
set by nothing in the repository, so that the early returns for them are left out.
`claimed` and `latest` are history variables; `latest` forgets a peer whose announces
overlap, since the goroutine for a stopped event can overtake that of an earlier
announce and the peer then stays until it expires.

### The hooks

A handler is at hook number `at` of the configured sequence, `pc` says between which
of its commands. A configuration (`setup`) is chosen at the start, as the process reads
it once; the check of the UDP connection ID, which comes before the pre-hooks, is
written as a hook that stands first. Each command of Redis is a step, and may get an
error reply or lose its connection before or after it was executed; each hook then does
what its code does, which is mostly to go on. The clock of `HookChain` counts down what
expires in Redis.

* `PeerLimit`: `SMEMBERS`, then `MULTI SADD EXPIRE EXEC`. Between the two any number of
  announces of a user can find the set empty.
* `TrafficPush`: `HMGET`, `HMSET`, then up to `RetryCount` `XADD`s on one connection.
  Uploaded and downloaded bytes are treated alike and independently: one counter is
  modelled. `session` and `told` are what a peer has really moved, `spoilt` records
  which faults have happened that may have caused a loss or a double count.
* `PasskeyApproval`: the set in Redis is a cache of what the site answers, and expires
  as a whole. `SADD` and `EXPIRE` are two commands. A credential that does not decrypt
  is a request without a passkey; one that decrypts to the empty passkey is looked up
  like any other, whereas the peer limit skips it (`EmptyPasskey`, `HasPasskey`). The
  documentation has the site keep the set too, with `SADD`, `SREM` or `RENAME`
  (`docs/部署文档.md:132`): these are the external actions `SiteAdds`, `SiteRemoves` and
  `SiteRenames`. `persists` records that the set was left without an expiry, by a failed
  `EXPIRE` or because the site made it.
* `JWT`: each of the two hooks has its URL, goroutine, map and channel, and every
  variable is a function on them. The goroutine sends a request (`FetchKeys`), waits for
  the answer without a timeout (`Answer`), decodes the keys into a new map and assigns
  it (`Install`). The status of the answer is not looked at, so that an error page in
  JSON is a set without keys. A set that does not decode changes nothing (`FetchFails`).
  The assignment is not synchronized; the model takes it as a pointer that is the old
  one or the new one. A token is modelled by the key that signed it. `fresh` and
  `recent` are history variables: the keys that were published between the sending and
  the answer of the fetch under way, and of the one the map comes from.
* `VarInterval`: `Intn` on the words of the generator, with the conversion to a signed
  integer, its negation and Go's remainder at a given width; the same number is added to
  the interval and, with `ModifyMinInterval`, to the minimal one. How the generator
  derives its words is left out: every word is possible.
* `ConnectionID`: stamps in whole seconds, made by this instance or by one whose clock
  differs, validated against the two ends of the window.

### Lifecycle

The main goroutine's program counter goes through `Start` (`start`, `http`, `udp`),
the `select`, and `Stop` (`stop`, `frontends`, `logic`, `store`). The HTTP server is
bound by the main goroutine, but put into `f.srv` by the serving one; `Stop` does
nothing when it comes in between, and the old listener then makes the next `Start`
fail (`AddressInUse`). `f.srv` is read and written without a lock: the model takes it
as a pointer that is nil or set. An HTTPS server would be a second one of the same
kind. Contexts of `signal.NotifyContext` stay done; `reload` tells a signal that was
answered from one that was not. Signals before the contexts exist are not modelled:
they end the process. The metrics server shares nothing with the rest and is left out.

## 3. What TLC checks

Runs that pass (the type invariant is checked in `memory`, where it says that no counter
gets below zero; that of the other modules is proved):

| run | instance | properties |
|---|---|---|
| `memory` | 2 infohashes in one shard (the second of two), 1 peer, 1 caller, a lifetime of 2 | `TypeOK`; `CountersMatch`; `SwarmsMatch`; `CollectsAllStale`; `ImplementsPeerStore` (refinement); `StaleCollected`; `StopCompletes` |
| `locks` | 4 goroutines, 2 locks, IPv4 announcers | `SnapshotReads`; `NoDeadlock`; `MethodsReturn` |
| `redis` | 1 infohash, 1 peer, a caller, a reader, a collector, 1 failure | `SwarmsListed`; `CountersSettle`; `NobodyMissed`; `CollectsAllStale`; `CollectsOnlyStale`; `ImplementsSharedStore` (refinement); `StaleCollected`; `EmptyUnlisted` |
| `tracker` | 3 peers of both families, 2 handlers, 5 kinds of announce, limits 1 and 2 | `ResponseBounded`; `OnlyClaimed`; `BestListing`; `AnnounceApplied`; `StoppedLeaves`; `CompletedGraduates` |
| `lifecycle` | 3 handlers, any number of reloads | `FrontendsQuiet`; `SocketOpen`; `ReloadKeepsStore`; `ShutdownCompletes` |
| `hooks` | 10 configurations, 2 handlers, up to 3 peers | `SetsExpire`; `LimitedByOverlap`; `NeverOvercounts`; `NothingLost`; `KeysCurrent`; `OnlyApproved`; `ConnectionWindow`; `LockReleased`; `NotShutOut`; `WithdrawnForgotten`; `KeysFollow` |

Some of these say less than one might wish, because the code does no more:

* `BestListing` is about peers of the announcer's own address family, which is what the
  contract asks for. That the store adds peers of the other one is not required.
* `WithdrawnForgotten` holds for a time in which no new passkey is approved. Every
  `EXPIRE` renews the whole set, and with new approvals within every `CacheTTL` a
  withdrawn passkey stays for ever; the site's own `SREM` is then the only way out.
* `SetsExpire` lets the set of passkeys be without an expiry when an `EXPIRE` failed or
  the site made the set. A process that dies between `SADD` and `EXPIRE` has the same
  effect and is not modelled.
* `KeysFollow` exempts a fetch that is never answered, after which the keys are never
  updated again, and fetches that fail or bring error pages for ever. The first is a
  limit of the code: `docs/功能与接口文档.md:114` promises updates at an interval.
* `KeysCurrent` does not exclude an empty map after an error page, which refuses every
  token until the next update.
* `ResponseBounded` is checked with a default `NumWant` below the maximum. The theorem
  covers a default above it too, with that default as the bound.

Runs that find a disagreement between the code and what the repository says:

| run | what happens |
|---|---|
| `locks_both` | An IPv6 announcer locks IPv6 then IPv4, an IPv4 announcer and every scrape the other way round. With a writer waiting at each lock all four wait for ever, in spite of the comment that the order is consistent. The same goes for a tracker with IPv6 announcers only, because of the scrapes. |
| `redis_instances` | Two instances that collect one empty hash both decrement the infohash counter. |
| `tracker_families` | A list with peers of both families makes the compact encoder panic; the announce is neither answered nor applied. |
| `lifecycle_reload` | After the first reload signal the tracker reloads again and again without another one, because the context of the signals stays done. |
| `hooks_push` | The snapshot of the counters is replaced before the difference is sent and is not put back when sending fails, so that the difference is lost, in spite of the comment that the snapshot is kept. |
| `hooks_interval` | The least integer is its own negative, so that `Intn` returns a negative number for it, in spite of its comment (`k >= 0 && k < n`), and an interval gets shorter. `IntervalVaried` is what holds instead. |

**Bounds.** `MaxTime` bounds real time; it is one lifetime of two units, within which an
entry goes from fresh to exactly at the cutoff, where it is stale, and another put one
unit later is not. `MaxFailures` bounds failed
connections; one is enough to come at every place. One caller of `MemoryStore` makes
any sequence of calls, and since the work under a lock is one step a second one adds
only orders of the same steps; the proofs are for any number. Four goroutines are what
a circle of two readers and two writers takes. Two handlers in `Tracker` are two
announces of one peer in progress; three in `Lifecycle` are one of each kind (HTTP,
UDP, `AfterAnnounce`). In the hooks two handlers are two announces that overlap; a peer
counts to `MaxCount` = 2 in at most `MaxAnnounces` = 2 announces, the second of which
may follow a restart; one key that is published or withdrawn is enough to outlive its
withdrawal; two attempts at `XADD` are a failure and a
retry. `Half` = 4 (8 in `hooks_interval`, where the remainder of
the least integer must be below -1) makes small integers with a least one, `Second` = 2 ticks
leaves a part of a second that a stamp does not tell, `Offsets` has clocks that are
behind, equal and ahead by more than the skew, and `FirstTick`..`LastTick` is long
enough for an ID to run out. An expiry of 2 can be renewed before it runs out. No run
other than `locks_both` uses symmetry, and that one checks an invariant only.

**Fairness.** A goroutine that can run is run by Go's scheduler (weak fairness of
each goroutine's steps), tickers fire, and time passes up to its bound. It is strong
in two places. A writer that waits for another writer's mutex gets it, because
`sync.Mutex` hands it over in its starvation mode. A `select` with two cases ready
chooses at random, so that the one for termination is not passed over for ever. Of the
JWT goroutine only its own steps are fair, sending a request and installing what has
been fetched (`Updates`): nobody is assumed to answer. Nobody
is assumed to call a method, to send a request or a signal, or to make Redis fail.

**Deadlock.** `CHECK_DEADLOCK FALSE` is set where the system may stop for good: a
stopped store, an ended process, time at its bound.

## 4. What is proved

The proofs hold for all values of the constants that satisfy the named assumptions:
sets are finite where they are counted, limits and times are natural numbers, families
differ, a chain of hooks is not empty, the clock stays below the end of the range of
stamps (`StoreAssumption`, `RedisAssumption`, `TrackerAssumption`,
`PreHooksAssumption` and those of the hooks; `Lifecycle` has none). TLC evaluates them
in the passing runs.

* **`MemoryStoreProofs`**: `TypeCorrect`, `CountersCorrect`, `SwarmsCorrect`,
  `Refinement`, that the store implements `PeerStore`, and `StalePeersCollected`, that a
  collection leaves nothing stale behind. The invariant is the conjunction of the first
  three with `ClockInv`, which bounds the cached clock and says that the cutoff of a
  collection is at most what it would be if the collection began now: without it a sweep
  could not be shown to remove only what `Expire` of the contract allows. The counters
  need the three together: a delete may decrement because the entry exists, and it sees
  the entry only if the swarm exists. For `StalePeersCollected`, `Swept` says of every
  entry at every point of a collection that it is still ahead of the collector or has
  nothing stale: a peer that a writer adds behind the collector has the cached time,
  which lags at most `Lag` behind the beginning of the collection.
* **`ShardLocksProofs`**: `TypeCorrect`, `ReadsAreSnapshots` and `IPv4NeverDeadlocks`,
  with any number of goroutines. The invariant says where in its method a goroutine can
  be (`Phases`), that it has locked every shard it is reading, and that the locks agree with the goroutines that hold them and wait for
  them. If all announcers are IPv4, the second lock of a method is always the IPv6 one,
  and whoever holds that can go on.
* **`RedisStoreProofs`**, with any number of callers, instances and failures:
  * `TypeCorrect` and `SwarmsStayListed`. `SwarmsListed` is not inductive: a collector
    about to `EXEC` may unlist a hash. `ExecSafe` adds that the hash is empty unless the
    collector's connection is marked dirty, which is what `WATCH` gives.
  * `ReadsMissNobody`. `ReadInv` says that after the first command a peer which was
    there all the time is among the leechers read or is a seeder now.
  * `FreshPeersKept` (an action property) and `StalePeersCollected`. `StaleInv` says
    what can have become of an entry since it was read as stale, and that a cutoff is a
    lifetime old; `Thorough` that every entry is ahead of a collector or not stale by
    its cutoff.
  * `PeersStayCounted` and `CountersStaySettled`. What the counters should be is stated
    with cardinalities: of the fields or keys that count, of the callers that still owe
    an update up or down, and of the deletions that a collector has still to take off.
    Each command moves one element between these sets (`Incurs` for a caller's command);
    `Between` says that a collector carries deletions only at a key. The counters of
    seeders and leechers are right for any number of instances. The number of infohashes
    is right for one instance, which is an assumption of `CountersStaySettled`:
    `OneListed` says that the keys before a collector are listed, and the run
    `redis_instances` shows that this fails with two. Both are about behaviours without
    a failed connection, as the property is.
  * `SharedRefinement`, that the store implements `SharedPeerStore`. A caller's command
    is the method of the contract (`CallRefines`), `HGETALL` finds (`ReadRefines`, for
    which `StaleInv` is needed), `HDEL` forgets (`DeleteRefines`), and every other step
    maps to a stutter, to `Tick`, or to giving up what was found.
* **`TrackerProofs`**: `TypeCorrect`, `ResponsesBounded`, `StoredOnlyClaimed`,
  `ListingsBest` (an action property), `StoppedPeersLeave` and `CompletedPeersGraduate`.
  `Claims` is the strengthening: between the hooks and the update of the swarm a
  request's role has been claimed. The sizes of lists rest on `ListingBounds` and
  `ListingExact`, about what four loops that share one budget can append. `EventInv`
  follows the one handler that can be busy with a peer while `latest` says that it
  stopped or completed: until that handler is at the update of the swarm the peer is out
  of the maps as its last event says, or the update is still to come.
* **`LifecycleProofs`**: `TypeCorrect`, `StopWaits`, `SocketStaysOpen` and `ReloadSafe`.
  `SocketState` adds that a closed socket has no reader and no handler left,
  `ServerState` that only a server that served has handlers, `StoreState` that the store
  is closed only at the end of a shutdown.
* **`HookChainProofs`**, for every chain of hooks: `TypeCorrect`, `PassedWereApproved`,
  `KeysStayCurrent`, `IntervalsVaried`, `SetsDoExpire` and `WindowKept` (an action
  property). The invariant says which hook a handler is in between two commands
  (`Places`), that Redis has only what the site has approved of (`Approvals`), that
  the keys in use and those on their way were published while they were fetched
  (`KeySets`), and that each hook which a
  request has behind it had its reason (`AllAccepted`): the goal speaks of requests that
  have passed all hooks, which is not inductive. `Clock` and `Stamps` are for the
  connection IDs. `SetsExpire` is inductive together with `Approvals` and `Places`, by which a handler
  about to send `EXPIRE` has an expiry to set; the step that matters is another
  handler's `SADD` to a set that expires in between. `Serving` is the common lemma:
  whatever a hook does, it keeps the request, stays in its place and lets pass only with
  a reason.
* **`PeerLimitProofs`**: `OverlapBounds`, that a user's set never has more peers than
  there are handlers. The set alone does not tell who is about to be added to it:
  `Overlap` counts those beyond `SMEMBERS` too. When one gets beyond it the set has
  nobody else, and the others on their way are with a handler each.
* **`TrafficPushProofs`**: `StreamNeverOvercounts` and `StreamLosesNothing`. The
  invariant `Balance` is kept at every step: what is in the stream, with what the
  announce under way will add, is at most (or without faults exactly) what was told.
  What it will add is the difference to the snapshot in Redis until that is replaced,
  then the difference to the snapshot that was read. Why a retry cannot count twice is
  in `PushPlace`: what was sent unanswered has broken its connection.

Only model-checked: the liveness properties, which need fairness and so are beyond the
prover (`StaleCollected` of both stores, `StopCompletes`, `MethodsReturn`,
`EmptyUnlisted`, `AnnounceApplied`, `ShutdownCompletes`, `LockReleased`, `NotShutOut`,
`WithdrawnForgotten`, `KeysFollow`). Every invariant, action property and refinement
that a passing run checks is proved. `IntervalsVaried` is the one theorem about
something no run checks: what remains of the claim that `hooks_interval` refutes.

## 5. What is not modelled

* Parsing and encoding of packets, query strings and bencode, decryption of
  credentials, signatures and MACs: pure functions on bytes. Where one of them decides
  what happens next, that outcome is in `Tracker` or in the hooks.
* Scrapes beyond the locks and the reads of the Redis store: they change nothing.
* The counts of a response. They are read by another call than the list, and nothing
  in the repository promises that the two agree.
* `Stop` of the Redis store: it closes a channel and leaves the data where it is.
* The derivation of the generator's next word, and the entropy taken from a request.
* The UDP buffer pool, logging, metrics, reading of the configuration, the end-to-end
  and benchmark tools.
* Crashes of Redis, and time that goes backwards.

## 6. Plan

Done: the modules above. What could still be added, in this order:

1. The counts of a response and the scrape path, if the repository comes to say how
   they relate to the list.
2. A run of its own for a reload that comes before the HTTP server is assigned.
