----------------------------- MODULE ShardLocks -----------------------------
(***************************************************************************)
(* The locks of the in-memory peer store: the two shards of one infohash,   *)
(* one for IPv4 and one for IPv6, each embedding a sync.RWMutex.            *)
(*                                                                         *)
(* AnnouncePeers and ScrapeSwarm hold the read locks of both shards at      *)
(* once.  The writing methods hold one write lock.  The collector and the   *)
(* statistics goroutine hold one lock at a time.  A read lock of a Go       *)
(* RWMutex is refused while a writer waits, and a writer that unlocks lets  *)
(* in every reader that waited for it.                                      *)
(***************************************************************************)
EXTENDS Integers, Sequences

CONSTANTS
    Thread,         \* goroutines
    IPv4, IPv6,     \* the two shards, named by their address family
    Announcers,     \* the address families of the peers that announce
    Nobody

ASSUME LockAssumption ==
    /\ IPv4 # IPv6
    /\ Announcers \subseteq {IPv4, IPv6}
    /\ Nobody \notin Thread

VARIABLES
    readers,        \* [Lock -> set of threads that hold the read lock]
    queued,         \* [Lock -> readers that wait for the writer to unlock]
    pending,        \* [Lock -> the writer that asked for the lock, or Nobody]
    writing,        \* [Lock -> whether it has got it]
    todo,           \* [Thread -> lock requests still to be made, in order]
    held,           \* [Thread -> locks held, the last one first]
    reading         \* [Thread -> shards read-locked in a method whose work is
                    \*            not done: what it finds in them goes together]

vars == <<readers, queued, pending, writing, todo, held, reading>>

Lock == {IPv4, IPv6}

Other(f) == IF f = IPv4 THEN IPv6 ELSE IPv4

R(f) == [lock |-> f, mode |-> "r"]
W(f) == [lock |-> f, mode |-> "w"]
LockRequest == [lock : Lock, mode : {"r", "w"}]

\* The order in which AnnouncePeers takes the two read locks: the shard of
\* the announcer's family first.
AnnounceOrder(f) == <<R(f), R(Other(f))>>

\* Mutant of ScrapeOrder: the other order.
ScrapeReversed == <<R(IPv6), R(IPv4)>>

ScrapeOrder == <<R(IPv4), R(IPv6)>>

\* What a goroutine may want to lock: AnnouncePeers, ScrapeSwarm, a writing
\* method or one step of a collection, a listing by the collector or a
\* reading of the counters.
Section ==
    {AnnounceOrder(f) : f \in Announcers} \cup {ScrapeOrder}
      \cup {<<W(f)>> : f \in Lock} \cup {<<R(f)>> : f \in Lock}

Waiting(t) == \E f \in Lock : \/ t \in queued[f]
                              \/ pending[f] = t /\ ~writing[f]

(***************************************************************************)
(* The type invariant; readers wait only behind a writer.                   *)
(***************************************************************************)
TypeOK ==
    /\ readers \in [Lock -> SUBSET Thread]
    /\ queued \in [Lock -> SUBSET Thread]
    /\ pending \in [Lock -> Thread \cup {Nobody}]
    /\ writing \in [Lock -> BOOLEAN]
    /\ todo \in [Thread -> Seq(LockRequest)]
    /\ held \in [Thread -> Seq(LockRequest)]
    /\ reading \in [Thread -> SUBSET Lock]
    /\ \A f \in Lock : pending[f] = Nobody => queued[f] = {} /\ ~writing[f]

Init ==
    /\ readers = [f \in Lock |-> {}]
    /\ queued = [f \in Lock |-> {}]
    /\ pending = [f \in Lock |-> Nobody]
    /\ writing = [f \in Lock |-> FALSE]
    /\ todo = [t \in Thread |-> <<>>]
    /\ held = [t \in Thread |-> <<>>]
    /\ reading = [t \in Thread |-> {}]

Idle(t) == todo[t] = <<>> /\ held[t] = <<>>

\* Ready to make its next lock request, which is q.
Requests(t, q) ==
    /\ ~Waiting(t)
    /\ todo[t] # <<>>
    /\ Head(todo[t]) = q

\* Thread t has got the lock at the head of its list.
Got(t) ==
    /\ todo' = [todo EXCEPT ![t] = Tail(@)]
    /\ held' = [held EXCEPT ![t] = <<Head(todo[t])>> \o @]

Begin(t, sec) ==
    /\ Idle(t)
    /\ todo' = [todo EXCEPT ![t] = sec]
    /\ UNCHANGED <<readers, queued, pending, writing, held, reading>>

\* Mutant of RLock: a writer that waits does not keep readers out.
RLockBarging(t, f) ==
    /\ Requests(t, R(f))
    /\ ~writing[f]
    /\ readers' = [readers EXCEPT ![f] = @ \cup {t}]
    /\ reading' = [reading EXCEPT ![t] = @ \cup {f}]
    /\ Got(t)
    /\ UNCHANGED <<queued, pending, writing>>

\* RLock without a writer.
RLock(t, f) ==
    /\ Requests(t, R(f))
    /\ pending[f] = Nobody
    /\ readers' = [readers EXCEPT ![f] = @ \cup {t}]
    /\ reading' = [reading EXCEPT ![t] = @ \cup {f}]
    /\ Got(t)
    /\ UNCHANGED <<queued, pending, writing>>

\* RLock with a writer that has the lock or waits for it.
RLockBlocks(t, f) ==
    /\ Requests(t, R(f))
    /\ pending[f] # Nobody
    /\ queued' = [queued EXCEPT ![f] = @ \cup {t}]
    /\ UNCHANGED <<readers, pending, writing, todo, held, reading>>

\* Lock, first half: exclude other writers and new readers.
LockAnnounce(t, f) ==
    /\ Requests(t, W(f))
    /\ pending[f] = Nobody
    /\ pending' = [pending EXCEPT ![f] = t]
    /\ UNCHANGED <<readers, queued, writing, todo, held, reading>>

\* Lock, second half: the readers that were there have left.
LockEnter(t, f) ==
    /\ pending[f] = t
    /\ ~writing[f]
    /\ readers[f] = {}
    /\ writing' = [writing EXCEPT ![f] = TRUE]
    /\ Got(t)
    /\ UNCHANGED <<readers, queued, pending, reading>>

\* With all its locks taken, a reading method puts its answer together.
ReadShards(t) ==
    /\ todo[t] = <<>>
    /\ reading[t] # {}
    /\ reading' = [reading EXCEPT ![t] = {}]
    /\ UNCHANGED <<readers, queued, pending, writing, todo, held>>

\* Mutant of Releases: a shard is unlocked before the other one is locked.
ReleasesEarly(t, q) ==
    /\ held[t] # <<>>
    /\ Head(held[t]) = q

\* All locks taken, the work done: the last lock held is released first.
Releases(t, q) ==
    /\ todo[t] = <<>>
    /\ reading[t] = {}
    /\ held[t] # <<>>
    /\ Head(held[t]) = q

RUnlock(t, f) ==
    /\ Releases(t, R(f))
    /\ readers' = [readers EXCEPT ![f] = @ \ {t}]
    /\ held' = [held EXCEPT ![t] = Tail(@)]
    /\ UNCHANGED <<queued, pending, writing, todo, reading>>

\* The waiting readers get the lock before any other writer.
Unlock(t, f) ==
    /\ Releases(t, W(f))
    /\ pending' = [pending EXCEPT ![f] = Nobody]
    /\ writing' = [writing EXCEPT ![f] = FALSE]
    /\ readers' = [readers EXCEPT ![f] = queued[f]]
    /\ queued' = [queued EXCEPT ![f] = {}]
    /\ todo' = [u \in Thread |-> IF u \in queued[f] THEN Tail(todo[u]) ELSE todo[u]]
    /\ held' = [u \in Thread |-> CASE u = t -> Tail(held[u])
                                   [] u \in queued[f] -> <<R(f)>> \o held[u]
                                   [] OTHER -> held[u]]
    /\ reading' = [u \in Thread |-> IF u \in queued[f] THEN reading[u] \cup {f}
                                                       ELSE reading[u]]

Step(t) ==
    \/ \E f \in Lock : \/ RLock(t, f)
                       \/ RLockBlocks(t, f)
                       \/ LockAnnounce(t, f)
                       \/ LockEnter(t, f)
                       \/ RUnlock(t, f)
                       \/ Unlock(t, f)
    \/ ReadShards(t)

Next == \E t \in Thread : \/ \E sec \in Section : Begin(t, sec)
                          \/ Step(t)

Spec == Init /\ [][Next]_vars

(***************************************************************************)
(* Fairness: a goroutine that can go on does.  It is strong because of the  *)
(* mutex on which writers wait for one another: it is free again and again, *)
(* and its starvation mode hands it to the one that waited longest.  Every  *)
(* other step stays possible until it is taken.                             *)
(***************************************************************************)
FairSpec == Spec /\ \A t \in Thread : SF_vars(Step(t))

-----------------------------------------------------------------------------
(***************************************************************************)
(* Properties.                                                              *)
(***************************************************************************)
\* AnnouncePeers and ScrapeSwarm find both shards of an infohash as they were
\* at one moment: nobody writes to the shard that was locked first while the
\* second one is waited for, nor to either of them before the answer is put
\* together.  The list and the counts never mix a shard of before with one of
\* after an update (the locking of both shards, and the deferred unlocking).
Holds(t, q) == \E i \in 1 .. Len(held[t]) : held[t][i] = q
SnapshotReads ==
    \A t, u \in Thread : \A f \in Lock : f \in reading[t] => ~Holds(u, W(f))

\* Goroutines never wait for one another in a circle: when any of them holds
\* or wants locks, one of them can go on.
Blocked(t) ==
    \/ \E f \in Lock : t \in queued[f]
    \/ \E f \in Lock : pending[f] = t /\ ~writing[f] /\ readers[f] # {}
    \/ /\ ~Waiting(t)
       /\ todo[t] # <<>>
       /\ Head(todo[t]).mode = "w"
       /\ pending[Head(todo[t]).lock] # Nobody
NoDeadlock ==
    (\E t \in Thread : ~Idle(t)) => \E t \in Thread : ~Idle(t) /\ ~Blocked(t)

\* Every method that asked for locks gets them and returns: no reader is
\* locked out by a stream of writers, no writer by a stream of readers.
MethodsReturn == \A t \in Thread : ~Idle(t) ~> Idle(t)

=============================================================================
