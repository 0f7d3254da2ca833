-------------------------- MODULE ShardLocksProofs --------------------------
(***************************************************************************)
(* Proofs about the locks of the in-memory store, for any number of         *)
(* goroutines: what is read under the read locks is a snapshot, and nobody  *)
(* deadlocks as long as all announcing peers are IPv4.                      *)
(***************************************************************************)
EXTENDS ShardLocks, SequenceTheorems, TLAPS

In(s, q) == \E i \in 1 .. Len(s) : s[i] = q

(***************************************************************************)
(* Where a goroutine is in its method: the requests it still has to make    *)
(* and the locks it holds.  A method that takes two locks takes them in one *)
(* of the orders of AnnounceOrder and ScrapeOrder.                          *)
(***************************************************************************)
Phase(td, hd) ==
    \/ td = <<>> /\ hd = <<>>
    \/ \E q \in LockRequest : \/ td = <<q>> /\ hd = <<>>
                              \/ td = <<>> /\ hd = <<q>>
    \/ \E f \in Announcers \cup {IPv4} :
          \/ td = <<R(f), R(Other(f))>> /\ hd = <<>>
          \/ td = <<R(Other(f))>> /\ hd = <<R(f)>>
          \/ td = <<>> /\ hd = <<R(Other(f)), R(f)>>

Phases == \A t \in Thread : Phase(todo[t], held[t])

\* The locks agree with the goroutines that hold them,
ReadersHold ==
    \A t \in Thread, f \in Lock : t \in readers[f] <=> In(held[t], R(f))

WriterHolds ==
    \A t \in Thread, f \in Lock : In(held[t], W(f)) <=> pending[f] = t /\ writing[f]

Exclusive == \A f \in Lock : writing[f] => readers[f] = {}

\* and with those that wait for them.
QueuedWait ==
    \A t \in Thread, f \in Lock :
        t \in queued[f] => todo[t] # <<>> /\ Head(todo[t]) = R(f)

PendingWait ==
    \A t \in Thread, f \in Lock :
        pending[f] = t /\ ~writing[f] => todo[t] # <<>> /\ Head(todo[t]) = W(f)

\* What a method reads it has locked, and keeps locked until its work is done.
ReadingHolds == \A t \in Thread, f \in Lock : f \in reading[t] => In(held[t], R(f))

IInv ==
    /\ TypeOK
    /\ Phases
    /\ ReadersHold
    /\ WriterHolds
    /\ Exclusive
    /\ QueuedWait
    /\ PendingWait
    /\ ReadingHolds

\* Requests differ in their lock or their mode.
LEMMA RequestFacts ==
    /\ \A f \in Lock : R(f) \in LockRequest /\ W(f) \in LockRequest
    /\ \A f \in Lock : Other(f) \in Lock /\ Other(f) # f
    /\ \A f, g \in Lock : R(f) # W(g) /\ (R(f) = R(g) => f = g) /\ (W(f) = W(g) => f = g)
    /\ \A q \in LockRequest : \E f \in Lock : q = R(f) \/ q = W(f)
<1>1. \A f \in Lock : R(f) \in LockRequest /\ W(f) \in LockRequest
  BY DEF R, W, LockRequest
<1>2. \A f \in Lock : Other(f) \in Lock /\ Other(f) # f
  BY LockAssumption DEF Other, Lock
<1>3. \A f, g \in Lock : R(f) # W(g) /\ (R(f) = R(g) => f = g) /\ (W(f) = W(g) => f = g)
  BY DEF R, W
<1>4. \A q \in LockRequest : \E f \in Lock : q = R(f) \/ q = W(f)
  BY DEF R, W, LockRequest
<1>5. QED
  BY <1>1, <1>2, <1>3, <1>4

\* Short sequences of requests.
LEMMA ShortSequences ==
    ASSUME NEW a \in LockRequest, NEW b \in LockRequest
    PROVE  /\ <<>> \in Seq(LockRequest) /\ <<a>> \in Seq(LockRequest)
           /\ <<a, b>> \in Seq(LockRequest)
           /\ <<a>> # <<>> /\ <<a, b>> # <<>>
           /\ Head(<<a>>) = a /\ Head(<<a, b>>) = a
           /\ Tail(<<a>>) = <<>> /\ Tail(<<a, b>>) = <<b>>
           /\ <<a>> \o <<>> = <<a>> /\ <<a>> \o <<b>> = <<a, b>>
<1>1. <<>> \in Seq(LockRequest) /\ <<a>> \in Seq(LockRequest) /\ <<a, b>> \in Seq(LockRequest)
  OBVIOUS
<1>2. <<a>> # <<>> /\ <<a, b>> # <<>>
  OBVIOUS
<1>3. Head(<<a>>) = a /\ Head(<<a, b>>) = a
  OBVIOUS
<1>4. Tail(<<a>>) = <<>> /\ Tail(<<a, b>>) = <<b>>
  OBVIOUS
<1>5. <<a>> \o <<>> = <<a>> /\ <<a>> \o <<b>> = <<a, b>>
  <2>1. <<a>> \o <<>> = <<a>>
    BY <1>1, ConcatEmptySeq
  <2>2. <<b>> \in Seq(LockRequest)
    OBVIOUS
  <2>3. Len(<<a>> \o <<b>>) = 2 /\ (<<a>> \o <<b>>)[1] = a /\ (<<a>> \o <<b>>)[2] = b
    BY <1>1, <2>2
  <2>4. <<a>> \o <<b>> \in Seq(LockRequest)
    BY <1>1, <2>2
  <2>5. \A i \in 1 .. Len(<<a>> \o <<b>>) : (<<a>> \o <<b>>)[i] = <<a, b>>[i]
    BY <2>3
  <2>6. <<a>> \o <<b>> = <<a, b>>
    BY <1>1, <2>3, <2>4, <2>5, SeqEqual, Zenon
  <2>7. QED
    BY <2>1, <2>6
<1>6. QED
  BY <1>1, <1>2, <1>3, <1>4, <1>5

\* Their elements.
LEMMA ShortIn ==
    ASSUME NEW a, NEW b, NEW q
    PROVE  /\ ~In(<<>>, q)
           /\ In(<<a>>, q) <=> q = a
           /\ In(<<a, b>>, q) <=> q = a \/ q = b
<1>1. ~In(<<>>, q)
  BY DEF In
<1>2. In(<<a>>, q) <=> q = a
  BY DEF In
<1>3. In(<<a, b>>, q) <=> q = a \/ q = b
  BY DEF In
<1>4. QED
  BY <1>1, <1>2, <1>3

\* Nothing is in the empty sequence.
LEMMA EmptyIn == \A q : ~In(<<>>, q)
BY DEF In

\* A section is the beginning of a phase.
LEMMA SectionPhase ==
    ASSUME NEW sec \in Section
    PROVE  Phase(sec, <<>>) /\ sec # <<>>
<1>1. /\ \A f \in Lock : <<R(f)>> # <<>> /\ <<W(f)>> # <<>> /\ <<R(f), R(Other(f))>> # <<>>
      /\ Announcers \subseteq Lock /\ IPv4 \in Lock
  BY LockAssumption DEF Lock
<1>2. CASE sec \in {AnnounceOrder(f) : f \in Announcers} \cup {ScrapeOrder}
  <2>1. PICK f \in Announcers \cup {IPv4} : sec = <<R(f), R(Other(f))>>
    BY <1>2 DEF AnnounceOrder, ScrapeOrder, Other
  <2>2. QED
    BY <1>1, <2>1 DEF Phase
<1>3. CASE sec \in {<<W(f)>> : f \in Lock} \cup {<<R(f)>> : f \in Lock}
  BY <1>1, <1>3, RequestFacts DEF Phase
<1>4. QED
  BY <1>2, <1>3 DEF Section

\* Taking the next lock goes on to the next phase.
LEMMA GetPhase ==
    ASSUME NEW td, NEW hd, Phase(td, hd), td # <<>>
    PROVE  /\ Phase(Tail(td), <<Head(td)>> \o hd)
           /\ \A q : In(<<Head(td)>> \o hd, q) <=> q = Head(td) \/ In(hd, q)
<1>0. \A f \in Announcers \cup {IPv4} :
         f \in Lock /\ R(f) \in LockRequest /\ R(Other(f)) \in LockRequest
  BY RequestFacts, LockAssumption DEF Lock
<1>1. ASSUME NEW a \in LockRequest, td = <<a>>, hd = <<>>
      PROVE  /\ Phase(Tail(td), <<Head(td)>> \o hd)
             /\ \A q : In(<<Head(td)>> \o hd, q) <=> q = Head(td) \/ In(hd, q)
  <2>1. Tail(td) = <<>> /\ Head(td) = a /\ <<Head(td)>> \o hd = <<a>>
    BY <1>1, ShortSequences
  <2>2. Phase(<<>>, <<a>>)
    BY DEF Phase
  <2>3. \A q : In(<<a>>, q) <=> q = a \/ In(<<>>, q)
    BY ShortIn, Zenon
  <2>4. QED
    BY <1>1, <2>1, <2>2, <2>3
<1>2. ASSUME NEW f \in Announcers \cup {IPv4},
             td = <<R(f), R(Other(f))>>, hd = <<>>
      PROVE  /\ Phase(Tail(td), <<Head(td)>> \o hd)
             /\ \A q : In(<<Head(td)>> \o hd, q) <=> q = Head(td) \/ In(hd, q)
  <2>1. Tail(td) = <<R(Other(f))>> /\ Head(td) = R(f) /\ <<Head(td)>> \o hd = <<R(f)>>
    BY <1>0, <1>2, ShortSequences
  <2>2. Phase(<<R(Other(f))>>, <<R(f)>>)
    BY DEF Phase
  <2>3. \A q : In(<<R(f)>>, q) <=> q = R(f) \/ In(<<>>, q)
    BY ShortIn, Zenon
  <2>4. QED
    BY <1>2, <2>1, <2>2, <2>3
<1>3. ASSUME NEW f \in Announcers \cup {IPv4}, td = <<R(Other(f))>>, hd = <<R(f)>>
      PROVE  /\ Phase(Tail(td), <<Head(td)>> \o hd)
             /\ \A q : In(<<Head(td)>> \o hd, q) <=> q = Head(td) \/ In(hd, q)
  <2>1. /\ Tail(td) = <<>> /\ Head(td) = R(Other(f))
        /\ <<Head(td)>> \o hd = <<R(Other(f)), R(f)>>
    BY <1>0, <1>3, ShortSequences
  <2>2. Phase(<<>>, <<R(Other(f)), R(f)>>)
    BY DEF Phase
  <2>3. \A q : In(<<R(Other(f)), R(f)>>, q) <=> q = R(Other(f)) \/ In(<<R(f)>>, q)
    BY ShortIn, Zenon
  <2>4. QED
    BY <1>3, <2>1, <2>2, <2>3, Zenon
<1>4. QED
  BY <1>1, <1>2, <1>3 DEF Phase

\* Releasing the lock taken last goes on to the next phase.
LEMMA ReleasePhase ==
    ASSUME NEW hd, Phase(<<>>, hd), hd # <<>>
    PROVE  /\ Phase(<<>>, Tail(hd))
           /\ \A q : In(Tail(hd), q) <=> In(hd, q) /\ q # Head(hd)
           /\ In(hd, Head(hd))
<1>0. \A f \in Announcers \cup {IPv4} :
         /\ f \in Lock /\ R(f) \in LockRequest /\ R(Other(f)) \in LockRequest
         /\ R(f) # R(Other(f))
  BY RequestFacts, LockAssumption DEF Lock
<1>1. ASSUME NEW a \in LockRequest, hd = <<a>>
      PROVE  /\ Phase(<<>>, Tail(hd))
             /\ \A q : In(Tail(hd), q) <=> In(hd, q) /\ q # Head(hd)
             /\ In(hd, Head(hd))
  <2>1. Tail(hd) = <<>> /\ Head(hd) = a
    BY <1>1, ShortSequences
  <2>2. QED
    BY <1>1, <2>1, ShortIn, Zenon DEF Phase
<1>2. ASSUME NEW f \in Announcers \cup {IPv4}, hd = <<R(Other(f)), R(f)>>
      PROVE  /\ Phase(<<>>, Tail(hd))
             /\ \A q : In(Tail(hd), q) <=> In(hd, q) /\ q # Head(hd)
             /\ In(hd, Head(hd))
  <2>1. Tail(hd) = <<R(f)>> /\ Head(hd) = R(Other(f))
    BY <1>0, <1>2, ShortSequences
  <2>2. Phase(<<>>, <<R(f)>>)
    BY <1>0 DEF Phase
  <2>3. \A q : /\ In(<<R(f)>>, q) <=> q = R(f)
               /\ In(<<R(Other(f)), R(f)>>, q) <=> q = R(Other(f)) \/ q = R(f)
    BY ShortIn, Zenon
  <2>4. QED
    BY <1>0, <1>2, <2>1, <2>2, <2>3
<1>3. ASSUME NEW f \in Announcers \cup {IPv4}
      PROVE  <<>> # <<R(f), R(Other(f))>> /\ <<>> # <<R(Other(f))>>
  BY <1>0, ShortSequences
<1>4. \A q \in LockRequest : <<>> # <<q>>
  BY ShortSequences
<1>5. QED
  BY <1>1, <1>2, <1>3, <1>4 DEF Phase

\* Both lists of a phase are sequences of requests.
LEMMA PhaseType ==
    ASSUME NEW td, NEW hd, Phase(td, hd)
    PROVE  td \in Seq(LockRequest) /\ hd \in Seq(LockRequest)
<1>0. \A f \in Announcers \cup {IPv4} : R(f) \in LockRequest /\ R(Other(f)) \in LockRequest
  BY RequestFacts, LockAssumption DEF Lock
<1>1. <<>> \in Seq(LockRequest)
  OBVIOUS
<1>2. QED
  BY <1>0, <1>1, ShortSequences, Zenon DEF Phase

-----------------------------------------------------------------------------
\* A goroutine that takes the lock at the head of its list.
LEMMA GotFrame ==
    ASSUME IInv, NEW t \in Thread, todo[t] # <<>>, Got(t)
    PROVE  /\ todo' \in [Thread -> Seq(LockRequest)]
           /\ held' \in [Thread -> Seq(LockRequest)]
           /\ Phases'
           /\ \A u \in Thread : u # t => todo'[u] = todo[u] /\ held'[u] = held[u]
           /\ \A q : In(held'[t], q) <=> q = Head(todo[t]) \/ In(held[t], q)
<1>1. /\ todo \in [Thread -> Seq(LockRequest)] /\ held \in [Thread -> Seq(LockRequest)]
      /\ \A u \in Thread : Phase(todo[u], held[u])
  BY DEF IInv, TypeOK, Phases
<1>2. /\ todo'[t] = Tail(todo[t]) /\ held'[t] = <<Head(todo[t])>> \o held[t]
      /\ \A u \in Thread : u # t => todo'[u] = todo[u] /\ held'[u] = held[u]
  BY <1>1 DEF Got
<1>3. /\ Phase(todo'[t], held'[t])
      /\ \A q : In(held'[t], q) <=> q = Head(todo[t]) \/ In(held[t], q)
  BY <1>1, <1>2, GetPhase
<1>4. \A u \in Thread : Phase(todo'[u], held'[u])
  BY <1>1, <1>2, <1>3, Zenon
<1>5. \A u \in Thread : todo'[u] \in Seq(LockRequest) /\ held'[u] \in Seq(LockRequest)
  BY <1>4, PhaseType
<1>6. QED
  BY <1>1, <1>2, <1>3, <1>4, <1>5, Zenon DEF Got, Phases

\* A goroutine that releases the lock it took last.
LEMMA ReleaseFrame ==
    ASSUME IInv, NEW t \in Thread, NEW q, Releases(t, q)
    PROVE  /\ Phase(<<>>, Tail(held[t]))
           /\ \A x : In(Tail(held[t]), x) <=> In(held[t], x) /\ x # q
           /\ In(held[t], q)
           /\ \A f \in Lock : t \notin queued[f] /\ (pending[f] = t => writing[f])
<1>1. Phase(<<>>, held[t]) /\ held[t] # <<>> /\ Head(held[t]) = q
  BY DEF IInv, Phases, Releases
<1>2. \A f \in Lock : t \notin queued[f] /\ (pending[f] = t => writing[f])
  BY DEF IInv, QueuedWait, PendingWait, Releases, TypeOK
<1>3. QED
  BY <1>1, <1>2, ReleasePhase

\* The first step of a method.
LEMMA BeginInv ==
    ASSUME IInv, NEW t \in Thread, NEW sec \in Section, Begin(t, sec)
    PROVE  IInv'
<1>0. todo \in [Thread -> Seq(LockRequest)] /\ todo[t] = <<>> /\ held[t] = <<>>
  BY DEF IInv, TypeOK, Begin, Idle
<1>1. /\ todo'[t] = sec /\ \A u \in Thread : u # t => todo'[u] = todo[u]
      /\ UNCHANGED <<readers, queued, pending, writing, held, reading>>
  BY <1>0 DEF Begin
<1>2. Phase(sec, <<>>) /\ sec \in Seq(LockRequest)
  BY SectionPhase, PhaseType
<1>3. TypeOK'
  <2>1. todo' \in [Thread -> Seq(LockRequest)]
    BY <1>0, <1>2 DEF Begin
  <2>2. QED
    BY <1>1, <2>1 DEF IInv, TypeOK
<1>4. Phases'
  BY <1>0, <1>1, <1>2 DEF IInv, Phases
<1>5. ReadersHold' /\ WriterHolds' /\ Exclusive' /\ ReadingHolds'
  BY <1>1 DEF IInv, ReadersHold, WriterHolds, Exclusive, ReadingHolds
<1>6. QueuedWait' /\ PendingWait'
  BY <1>0, <1>1 DEF IInv, QueuedWait, PendingWait
<1>7. QED
  BY <1>3, <1>4, <1>5, <1>6 DEF IInv

\* RLock without a writer.
LEMMA RLockInv ==
    ASSUME IInv, NEW t \in Thread, NEW f \in Lock, RLock(t, f)
    PROVE  IInv'
<1>0. /\ TypeOK /\ todo[t] # <<>> /\ Head(todo[t]) = R(f) /\ ~Waiting(t) /\ Got(t)
      /\ pending[f] = Nobody /\ ~writing[f]
      /\ UNCHANGED <<queued, pending, writing>>
  BY DEF IInv, RLock, Requests, TypeOK
<1>1. /\ todo' \in [Thread -> Seq(LockRequest)]
      /\ held' \in [Thread -> Seq(LockRequest)]
      /\ Phases'
      /\ \A u \in Thread : u # t => todo'[u] = todo[u] /\ held'[u] = held[u]
      /\ \A q : In(held'[t], q) <=> q = R(f) \/ In(held[t], q)
  BY <1>0, GotFrame, Zenon
<1>2. /\ readers' \in [Lock -> SUBSET Thread] /\ readers'[f] = readers[f] \cup {t}
      /\ \A g \in Lock : g # f => readers'[g] = readers[g]
  BY <1>0 DEF RLock, TypeOK
<1>2a. /\ reading' \in [Thread -> SUBSET Lock] /\ reading'[t] = reading[t] \cup {f}
       /\ \A u \in Thread : u # t => reading'[u] = reading[u]
  BY <1>0 DEF RLock, TypeOK
<1>3. TypeOK'
  BY <1>0, <1>1, <1>2, <1>2a DEF TypeOK
<1>4. ReadersHold'
  BY <1>1, <1>2, RequestFacts, Zenon DEF IInv, ReadersHold
<1>5. WriterHolds'
  BY <1>0, <1>1, RequestFacts, Zenon DEF IInv, WriterHolds
<1>6. Exclusive'
  BY <1>0, <1>2 DEF IInv, Exclusive
<1>7. QueuedWait' /\ PendingWait'
  BY <1>0, <1>1, Zenon DEF IInv, QueuedWait, PendingWait, Waiting
<1>8. ReadingHolds'
  BY <1>1, <1>2a, Zenon DEF IInv, ReadingHolds
<1>9. QED
  BY <1>1, <1>3, <1>4, <1>5, <1>6, <1>7, <1>8 DEF IInv

\* A reader or a writer starts to wait.
LEMMA WaitInv ==
    ASSUME IInv, NEW t \in Thread, NEW f \in Lock,
           RLockBlocks(t, f) \/ LockAnnounce(t, f)
    PROVE  IInv'
<1>0. UNCHANGED <<readers, writing, todo, held, reading>> /\ TypeOK
  BY DEF IInv, RLockBlocks, LockAnnounce
<1>1. Phases' /\ ReadersHold' /\ Exclusive' /\ ReadingHolds'
  BY <1>0 DEF IInv, Phases, ReadersHold, Exclusive, ReadingHolds
<1>2. CASE RLockBlocks(t, f)
  <2>1. /\ pending' = pending /\ todo[t] # <<>> /\ Head(todo[t]) = R(f)
        /\ pending[f] # Nobody /\ queued' = [queued EXCEPT ![f] = @ \cup {t}]
    BY <1>2 DEF RLockBlocks, Requests
  <2>2. TypeOK'
    BY <1>0, <2>1 DEF TypeOK
  <2>3. QueuedWait' /\ PendingWait' /\ WriterHolds'
    BY <1>0, <2>1 DEF IInv, TypeOK, QueuedWait, PendingWait, WriterHolds
  <2>4. QED
    BY <1>1, <2>2, <2>3 DEF IInv
<1>3. CASE LockAnnounce(t, f)
  <2>1. /\ queued' = queued /\ todo[t] # <<>> /\ Head(todo[t]) = W(f)
        /\ pending[f] = Nobody /\ pending' = [pending EXCEPT ![f] = t]
        /\ ~writing[f] /\ queued[f] = {}
    BY <1>0, <1>3 DEF LockAnnounce, Requests, TypeOK
  <2>2. TypeOK'
    BY <1>0, <2>1, LockAssumption DEF TypeOK
  <2>3. QueuedWait' /\ PendingWait' /\ WriterHolds'
    BY <1>0, <2>1 DEF IInv, TypeOK, QueuedWait, PendingWait, WriterHolds
  <2>4. QED
    BY <1>1, <2>2, <2>3 DEF IInv
<1>4. QED
  BY <1>2, <1>3

\* The writer gets the lock.
LEMMA LockEnterInv ==
    ASSUME IInv, NEW t \in Thread, NEW f \in Lock, LockEnter(t, f)
    PROVE  IInv'
<1>0. /\ TypeOK /\ pending[f] = t /\ ~writing[f] /\ readers[f] = {} /\ Got(t)
      /\ UNCHANGED <<readers, queued, pending, reading>>
      /\ todo[t] # <<>> /\ Head(todo[t]) = W(f)
  BY DEF IInv, LockEnter, PendingWait
<1>1. /\ todo' \in [Thread -> Seq(LockRequest)]
      /\ held' \in [Thread -> Seq(LockRequest)]
      /\ Phases'
      /\ \A u \in Thread : u # t => todo'[u] = todo[u] /\ held'[u] = held[u]
      /\ \A q : In(held'[t], q) <=> q = W(f) \/ In(held[t], q)
  BY <1>0, GotFrame, Zenon
<1>2. /\ writing' \in [Lock -> BOOLEAN] /\ writing'[f]
      /\ \A g \in Lock : g # f => writing'[g] = writing[g]
  BY <1>0 DEF LockEnter, TypeOK
<1>3. TypeOK'
  <2>1. \A g \in Lock : pending[g] = Nobody => queued[g] = {} /\ ~writing'[g]
    BY <1>0, <1>2, LockAssumption DEF TypeOK
  <2>2. QED
    BY <1>0, <1>1, <1>2, <2>1 DEF TypeOK
<1>4. ReadersHold'
  BY <1>0, <1>1, RequestFacts, Zenon DEF IInv, ReadersHold
<1>5. WriterHolds'
  <2> SUFFICES ASSUME NEW u \in Thread, NEW g \in Lock
               PROVE  In(held'[u], W(g)) <=> pending[g] = u /\ writing'[g]
    BY <1>0 DEF WriterHolds
  <2>1. In(held[u], W(g)) <=> pending[g] = u /\ writing[g]
    BY DEF IInv, WriterHolds
  <2>2. CASE g = f
    <3>1. CASE u = t
      BY <1>0, <1>1, <1>2, <2>2, <3>1
    <3>2. CASE u # t
      <4>1. In(held'[u], W(g)) <=> In(held[u], W(g))
        BY <1>1, <3>2
      <4>2. pending[g] # u
        BY <1>0, <2>2, <3>2
      <4>3. QED
        BY <2>1, <4>1, <4>2
    <3>3. QED
      BY <3>1, <3>2
  <2>3. CASE g # f
    <3>1. W(g) # W(f)
      BY <2>3, RequestFacts
    <3>2. In(held'[u], W(g)) <=> In(held[u], W(g))
      BY <1>1, <3>1
    <3>3. QED
      BY <1>2, <2>1, <2>3, <3>2
  <2>4. QED
    BY <2>2, <2>3
<1>6. Exclusive'
  BY <1>0, <1>2 DEF IInv, Exclusive
<1>7. \A g \in Lock : t \notin queued[g] /\ (g # f /\ pending[g] = t => writing[g])
  BY <1>0, RequestFacts DEF IInv, QueuedWait, PendingWait
<1>8. QueuedWait'
  BY <1>0, <1>1, <1>7 DEF IInv, QueuedWait
<1>9. PendingWait'
  <2> SUFFICES ASSUME NEW u \in Thread, NEW g \in Lock, pending[g] = u, ~writing'[g]
               PROVE  todo'[u] # <<>> /\ Head(todo'[u]) = W(g)
    BY <1>0 DEF PendingWait
  <2>1. g # f /\ ~writing[g]
    BY <1>2
  <2>2. u # t
    BY <1>7, <2>1
  <2>3. QED
    BY <1>1, <2>1, <2>2 DEF IInv, PendingWait
<1>10. ReadingHolds'
  BY <1>0, <1>1, Zenon DEF IInv, ReadingHolds
<1>11. QED
  BY <1>1, <1>3, <1>4, <1>5, <1>6, <1>8, <1>9, <1>10 DEF IInv

\* RUnlock.
LEMMA RUnlockInv ==
    ASSUME IInv, NEW t \in Thread, NEW f \in Lock, RUnlock(t, f)
    PROVE  IInv'
<1>0. /\ TypeOK /\ Releases(t, R(f)) /\ todo[t] = <<>> /\ reading[t] = {}
      /\ UNCHANGED <<queued, pending, writing, todo, reading>>
  BY DEF IInv, RUnlock, Releases
<1>1. /\ Phase(<<>>, Tail(held[t]))
      /\ \A x : In(Tail(held[t]), x) <=> In(held[t], x) /\ x # R(f)
      /\ Tail(held[t]) \in Seq(LockRequest)
  BY <1>0, ReleaseFrame, PhaseType, Zenon
<1>2. /\ held'[t] = Tail(held[t]) /\ held' \in [Thread -> Seq(LockRequest)]
      /\ \A u \in Thread : u # t => held'[u] = held[u]
  BY <1>0, <1>1 DEF RUnlock, TypeOK
<1>3. /\ readers' \in [Lock -> SUBSET Thread] /\ readers'[f] = readers[f] \ {t}
      /\ \A g \in Lock : g # f => readers'[g] = readers[g]
  BY <1>0 DEF RUnlock, TypeOK
<1>4. TypeOK'
  BY <1>0, <1>2, <1>3 DEF TypeOK
<1>5. Phases'
  BY <1>0, <1>1, <1>2, Zenon DEF IInv, Phases
<1>6. ReadersHold'
  BY <1>1, <1>2, <1>3, RequestFacts, Zenon DEF IInv, ReadersHold
<1>7. WriterHolds'
  <2> SUFFICES ASSUME NEW u \in Thread, NEW g \in Lock
               PROVE  In(held'[u], W(g)) <=> pending[g] = u /\ writing[g]
    BY <1>0 DEF WriterHolds
  <2>1. R(f) # W(g)
    BY RequestFacts
  <2>2. In(held'[u], W(g)) <=> In(held[u], W(g))
    BY <1>1, <1>2, <2>1, Zenon
  <2>3. QED
    BY <2>2 DEF IInv, WriterHolds
<1>8. Exclusive'
  BY <1>0, <1>3 DEF IInv, Exclusive
<1>9. QueuedWait' /\ PendingWait'
  BY <1>0 DEF IInv, QueuedWait, PendingWait
<1>10. ReadingHolds'
  BY <1>0, <1>2 DEF IInv, ReadingHolds
<1>11. QED
  BY <1>4, <1>5, <1>6, <1>7, <1>8, <1>9, <1>10 DEF IInv

\* The work of a reading method.
LEMMA ReadShardsInv ==
    ASSUME IInv, NEW t \in Thread, ReadShards(t)
    PROVE  IInv'
<1>1. /\ UNCHANGED <<readers, queued, pending, writing, todo, held>>
      /\ reading' = [reading EXCEPT ![t] = {}]
  BY DEF ReadShards
<1>2. TypeOK' /\ ReadingHolds'
  BY <1>1 DEF IInv, TypeOK, ReadingHolds
<1>3. Phases' /\ ReadersHold' /\ WriterHolds' /\ Exclusive' /\ QueuedWait' /\ PendingWait'
  BY <1>1 DEF IInv, Phases, ReadersHold, WriterHolds, Exclusive, QueuedWait, PendingWait
<1>4. QED
  BY <1>2, <1>3 DEF IInv

\* Unlock, which lets in the readers that waited.
LEMMA UnlockInv ==
    ASSUME IInv, NEW t \in Thread, NEW f \in Lock, Unlock(t, f)
    PROVE  IInv'
<1>0. TypeOK /\ Releases(t, W(f)) /\ todo[t] = <<>>
  BY DEF IInv, Unlock, Releases
<1>1. /\ Phase(<<>>, Tail(held[t]))
      /\ \A x : In(Tail(held[t]), x) <=> In(held[t], x) /\ x # W(f)
      /\ In(held[t], W(f))
      /\ \A g \in Lock : t \notin queued[g] /\ (pending[g] = t => writing[g])
  BY <1>0, ReleaseFrame
<1>2. pending[f] = t /\ writing[f] /\ readers[f] = {}
  BY <1>1 DEF IInv, WriterHolds, Exclusive
<1>3. \A u \in Thread : u \notin readers[f] /\ (u # t => ~In(held[u], W(f)))
  BY <1>2 DEF IInv, WriterHolds
<1>4. held'[t] = Tail(held[t]) /\ todo'[t] = todo[t]
  BY <1>1 DEF Unlock
<1>5. ASSUME NEW u \in queued[f]
      PROVE  /\ u \in Thread /\ u # t /\ todo[u] # <<>> /\ Head(todo[u]) = R(f)
             /\ todo'[u] = Tail(todo[u]) /\ held'[u] = <<Head(todo[u])>> \o held[u]
             /\ Phase(todo'[u], held'[u])
             /\ \A x : In(held'[u], x) <=> x = R(f) \/ In(held[u], x)
             /\ \A g \in Lock : /\ g # f => u \notin queued[g]
                                /\ pending[g] = u => writing[g]
  <2>1. u \in Thread /\ u # t
    BY <1>0, <1>1 DEF TypeOK
  <2>2. todo[u] # <<>> /\ Head(todo[u]) = R(f)
    BY <2>1 DEF IInv, QueuedWait
  <2>3. todo'[u] = Tail(todo[u]) /\ held'[u] = <<Head(todo[u])>> \o held[u]
    BY <2>1, <2>2 DEF Unlock
  <2>4. Phase(todo[u], held[u])
    BY <2>1 DEF IInv, Phases
  <2>5. /\ Phase(todo'[u], held'[u])
        /\ \A x : In(held'[u], x) <=> x = R(f) \/ In(held[u], x)
    BY <2>2, <2>3, <2>4, GetPhase
  <2>6. \A g \in Lock : /\ g # f => u \notin queued[g]
                        /\ pending[g] = u => writing[g]
    BY <2>1, <2>2, RequestFacts DEF IInv, QueuedWait, PendingWait
  <2>7. QED
    BY <2>1, <2>2, <2>3, <2>5, <2>6
<1>6. \A u \in Thread : u # t /\ u \notin queued[f] =>
          held'[u] = held[u] /\ todo'[u] = todo[u]
  BY DEF Unlock
<1>7. /\ pending' = [pending EXCEPT ![f] = Nobody]
      /\ writing' = [writing EXCEPT ![f] = FALSE]
      /\ readers' = [readers EXCEPT ![f] = queued[f]]
      /\ queued' = [queued EXCEPT ![f] = {}]
  BY DEF Unlock
<1>8. /\ pending'[f] = Nobody /\ ~writing'[f] /\ readers'[f] = queued[f] /\ queued'[f] = {}
      /\ \A g \in Lock : g # f => /\ pending'[g] = pending[g] /\ writing'[g] = writing[g]
                                  /\ readers'[g] = readers[g] /\ queued'[g] = queued[g]
  BY <1>0, <1>7 DEF TypeOK
<1>9. Phases'
  <2>1. Phase(todo'[t], held'[t])
    BY <1>0, <1>1, <1>4
  <2>2. QED
    BY <1>5, <1>6, <2>1, Zenon DEF IInv, Phases
<1>10. TypeOK'
  <2>1. \A u \in Thread : todo'[u] \in Seq(LockRequest) /\ held'[u] \in Seq(LockRequest)
    BY <1>9, PhaseType DEF Phases
  <2>2. todo' \in [Thread -> Seq(LockRequest)] /\ held' \in [Thread -> Seq(LockRequest)]
    <3>1. /\ todo' = [u \in Thread |-> todo'[u]]
          /\ held' = [u \in Thread |-> held'[u]]
      BY DEF Unlock
    <3>2. QED
      BY <2>1, <3>1
  <2>3. /\ pending' \in [Lock -> Thread \cup {Nobody}] /\ writing' \in [Lock -> BOOLEAN]
        /\ readers' \in [Lock -> SUBSET Thread] /\ queued' \in [Lock -> SUBSET Thread]
    BY <1>0, <1>7 DEF TypeOK
  <2>4. \A g \in Lock : pending'[g] = Nobody => queued'[g] = {} /\ ~writing'[g]
    BY <1>0, <1>8, Zenon DEF TypeOK
  <2>5. reading' \in [Thread -> SUBSET Lock]
    BY <1>0 DEF Unlock, TypeOK
  <2>6. QED
    BY <2>2, <2>3, <2>4, <2>5 DEF TypeOK
<1>11. ReadersHold'
  <2> SUFFICES ASSUME NEW u \in Thread, NEW g \in Lock
               PROVE  u \in readers'[g] <=> In(held'[u], R(g))
    BY DEF ReadersHold
  <2>0. /\ u \in readers[g] <=> In(held[u], R(g))
        /\ R(g) # W(f) /\ (R(g) = R(f) => g = f)
    BY RequestFacts DEF IInv, ReadersHold
  <2>1. CASE u = t
    BY <1>1, <1>3, <1>4, <1>8, <2>0, <2>1
  <2>2. CASE u \in queued[f]
    BY <1>5, <1>8, <2>0, <2>2, Zenon
  <2>3. CASE u # t /\ u \notin queued[f]
    BY <1>3, <1>6, <1>8, <2>0, <2>3
  <2>4. QED
    BY <2>1, <2>2, <2>3
<1>12. WriterHolds'
  <2> SUFFICES ASSUME NEW u \in Thread, NEW g \in Lock
               PROVE  In(held'[u], W(g)) <=> pending'[g] = u /\ writing'[g]
    BY DEF WriterHolds
  <2>0. /\ In(held[u], W(g)) <=> pending[g] = u /\ writing[g]
        /\ R(f) # W(g) /\ (W(g) = W(f) => g = f)
    BY RequestFacts DEF IInv, WriterHolds
  <2>1. In(held'[u], W(g)) <=> In(held[u], W(g)) /\ g # f
    <3>1. CASE u = t
      BY <1>1, <1>4, <2>0, <3>1
    <3>2. CASE u \in queued[f]
      BY <1>3, <1>5, <2>0, <3>2, Zenon
    <3>3. CASE u # t /\ u \notin queued[f]
      BY <1>3, <1>6, <3>3
    <3>4. QED
      BY <3>1, <3>2, <3>3
  <2>2. CASE g = f
    BY <1>8, <2>1, <2>2
  <2>3. CASE g # f
    BY <1>8, <2>0, <2>1, <2>3
  <2>4. QED
    BY <2>2, <2>3
<1>13. Exclusive'
  BY <1>8 DEF IInv, Exclusive
<1>14. QueuedWait'
  <2> SUFFICES ASSUME NEW u \in Thread, NEW g \in Lock, u \in queued'[g]
               PROVE  todo'[u] # <<>> /\ Head(todo'[u]) = R(g)
    BY DEF QueuedWait
  <2>1. g # f /\ u \in queued[g]
    BY <1>8
  <2>2. u # t /\ u \notin queued[f]
    BY <1>1, <1>5, <2>1, Zenon
  <2>3. QED
    BY <1>6, <2>1, <2>2 DEF IInv, QueuedWait
<1>15. PendingWait'
  <2> SUFFICES ASSUME NEW u \in Thread, NEW g \in Lock, pending'[g] = u, ~writing'[g]
               PROVE  todo'[u] # <<>> /\ Head(todo'[u]) = W(g)
    BY DEF PendingWait
  <2>1. g # f /\ pending[g] = u /\ ~writing[g]
    BY <1>8, LockAssumption
  <2>2. u # t /\ u \notin queued[f]
    BY <1>1, <1>5, <2>1, Zenon
  <2>3. QED
    BY <1>6, <2>1, <2>2 DEF IInv, PendingWait
<1>16. ReadingHolds'
  <2> SUFFICES ASSUME NEW u \in Thread, NEW g \in Lock, g \in reading'[u]
               PROVE  In(held'[u], R(g))
    BY DEF ReadingHolds
  <2>1. CASE u \in queued[f]
    <3>1. g = f \/ g \in reading[u]
      BY <2>1 DEF Unlock
    <3>2. g = f \/ In(held[u], R(g))
      BY <3>1 DEF IInv, ReadingHolds
    <3>3. QED
      BY <1>5, <2>1, <3>2, Zenon
  <2>2. CASE u \notin queued[f]
    <3>1. In(held[u], R(g))
      BY <2>2 DEF Unlock, IInv, ReadingHolds
    <3>2. R(g) # W(f)
      BY RequestFacts
    <3>3. QED
      BY <1>1, <1>4, <1>6, <2>2, <3>1, <3>2, Zenon
  <2>3. QED
    BY <2>1, <2>2
<1>17. QED
  BY <1>9, <1>10, <1>11, <1>12, <1>13, <1>14, <1>15, <1>16 DEF IInv

-----------------------------------------------------------------------------
\* The initial state satisfies the invariant.
LEMMA InitInv == Init => IInv
<1> SUFFICES ASSUME Init PROVE IInv
  OBVIOUS
<1>1. <<>> \in Seq(LockRequest) /\ \A q : ~In(<<>>, q)
  BY EmptyIn
<1>2. TypeOK
  BY <1>1 DEF Init, TypeOK
<1>3. Phases
  BY Zenon DEF Init, Phases, Phase
<1>4. ReadersHold /\ WriterHolds
  BY <1>1 DEF Init, ReadersHold, WriterHolds
<1>5. Exclusive /\ QueuedWait
  BY DEF Init, Exclusive, QueuedWait
<1>6. PendingWait
  BY LockAssumption DEF Init, PendingWait
<1>7. ReadingHolds
  BY DEF Init, ReadingHolds
<1>8. QED
  BY <1>2, <1>3, <1>4, <1>5, <1>6, <1>7 DEF IInv

\* The agreement of locks and goroutines is kept by every step.
THEOREM Invariance == Spec => []IInv
<1>1. Init => IInv
  BY InitInv
<1>2. IInv /\ [Next]_vars => IInv'
  <2> SUFFICES ASSUME IInv, [Next]_vars PROVE IInv'
    OBVIOUS
  <2>1. CASE UNCHANGED vars
    BY <2>1 DEF vars, IInv, TypeOK, Phases, ReadersHold, WriterHolds, Exclusive,
       QueuedWait, PendingWait, ReadingHolds
  <2>2. QED
    BY <2>1, BeginInv, RLockInv, WaitInv, LockEnterInv, ReadShardsInv, RUnlockInv, UnlockInv
       DEF Next, Step
<1>3. QED
  BY <1>1, <1>2, PTL DEF Spec

\* The locks and the lists of the goroutines keep their types, and readers
\* wait only behind a writer.
THEOREM TypeCorrect == Spec => []TypeOK
<1>1. IInv => TypeOK
  BY DEF IInv
<1>2. QED
  BY <1>1, Invariance, PTL

\* For any number of goroutines and announcers of both families, nobody writes
\* to a shard that a method under way has locked to read, from its first lock
\* until its answer is put together (AnnouncePeers, ScrapeSwarm, the writing
\* methods).
THEOREM ReadsAreSnapshots == Spec => []SnapshotReads
<1>1. IInv => SnapshotReads
  <2> SUFFICES ASSUME IInv, NEW t \in Thread, NEW u \in Thread, NEW f \in Lock,
                      f \in reading[t], In(held[u], W(f))
               PROVE  FALSE
    BY DEF SnapshotReads, Holds, In
  <2>1. writing[f] /\ readers[f] = {}
    BY DEF IInv, WriterHolds, Exclusive
  <2>2. t \in readers[f]
    BY DEF IInv, ReadersHold, ReadingHolds
  <2>3. QED
    BY <2>1, <2>2
<1>2. QED
  BY <1>1, Invariance, PTL

-----------------------------------------------------------------------------
(***************************************************************************)
(* Deadlock.  When only IPv4 peers announce, every method that takes both   *)
(* locks takes the IPv4 one first.  So a goroutine that holds the IPv6 lock *)
(* has all its locks and can release it; when nobody holds it, whoever      *)
(* wants it can go on; and when nobody wants it either, whoever holds or    *)
(* wants the IPv4 lock can.                                                 *)
(***************************************************************************)
\* A goroutine that holds the IPv6 lock wants nothing; one that holds the IPv4
\* lock wants nothing or the IPv6 lock.
LEMMA LockOrder ==
    ASSUME Announcers \subseteq {IPv4}, NEW td, NEW hd, Phase(td, hd), td # <<>>
    PROVE  /\ \A m \in {R(IPv6), W(IPv6)} : ~In(hd, m)
           /\ Head(td) \in {R(IPv4), W(IPv4)} => \A q : ~In(hd, q)
           /\ Head(td) \in LockRequest
<1>0. /\ IPv4 \in Lock /\ IPv6 \in Lock /\ Other(IPv4) = IPv6
      /\ R(IPv4) \in LockRequest /\ R(IPv6) \in LockRequest
      /\ R(IPv4) # R(IPv6) /\ R(IPv4) # W(IPv6)
      /\ R(IPv6) # W(IPv4)
  BY RequestFacts, LockAssumption DEF Lock, Other
<1>1. CASE \E q \in LockRequest : td = <<q>> /\ hd = <<>>
  BY <1>1, ShortSequences, EmptyIn
<1>2. CASE td = <<R(IPv4), R(IPv6)>> /\ hd = <<>>
  <2>1. Head(td) = R(IPv4)
    BY <1>0, <1>2, ShortSequences
  <2>2. QED
    BY <1>0, <1>2, <2>1, EmptyIn
<1>3. CASE td = <<R(IPv6)>> /\ hd = <<R(IPv4)>>
  <2>1. Head(td) = R(IPv6)
    BY <1>0, <1>3, ShortSequences
  <2>2. \A q : In(hd, q) <=> q = R(IPv4)
    BY <1>3, ShortIn, Zenon
  <2>3. QED
    BY <1>0, <2>1, <2>2
<1>4. \A f \in Announcers \cup {IPv4} : f = IPv4
  OBVIOUS
<1>5. QED
  BY <1>0, <1>1, <1>2, <1>3, <1>4 DEF Phase

\* Goroutines never wait for one another in a circle as long as only IPv4
\* peers announce, however many goroutines there are.
LEMMA SomebodyGoesOn ==
    ASSUME IInv, Announcers \subseteq {IPv4}
    PROVE  NoDeadlock
<1> SUFFICES ASSUME NEW a \in Thread, ~Idle(a),
                    \A t \in Thread : ~Idle(t) => Blocked(t)
             PROVE  FALSE
  BY DEF NoDeadlock
<1>0. /\ IPv4 \in Lock /\ IPv6 \in Lock /\ \A f \in Lock : f = IPv4 \/ f = IPv6
      /\ TypeOK
  BY DEF Lock, IInv
<1>1. ASSUME NEW t \in Thread, ~Idle(t)
      PROVE  todo[t] # <<>>
  <2>1. Blocked(t)
    BY <1>1
  <2>2. QED
    BY <2>1 DEF Blocked, IInv, QueuedWait, PendingWait
<1>2. ASSUME NEW t \in Thread
      PROVE  Phase(todo[t], held[t])
  BY DEF IInv, Phases
<1>3. ASSUME NEW f \in Lock, readers[f] = {}, ~writing[f]
      PROVE  /\ pending[f] = Nobody /\ queued[f] = {}
             /\ \A t \in Thread : todo[t] # <<>> => Head(todo[t]) \notin {R(f), W(f)}
  <2>1. ASSUME NEW t \in Thread, pending[f] = t
        PROVE  FALSE
    <3>1. todo[t] # <<>> /\ Head(todo[t]) = W(f)
      BY <1>3, <2>1 DEF IInv, PendingWait
    <3>2. ~Idle(t) /\ Blocked(t)
      BY <3>1 DEF Idle
    <3>3. Waiting(t)
      BY <1>3, <2>1 DEF Waiting
    <3>4. \A g \in Lock : t \notin queued[g]
      BY <3>1, RequestFacts DEF IInv, QueuedWait
    <3>5. PICK g \in Lock : pending[g] = t /\ ~writing[g] /\ readers[g] # {}
      BY <3>2, <3>3, <3>4 DEF Blocked
    <3>6. Head(todo[t]) = W(g)
      BY <3>5 DEF IInv, PendingWait
    <3>7. g = f
      BY <3>1, <3>6, RequestFacts
    <3>8. QED
      BY <1>3, <3>5, <3>7
  <2>2. pending[f] = Nobody /\ queued[f] = {}
    BY <1>0, <2>1 DEF TypeOK
  <2>3. ASSUME NEW t \in Thread, todo[t] # <<>>, Head(todo[t]) \in {R(f), W(f)}
        PROVE  FALSE
    <3>1. ~Idle(t) /\ Blocked(t)
      BY <2>3 DEF Idle
    <3>2. \A g \in Lock : t \in queued[g] => g = f
      BY <2>3, RequestFacts DEF IInv, QueuedWait
    <3>3. \A g \in Lock : pending[g] = t /\ ~writing[g] => g = f
      BY <2>3, RequestFacts DEF IInv, PendingWait
    <3>4. Head(todo[t]).lock = f
      BY <2>3 DEF R, W
    <3>5. pending[f] # t
      BY <2>2, LockAssumption
    <3>6. QED
      BY <2>2, <3>1, <3>2, <3>3, <3>4, <3>5 DEF Blocked
  <2>4. QED
    BY <2>2, <2>3
<1>4. readers[IPv6] = {} /\ ~writing[IPv6]
  <2>1. ASSUME NEW t \in Thread, In(held[t], R(IPv6)) \/ In(held[t], W(IPv6))
        PROVE  FALSE
    <3>1. ~Idle(t)
      <4>1. held[t] # <<>>
        BY <2>1, EmptyIn
      <4>2. QED
        BY <4>1 DEF Idle
    <3>2. QED
      BY <1>1, <1>2, <2>1, <3>1, LockOrder
  <2>2. readers[IPv6] = {}
    BY <1>0, <2>1 DEF IInv, TypeOK, ReadersHold
  <2>3. ASSUME writing[IPv6]
        PROVE  FALSE
    <3>1. pending[IPv6] \in Thread
      BY <1>0, <2>3 DEF TypeOK
    <3>2. In(held[pending[IPv6]], W(IPv6))
      BY <1>0, <2>3, <3>1 DEF IInv, WriterHolds
    <3>3. QED
      BY <2>1, <3>1, <3>2
  <2>4. QED
    BY <2>2, <2>3
<1>5. ASSUME NEW t \in Thread, ~Idle(t)
      PROVE  Head(todo[t]) \in {R(IPv4), W(IPv4)} /\ \A q : ~In(held[t], q)
  <2>1. todo[t] # <<>> /\ Head(todo[t]) \in LockRequest
    BY <1>1, <1>2, <1>5, LockOrder
  <2>2. Head(todo[t]) \notin {R(IPv6), W(IPv6)}
    BY <1>0, <1>3, <1>4, <2>1
  <2>3. Head(todo[t]) \in {R(IPv4), W(IPv4)}
    BY <1>0, <2>1, <2>2, RequestFacts
  <2>4. QED
    BY <1>2, <2>1, <2>3, LockOrder
<1>6. ASSUME NEW t \in Thread, NEW q
      PROVE  ~In(held[t], q)
  <2>1. CASE Idle(t)
    BY <2>1, EmptyIn DEF Idle
  <2>2. CASE ~Idle(t)
    BY <1>5, <2>2
  <2>3. QED
    BY <2>1, <2>2
<1>7. readers[IPv4] = {} /\ ~writing[IPv4]
  <2>1. readers[IPv4] = {}
    BY <1>0, <1>6 DEF IInv, TypeOK, ReadersHold
  <2>2. ASSUME writing[IPv4]
        PROVE  FALSE
    <3>1. pending[IPv4] \in Thread
      BY <1>0, <2>2 DEF TypeOK
    <3>2. In(held[pending[IPv4]], W(IPv4))
      BY <1>0, <2>2, <3>1 DEF IInv, WriterHolds
    <3>3. QED
      BY <1>6, <3>1, <3>2
  <2>3. QED
    BY <2>1, <2>2
<1>8. QED
  BY <1>0, <1>1, <1>3, <1>5, <1>7

\* With announcing peers of one family, IPv4, no number of announces, scrapes,
\* updates, collections and readings of the counters can deadlock on the two
\* locks of an infohash (AnnouncePeers, ScrapeSwarm).
THEOREM IPv4NeverDeadlocks == Announcers \subseteq {IPv4} => (Spec => []NoDeadlock)
<1> SUFFICES ASSUME Announcers \subseteq {IPv4} PROVE Spec => []NoDeadlock
  OBVIOUS
<1>1. IInv => NoDeadlock
  BY SomebodyGoesOn
<1>2. QED
  BY <1>1, Invariance, PTL

=============================================================================
