-------------------------- MODULE TrafficPushProofs --------------------------
(***************************************************************************)
(* The proofs that the stream never holds more traffic than was told of,    *)
(* and that nothing is lost without a fault.                                *)
(*                                                                         *)
(* Both compare sums, which agree only when nothing is under way.  The      *)
(* invariant below is the balance at every step: what is in the stream,     *)
(* with what the announce under way will add to it, is at most (or, without *)
(* faults, exactly) what was told.  What it will add is the difference to   *)
(* the snapshot in Redis, until that is replaced; then it is the difference *)
(* to the snapshot that was read.                                           *)
(***************************************************************************)
EXTENDS HookChainProofs

\* The handler is in the traffic push hook, between two commands.
Pushing(r) == At(r, "snapshot") \/ At(r, "send")

\* The variables of HandleAnnounce, whatever the faults.
PushPlace(r) ==
    /\ ~Pushing(r) => push[r] = NoPush
    /\ At(r, "snapshot") => ~push[r].stored /\ ~push[r].sent
    /\ push[r].sent => push[r].broken

\* A request is at one of the configured hooks.
InChain(r) == Busy(r) => handler[r].at \in 1..Len(setup.hooks)

\* The snapshot is replaced and the difference is not in the stream.
Owes(r) == At(r, "send") /\ push[r].stored /\ ~push[r].sent

\* The traffic that peer p told of is in the stream, or will be with an
\* announce whose counter is c: of the latest announce, unless p was
\* restarted.
Settles(p, c) ==
    /\ session[p] \in {c, 0}
    /\ pushed[p] + Delta(c, last[p]) <= told[p]
    /\ spoilt[p] = {} => /\ pushed[p] + Delta(c, last[p]) = told[p]
                         /\ c \in {session[p], last[p]}

\* The only announce of p under way, the one that handler r has.
Alone(r, p) == \A s \in Handler : Busy(s) /\ handler[s].peer = p => s = r

\* How its traffic is accounted for.
Ledger(r, p) ==
    /\ At(r, "snapshot") /\ ~push[r].broken => push[r].seen = last[p]
    /\ At(r, "send") /\ ~push[r].broken => push[r].stored
    /\ At(r, "send") /\ push[r].sent => push[r].stored
    /\ At(r, "send") /\ push[r].stored => last[p] = handler[r].count
    /\ ~Owes(r) => Settles(p, handler[r].count)
    /\ Owes(r) =>
          /\ session[p] \in {handler[r].count, 0}
          /\ pushed[p] + Delta(handler[r].count, push[r].seen) <= told[p]
          /\ spoilt[p] = {} =>
                pushed[p] + Delta(handler[r].count, push[r].seen) = told[p]

\* A peer without an announce under way: its next announce will settle.
AtRest(p) ==
    /\ pushed[p] + Delta(session[p], last[p]) <= told[p]
    /\ spoilt[p] = {} => pushed[p] + Delta(session[p], last[p]) = told[p]

\* The balance of a peer, if nothing has made counting twice possible.
Balanced(p) ==
    "over" \notin spoilt[p] =>
       /\ \A r \in Handler : Busy(r) /\ handler[r].peer = p =>
             Alone(r, p) /\ Ledger(r, p)
       /\ ~InFlight(p) => AtRest(p)

\* Without the hook nothing is told.
Untold(p) == pushed[p] = 0 /\ told[p] = 0 /\ session[p] = 0 /\ last[p] = 0

\* The inductive invariant, which rests on IInv of HookChainProofs.
Balance ==
    /\ \A r \in Handler : PushPlace(r) /\ InChain(r)
    /\ \A p \in Peer : IF Uses("traffic push") THEN Balanced(p) ELSE Untold(p)

-----------------------------------------------------------------------------
(***************************************************************************)
(* Differences of counters.                                                 *)
(***************************************************************************)

\* Nothing is new since a snapshot of the same counter, or to a program that
\* has just been started.
LEMMA DeltaNothing ==
    ASSUME NEW c \in Nat
    PROVE  Delta(c, c) = 0 /\ Delta(0, c) = 0
  BY DEF Delta

\* Nothing more to come.
LEMMA NothingMore ==
    ASSUME NEW x \in Nat, NEW d \in Nat
    PROVE  /\ x + 0 = x
           /\ \A t \in Nat : x + d <= t => x <= t
  OBVIOUS

\* What the difference grows by when the counter does: by as much, unless
\* the counter of a restarted program has caught up with the snapshot.
LEMMA DeltaGrows ==
    ASSUME NEW s \in Nat, NEW c \in Nat, NEW l \in Nat, s <= c
    PROVE  /\ Delta(c, l) <= Delta(s, l) + (c - s)
           /\ ~(s < l /\ l <= c) => Delta(c, l) = Delta(s, l) + (c - s)
  BY DEF Delta

-----------------------------------------------------------------------------
(***************************************************************************)
(* How a balance is kept.                                                   *)
(***************************************************************************)

\* A settled announce leaves the peer in balance, whether its handler goes on
\* to another hook or is done.
LEMMA Settled ==
    ASSUME IInv', NEW r \in Handler, NEW p \in Peer, NEW c \in Nat, Settles(p, c)',
           Busy(r)' => handler'[r].count = c /\ ~Pushing(r)'
    PROVE  IF Busy(r)' THEN Ledger(r, p)' ELSE AtRest(p)'
<1>1. CASE Busy(r)'
  BY <1>1 DEF Ledger, Owes, Pushing, Settles
<1>2. CASE ~Busy(r)'
  <2>1. last'[p] \in Nat /\ pushed'[p] \in Nat /\ told'[p] \in Nat
    BY DEF IInv, TypeOK, PushOK
  <2>2. /\ Delta(c, last'[p]) \in Nat /\ Delta(0, last'[p]) = 0
        /\ c = last'[p] => Delta(c, last'[p]) = 0
    BY <2>1, DeltaNat, DeltaNothing, Zenon
  <2>3. pushed'[p] + Delta(session'[p], last'[p]) <= told'[p]
    BY <2>1, <2>2 DEF Settles
  <2>4. ASSUME spoilt'[p] = {} PROVE pushed'[p] + Delta(session'[p], last'[p]) = told'[p]
    BY <2>1, <2>2, <2>4 DEF Settles
  <2>5. QED
    BY <1>2, <2>3, <2>4 DEF AtRest
<1>3. QED
  BY <1>1, <1>2

\* The steps of a handler do not concern the other peers.
LEMMA OtherPeers ==
    ASSUME NEW r \in Handler, NEW p \in Peer, NEW o \in Peer \ {p}, Balanced(o),
           OthersStay(r), \A s \in Handler : s # r => push'[s] = push[s],
           handler'[r].peer = p, Busy(r) => handler[r].peer = p,
           last'[o] = last[o], pushed'[o] = pushed[o], session'[o] = session[o],
           told'[o] = told[o], spoilt'[o] = spoilt[o]
    PROVE  Balanced(o)'
<1>1. SUFFICES ASSUME "over" \notin spoilt[o]
               PROVE  /\ \A s \in Handler : (Busy(s) /\ handler[s].peer = o)' =>
                            Alone(s, o)' /\ Ledger(s, o)'
                      /\ ~InFlight(o)' => AtRest(o)'
  BY DEF Balanced
<1>2. ASSUME NEW s \in Handler
      PROVE  (Busy(s) /\ handler[s].peer = o)' <=> Busy(s) /\ handler[s].peer = o
  BY DEF OthersStay, Busy
<1>3. ASSUME NEW s \in Handler, (Busy(s) /\ handler[s].peer = o)'
      PROVE  Alone(s, o)' /\ Ledger(s, o)'
  <2>1. s # r /\ handler'[s] = handler[s] /\ push'[s] = push[s]
    BY <1>3 DEF OthersStay
  <2>2. Alone(s, o) /\ Ledger(s, o)
    BY <1>1, <1>2, <1>3 DEF Balanced
  <2>3. Alone(s, o)'
    BY <1>2, <2>2 DEF Alone
  <2>4. Ledger(s, o)'
    BY <2>1, <2>2 DEF Ledger, Owes, Settles, At
  <2>5. QED
    BY <2>3, <2>4
<1>4. ASSUME ~InFlight(o)' PROVE AtRest(o)'
  <2>1. ~InFlight(o)
    BY <1>2, <1>4 DEF InFlight
  <2>2. QED
    BY <1>1, <2>1 DEF Balanced, AtRest
<1>5. QED
  BY <1>3, <1>4

\* For its own peer it is enough that a handler keeps its ledger.
LEMMA OwnPeer ==
    ASSUME NEW r \in Handler, NEW p \in Peer, Balanced(p), Moves(r), Busy(r),
           handler[r].peer = p, spoilt[p] \subseteq spoilt'[p],
           ASSUME "over" \notin spoilt'[p], Ledger(r, p)
           PROVE  IF Busy(r)' THEN Ledger(r, p)' ELSE AtRest(p)'
    PROVE  Balanced(p)'
<1>1. SUFFICES ASSUME "over" \notin spoilt'[p]
               PROVE  /\ \A s \in Handler : (Busy(s) /\ handler[s].peer = p)' =>
                            Alone(s, p)' /\ Ledger(s, p)'
                      /\ ~InFlight(p)' => AtRest(p)'
  BY DEF Balanced
<1>2. Alone(r, p) /\ Ledger(r, p)
  BY <1>1 DEF Balanced
<1>3. IF Busy(r)' THEN Ledger(r, p)' ELSE AtRest(p)'
  BY <1>1, <1>2
<1>4. ASSUME NEW s \in Handler, (Busy(s) /\ handler[s].peer = p)' PROVE s = r
  BY <1>2, <1>4 DEF Alone, Moves, OthersStay, Busy
<1>5. (Busy(r) /\ handler[r].peer = p)' <=> Busy(r)'
  BY DEF Moves
<1>6. QED
  BY <1>3, <1>4, <1>5 DEF Alone, InFlight

-----------------------------------------------------------------------------
(***************************************************************************)
(* The steps of the hook.                                                   *)
(***************************************************************************)

\* A step of the hook concerns one peer and one handler, and forgives nothing.
LEMMA PushLocal ==
    ASSUME IInv, NEW r \in Handler, PushStep(r)
    PROVE  /\ \A s \in Handler : s # r => push'[s] = push[s]
           /\ spoilt[handler[r].peer] \subseteq spoilt'[handler[r].peer]
           /\ \A o \in Peer \ {handler[r].peer} :
                 last'[o] = last[o] /\ pushed'[o] = pushed[o] /\ spoilt'[o] = spoilt[o]
           /\ UNCHANGED <<session, told>>
<1> DEFINE p == handler[r].peer
<1>1. p \in Peer /\ PushOK
  BY DEF IInv, TypeOK, HandlersOK, HandlerState
<1>2. ASSUME NEW how, Spoil(p, how) \/ UNCHANGED spoilt
      PROVE  spoilt[p] \subseteq spoilt'[p] /\ \A o \in Peer \ {p} : spoilt'[o] = spoilt[o]
  BY <1>1, <1>2 DEF Spoil, PushOK
<1>3. ASSUME NEW sent, PushReturn(r, sent)
      PROVE  /\ \A s \in Handler : s # r => push'[s] = push[s]
             /\ \E how : Spoil(p, how)
  BY <1>1, <1>3 DEF PushReturn, PushOK
<1>4. CASE PushRead(r)
  BY <1>1, <1>2, <1>4, Zenon DEF PushRead, PushOK
<1>5. CASE PushSnapshot(r)
  BY <1>1, <1>2, <1>5 DEF PushSnapshot, StoreSnapshot, PushOK
<1>6. CASE PushSend(r)
  BY <1>1, <1>2, <1>3, <1>6, Zenon DEF PushSend, AddToStream, PushOK
<1>7. CASE PushSendFails(r)
  <2>1. ASSUME NEW broken, NEW sent, Retry(r, broken, sent)
        PROVE  /\ \A s \in Handler : s # r => push'[s] = push[s]
               /\ \E how : Spoil(p, how) \/ UNCHANGED spoilt
    BY <1>1, <1>3, <2>1 DEF Retry, PushOK
  <2>2. QED
    BY <1>1, <1>2, <1>7, <2>1, Zenon DEF PushSendFails, AddToStream, PushOK
<1>8. QED
  BY <1>4, <1>5, <1>6, <1>7 DEF PushStep

\* HandleAnnounce reads the snapshot.
LEMMA ReadLedger ==
    ASSUME IInv, NEW r \in Handler, NEW p \in Peer, handler[r].peer = p, PushRead(r),
           PushPlace(r), "over" \notin spoilt'[p], Ledger(r, p)
    PROVE  Busy(r)' /\ Ledger(r, p)'
<1>1. PushOK /\ HandlersOK /\ handler \in [Handler -> HandlerState]
  BY DEF IInv, TypeOK, HandlersOK, HandlerState
<1>2. At(r, "call") /\ ~Owes(r) /\ push[r] = NoPush
  BY Zenon DEF PushRead, Calls, At, Owes, PushPlace, Pushing
<1>3. handler'[r] = [handler[r] EXCEPT !.pc = "snapshot"]
  BY <1>1, Zenon DEF PushRead, Goto
<1>4. handler'[r].pc = "snapshot" /\ handler'[r].count = handler[r].count
  BY <1>1, <1>3 DEF HandlerState
<1>5. UNCHANGED <<last, pushed, session, told>> /\ spoilt' = spoilt
  BY <1>1, Zenon DEF PushRead, Spoil, PushOK
<1>6. ~push'[r].broken => push'[r].seen = last[p]
  <2>1. CASE push' = [push EXCEPT ![r].seen = last[p]]
    BY <1>1, <1>2, <2>1 DEF PushOK, NoPush
  <2>2. CASE push' = [push EXCEPT ![r].broken = TRUE]
    BY <1>1, <1>2, <2>2 DEF PushOK, NoPush
  <2>3. CASE Spoil(p, {"over"})
    BY <1>1, <2>3 DEF Spoil, PushOK
  <2>4. QED
    BY <2>1, <2>2, <2>3, Zenon DEF PushRead
<1>7. Settles(p, handler[r].count)
  BY <1>2 DEF Ledger
<1>8. Settles(p, handler[r].count)'
  BY <1>4, <1>5, <1>7 DEF Settles
<1>9. QED
  BY <1>4, <1>5, <1>6, <1>8 DEF Ledger, Owes, At, Busy, Outcome

\* It replaces the snapshot.
LEMMA SnapshotLedger ==
    ASSUME IInv, NEW r \in Handler, NEW p \in Peer, handler[r].peer = p, PushSnapshot(r),
           PushPlace(r), "over" \notin spoilt'[p], Ledger(r, p)
    PROVE  Busy(r)' /\ Ledger(r, p)'
<1>1. PushOK /\ HandlersOK /\ handler \in [Handler -> HandlerState] /\ push[r] \in PushState
  BY DEF IInv, TypeOK, HandlersOK, PushOK
<1>2. At(r, "snapshot") /\ ~push[r].stored /\ ~push[r].sent /\ ~Owes(r)
  BY DEF PushSnapshot, At, Owes, PushPlace
<1>3. handler'[r] = [handler[r] EXCEPT !.pc = "send"]
  BY <1>1 DEF PushSnapshot, Goto
<1>4. handler'[r].pc = "send" /\ handler'[r].count = handler[r].count
  BY <1>1, <1>3 DEF HandlerState
<1>5. UNCHANGED <<pushed, session, told>>
  BY DEF PushSnapshot
<1>6. Settles(p, handler[r].count)
  BY <1>2 DEF Ledger
<1>7. Busy(r)'
  BY <1>4 DEF Busy, Outcome
<1>8. ASSUME NEW broken \in BOOLEAN, ~push[r].broken, StoreSnapshot(r, broken)
      PROVE  Ledger(r, p)'
  <2>1. /\ push'[r].stored /\ push'[r].seen = push[r].seen /\ ~push'[r].sent
        /\ last'[p] = handler[r].count /\ spoilt' = spoilt
    BY <1>1, <1>2, <1>8 DEF StoreSnapshot, PushOK, PushState
  <2>2. push[r].seen = last[p]
    BY <1>2, <1>8 DEF Ledger
  <2>3. QED
    BY <1>4, <1>5, <1>6, <2>1, <2>2 DEF Ledger, Owes, At, Settles
<1>9. CASE Spoil(p, {"over"})
  BY <1>1, <1>9 DEF Spoil, PushOK
<1>10. CASE push' = [push EXCEPT ![r].broken = TRUE] /\ UNCHANGED <<last, spoilt>>
  <2>1. push'[r].broken /\ ~push'[r].stored /\ ~push'[r].sent
    BY <1>1, <1>2, <1>10 DEF PushOK, PushState
  <2>2. Settles(p, handler[r].count)'
    BY <1>4, <1>5, <1>6, <1>10 DEF Settles
  <2>3. ~Owes(r)'
    BY <2>1 DEF Owes
  <2>4. At(r, "send")' /\ ~At(r, "snapshot")'
    BY <1>4 DEF At
  <2>5. QED
    BY <1>7, <2>1, <2>2, <2>3, <2>4, Zenon DEF Ledger
<1>11. QED
  BY <1>7, <1>8, <1>9, <1>10 DEF PushSnapshot

\* A handler that is done with the hook keeps the request's counter for the
\* next one.
LEMMA ReturnKeeps ==
    ASSUME HandlersOK, NEW r \in Handler, Return(r)
    PROVE  Busy(r)' => handler'[r].count = handler[r].count /\ ~Pushing(r)'
<1>1. CASE handler[r].at < Len(setup.hooks)
  <2>1. handler' = [handler EXCEPT ![r].pc = "call", ![r].at = @ + 1]
    BY <1>1 DEF Return
  <2>2. handler'[r].count = handler[r].count /\ handler'[r].pc = "call"
    BY <2>1 DEF HandlersOK, HandlerState
  <2>3. QED
    BY <2>2 DEF Pushing, At
<1>2. CASE ~(handler[r].at < Len(setup.hooks))
  BY <1>2 DEF Return, Finish, HandlersOK, Busy, Outcome
<1>3. QED
  BY <1>1, <1>2

\* It returns, with the difference in the stream or with the snapshot as it
\* was, or the difference is lost.
LEMMA ReturnLedger ==
    ASSUME IInv, IInv', NEW r \in Handler, NEW p \in Peer, NEW c \in Nat,
           handler[r].peer = p, handler[r].count = c,
           NEW sent \in BOOLEAN, PushReturn(r, sent), UNCHANGED <<last, session, told>>,
           session[p] \in {c, 0}, pushed'[p] + Delta(c, last[p]) <= told[p],
           spoilt'[p] = {} => /\ pushed'[p] + Delta(c, last[p]) = told[p]
                              /\ c \in {session[p], last[p]}
    PROVE  IF Busy(r)' THEN Ledger(r, p)' ELSE AtRest(p)'
<1>1. Settles(p, c)'
  BY DEF Settles
<1>2. Busy(r)' => handler'[r].count = c /\ ~Pushing(r)'
  BY ReturnKeeps DEF IInv, TypeOK, PushReturn
<1>3. QED
  BY <1>1, <1>2, Settled

\* Returning without the difference in the stream, after the snapshot was
\* replaced, is a loss.
LEMMA LossSpoils ==
    ASSUME IInv, NEW r \in Handler, NEW sent \in BOOLEAN, PushReturn(r, sent)
    PROVE  LET p == handler[r].peer
           IN  IF ~sent /\ push[r].stored THEN spoilt'[p] = spoilt[p] \cup {"under"}
                                          ELSE spoilt'[p] = spoilt[p]
<1>1. handler[r].peer \in Peer /\ PushOK
  BY DEF IInv, TypeOK, HandlersOK, HandlerState
<1>2. CASE ~sent /\ push[r].stored
  BY <1>1, <1>2 DEF PushReturn, Spoil, PushOK
<1>3. CASE ~(~sent /\ push[r].stored)
  BY <1>1, <1>3, Zenon DEF PushReturn, Spoil, PushOK
<1>4. QED
  BY <1>2, <1>3

\* The numbers that handler r works with.
LEMMA Numbers ==
    ASSUME IInv, NEW r \in Handler, NEW p \in Peer
    PROVE  /\ last[p] \in Nat /\ pushed[p] \in Nat /\ session[p] \in Nat /\ told[p] \in Nat
           /\ handler[r].count \in Nat /\ push[r] \in PushState /\ push[r].seen \in Nat
           /\ Delta(handler[r].count, push[r].seen) \in Nat
           /\ Delta(handler[r].count, last[p]) \in Nat
           /\ Delta(handler[r].count, handler[r].count) = 0
<1>1. /\ last[p] \in Nat /\ pushed[p] \in Nat /\ session[p] \in Nat /\ told[p] \in Nat
      /\ handler[r].count \in Nat /\ push[r] \in PushState
  BY DEF IInv, TypeOK, PushOK, HandlersOK, HandlerState
<1>2. push[r].seen \in Nat
  BY <1>1 DEF PushState
<1>3. QED
  BY <1>1, <1>2, DeltaNat, DeltaNothing, Zenon

\* XADD is answered.
LEMMA SendLedger ==
    ASSUME IInv, IInv', NEW r \in Handler, NEW p \in Peer, handler[r].peer = p, PushSend(r),
           PushPlace(r), "over" \notin spoilt'[p], Ledger(r, p)
    PROVE  IF Busy(r)' THEN Ledger(r, p)' ELSE AtRest(p)'
<1> DEFINE c == handler[r].count
<1>1. Owes(r) /\ last[p] = c
  BY DEF PushSend, Ledger, PushPlace, Owes
<1>2. pushed'[p] = pushed[p] + Delta(c, push[r].seen) /\ Delta(c, last[p]) = 0
  BY <1>1, Numbers, Zenon DEF PushSend, AddToStream, IInv, TypeOK, PushOK
<1>3. spoilt'[p] = spoilt[p]
  BY LossSpoils, Zenon DEF PushSend
<1>4. /\ session[p] \in {c, 0}
      /\ pushed[p] + Delta(c, push[r].seen) <= told[p]
      /\ spoilt[p] = {} => pushed[p] + Delta(c, push[r].seen) = told[p]
  BY <1>1 DEF Ledger
<1>5. /\ pushed'[p] + Delta(c, last[p]) <= told[p]
      /\ spoilt'[p] = {} => pushed'[p] + Delta(c, last[p]) = told[p] /\ c = last[p]
  <2>1. pushed'[p] \in Nat
    BY DEF IInv, TypeOK, PushOK
  <2>2. pushed'[p] + Delta(c, last[p]) = pushed[p] + Delta(c, push[r].seen)
    BY <1>2, <2>1, NothingMore
  <2>3. QED
    BY <1>1, <1>3, <1>4, <2>2
<1>6. UNCHANGED <<last, session, told>> /\ PushReturn(r, TRUE) /\ c \in Nat
  BY Numbers, Zenon DEF PushSend
<1>7. QED
  BY <1>4, <1>5, <1>6, ReturnLedger, Zenon

\* XADD fails: it is tried again, or HandleAnnounce returns.
LEMMA RetryLedger ==
    ASSUME IInv, IInv', NEW r \in Handler, NEW p \in Peer, handler[r].peer = p,
           NEW broken \in BOOLEAN, NEW sent \in BOOLEAN, Retry(r, broken, sent),
           At(r, "send"), PushPlace(r), Ledger(r, p), UNCHANGED <<last, session, told>>,
           push[r].broken => broken /\ ~sent, sent => broken,
           pushed'[p] = IF sent THEN pushed[p] + Delta(handler[r].count, push[r].seen)
                                ELSE pushed[p]
    PROVE  IF Busy(r)' THEN Ledger(r, p)' ELSE AtRest(p)'
<1> DEFINE c == handler[r].count
<1>1. PushOK /\ c \in Nat /\ push[r] \in PushState
  BY Numbers DEF IInv, TypeOK
<1>2. sent => push[r].stored /\ ~push[r].sent /\ Owes(r)
  BY DEF PushPlace, Ledger, Owes
<1>3. CASE push[r].tries + 1 = RetryCount
  <2>1. PushReturn(r, push[r].sent \/ sent) /\ (push[r].sent \/ sent) \in BOOLEAN
    BY <1>3 DEF Retry
  <2>2. IF ~(push[r].sent \/ sent) /\ push[r].stored
        THEN spoilt'[p] = spoilt[p] \cup {"under"} ELSE spoilt'[p] = spoilt[p]
    BY <2>1, LossSpoils, Zenon
  <2>3. /\ session[p] \in {c, 0}
        /\ pushed'[p] + Delta(c, last[p]) <= told[p]
        /\ spoilt'[p] = {} => /\ pushed'[p] + Delta(c, last[p]) = told[p]
                              /\ c \in {session[p], last[p]}
    <3>1. CASE ~Owes(r)
      <4>1. Settles(p, c) /\ pushed'[p] = pushed[p]
        BY <1>2, <3>1 DEF Ledger
      <4>2. spoilt'[p] = {} => spoilt[p] = {}
        BY <2>2
      <4>3. QED
        BY <4>1, <4>2 DEF Settles
    <3>2. CASE Owes(r)
      <4>1. /\ last[p] = c /\ Delta(c, last[p]) = 0
            /\ session[p] \in {c, 0}
            /\ pushed[p] + Delta(c, push[r].seen) <= told[p]
            /\ spoilt[p] = {} => pushed[p] + Delta(c, push[r].seen) = told[p]
        BY <3>2, Numbers DEF Ledger, Owes
      <4>2. push[r].stored /\ ~push[r].sent
        BY <3>2 DEF Owes
      <4>6. pushed'[p] + Delta(c, last[p]) = pushed'[p]
        <5>1. pushed'[p] \in Nat
          BY DEF IInv, TypeOK, PushOK
        <5>2. QED
          BY <4>1, <5>1, NothingMore
      <4>3. CASE sent
        <5>1. pushed'[p] = pushed[p] + Delta(c, push[r].seen) /\ spoilt'[p] = spoilt[p]
          BY <2>2, <4>3
        <5>2. QED
          BY <4>1, <4>6, <5>1
      <4>4. CASE ~sent
        <5>1. spoilt'[p] # {}
          BY <2>2, <4>2, <4>4
        <5>2. pushed'[p] = pushed[p]
          BY <4>4
        <5>3. pushed[p] <= told[p]
          <6>1. /\ pushed[p] \in Nat /\ told[p] \in Nat
                /\ Delta(c, push[r].seen) \in Nat
            BY Numbers
          <6>2. QED
            BY <4>1, <6>1, NothingMore
        <5>4. QED
          BY <4>1, <4>6, <5>1, <5>2, <5>3
      <4>5. QED
        BY <4>3, <4>4
    <3>3. QED
      BY <3>1, <3>2, Zenon
  <2>4. QED
    BY <1>1, <2>1, <2>3, ReturnLedger, Zenon
<1>4. CASE push[r].tries + 1 # RetryCount
  <2>1. /\ push'[r].broken = broken /\ push'[r].sent = (push[r].sent \/ sent)
        /\ push'[r].stored = push[r].stored /\ push'[r].seen = push[r].seen
        /\ UNCHANGED <<spoilt, handler>>
    BY <1>1, <1>4 DEF Retry, PushOK, PushState
  <2>2. Busy(r)' /\ At(r, "send")' /\ ~At(r, "snapshot")'
    BY <2>1 DEF Busy, At, Outcome
  <2>3. ~push'[r].broken => push'[r].stored
    BY <2>1, Zenon DEF Ledger
  <2>4. push'[r].sent => push'[r].stored
    BY <1>2, <2>1 DEF Ledger
  <2>5. push'[r].stored => last'[p] = handler'[r].count
    BY <2>1 DEF Ledger
  <2>6. CASE sent
    <3>1. /\ last[p] = c /\ Delta(c, last[p]) = 0
          /\ session[p] \in {c, 0}
          /\ pushed'[p] <= told[p]
          /\ spoilt[p] = {} => pushed'[p] = told[p]
      BY <1>2, <2>6, Numbers, Zenon DEF Ledger, Owes
    <3>2. ~Owes(r)'
      BY <2>1, <2>6, Zenon DEF Owes
    <3>3. pushed'[p] \in Nat
      BY DEF IInv, TypeOK, PushOK
    <3>4. Settles(p, handler[r].count)'
      <4>1. pushed'[p] + Delta(c, last[p]) = pushed'[p]
        BY <3>1, <3>3, NothingMore, Zenon
      <4>2. QED
        BY <2>1, <3>1, <4>1, Zenon DEF Settles
    <3>5. QED
      BY <2>2, <2>3, <2>4, <2>5, <3>2, <3>4, Zenon DEF Ledger
  <2>7. CASE ~sent
    <3>1. pushed'[p] = pushed[p] /\ (Owes(r)' <=> Owes(r))
      BY <2>1, <2>7, Zenon DEF Owes, At
    <3>2. ~Owes(r)' => Settles(p, handler[r].count)'
      BY <2>1, <3>1, Zenon DEF Ledger, Settles
    <3>3. Owes(r)' =>
             /\ session'[p] \in {handler'[r].count, 0}
             /\ pushed'[p] + Delta(handler'[r].count, push'[r].seen) <= told'[p]
             /\ spoilt'[p] = {} =>
                   pushed'[p] + Delta(handler'[r].count, push'[r].seen) = told'[p]
      BY <2>1, <3>1 DEF Ledger
    <3>4. QED
      BY <2>2, <2>3, <2>4, <2>5, <3>2, <3>3, Zenon DEF Ledger
  <2>8. QED
    BY <2>6, <2>7
<1>5. QED
  BY <1>3, <1>4

\* However XADD fails, the ledger is kept.
LEMMA FailLedger ==
    ASSUME IInv, IInv', NEW r \in Handler, NEW p \in Peer, handler[r].peer = p,
           PushSendFails(r), PushPlace(r), Ledger(r, p)
    PROVE  IF Busy(r)' THEN Ledger(r, p)' ELSE AtRest(p)'
<1>1. At(r, "send") /\ UNCHANGED <<last, session, told>> /\ push[r] \in PushState /\ PushOK
  BY Numbers DEF PushSendFails, IInv, TypeOK
<1>2. CASE ~push[r].broken /\ UNCHANGED pushed /\ Retry(r, FALSE, FALSE)
  BY <1>1, <1>2, RetryLedger, Zenon
<1>3. CASE ~push[r].broken /\ AddToStream(r) /\ Retry(r, TRUE, TRUE)
  <2>1. pushed'[p] = pushed[p] + Delta(handler[r].count, push[r].seen)
    BY <1>1, <1>3 DEF AddToStream, PushOK
  <2>2. QED
    BY <1>1, <1>3, <2>1, RetryLedger, Zenon
<1>4. CASE UNCHANGED pushed /\ Retry(r, TRUE, FALSE)
  BY <1>1, <1>4, RetryLedger, Zenon
<1>5. QED
  BY <1>2, <1>3, <1>4, Zenon DEF PushSendFails

\* Every step of the hook keeps the variables of HandleAnnounce consistent.
LEMMA PushPlaceKept ==
    ASSUME IInv, NEW r \in Handler, PushStep(r), PushPlace(r)
    PROVE  PushPlace(r)'
<1>1. PushOK /\ HandlersOK /\ push[r] \in PushState /\ handler \in [Handler -> HandlerState]
  BY DEF IInv, TypeOK, PushOK, HandlersOK
<1>2. ASSUME NEW pc \in {"snapshot", "send"}, Goto(r, pc) PROVE handler'[r].pc = pc
  <2>1. pc \in Place
    BY DEF Place
  <2>2. QED
    BY <1>1, <1>2, <2>1, GotoMoves
<1>3. CASE PushRead(r)
  <2>1. push[r] = NoPush
    BY <1>3, Zenon DEF PushRead, Calls, At, PushPlace, Pushing
  <2>2. handler'[r].pc = "snapshot"
    BY <1>2, <1>3, Zenon DEF PushRead
  <2>3. ~push'[r].stored /\ ~push'[r].sent
    <3>1. CASE push' = [push EXCEPT ![r].seen = last[handler[r].peer]]
      BY <1>1, <2>1, <3>1 DEF PushOK, NoPush
    <3>2. CASE push' = [push EXCEPT ![r].broken = TRUE]
      BY <1>1, <2>1, <3>2 DEF PushOK, NoPush
    <3>3. CASE UNCHANGED push
      BY <2>1, <3>3 DEF NoPush
    <3>4. QED
      BY <1>3, <3>1, <3>2, <3>3, Zenon DEF PushRead
  <2>4. QED
    BY <2>2, <2>3 DEF PushPlace, Pushing, At
<1>4. CASE PushSnapshot(r)
  <2>1. ~push[r].sent /\ handler'[r].pc = "send"
    BY <1>2, <1>4 DEF PushSnapshot, PushPlace
  <2>2. ~push'[r].sent
    BY <1>1, <1>4, <2>1 DEF PushSnapshot, StoreSnapshot, PushOK, PushState
  <2>3. QED
    BY <2>1, <2>2 DEF PushPlace, Pushing, At
<1>5. ASSUME NEW sent, PushReturn(r, sent) PROVE PushPlace(r)'
  <2>1. push'[r] = NoPush
    BY <1>1, <1>5 DEF PushReturn, PushOK
  <2>2. handler'[r].pc # "snapshot" /\ handler'[r].pc # "send"
    BY <1>1, <1>5, ReturnMoves DEF PushReturn
  <2>3. QED
    BY <2>1, <2>2 DEF PushPlace, At, Pushing, NoPush
<1>6. CASE PushSend(r)
  BY <1>5, <1>6, Zenon DEF PushSend
<1>7. CASE PushSendFails(r)
  <2>1. ASSUME NEW broken \in BOOLEAN, NEW sent \in BOOLEAN, Retry(r, broken, sent),
               sent => broken, push[r].broken => broken
        PROVE  PushPlace(r)'
    <3>1. CASE push[r].tries + 1 = RetryCount
      BY <1>5, <2>1, <3>1 DEF Retry
    <3>2. CASE push[r].tries + 1 # RetryCount
      <4>1. /\ push'[r].broken = broken /\ push'[r].sent = (push[r].sent \/ sent)
            /\ UNCHANGED handler
        BY <1>1, <2>1, <3>2 DEF Retry, PushOK, PushState
      <4>2. push'[r].sent => push'[r].broken
        BY <2>1, <4>1 DEF PushPlace
      <4>3. At(r, "send")' /\ ~At(r, "snapshot")'
        BY <1>7, <4>1 DEF PushSendFails, At
      <4>4. QED
        BY <4>2, <4>3 DEF PushPlace, Pushing
    <3>3. QED
      BY <3>1, <3>2
  <2>2. QED
    BY <1>7, <2>1, Zenon DEF PushSendFails
<1>8. QED
  BY <1>3, <1>4, <1>6, <1>7 DEF PushStep

\* A step of the hook keeps the balance of its peer.
LEMMA PushBalance ==
    ASSUME IInv, IInv', NEW r \in Handler, PushStep(r), ButPush, PushPlace(r),
           NEW o \in Peer, Balanced(o)
    PROVE  Balanced(o)'
<1> DEFINE p == handler[r].peer
<1>1. p \in Peer /\ Moves(r) /\ Busy(r)
  BY PushServes DEF IInv, TypeOK, HandlersOK, HandlerState, Served
<1>2. CASE o # p
  BY <1>1, <1>2, PushLocal, OtherPeers DEF Moves
<1>3. CASE o = p
  <2>1. ASSUME "over" \notin spoilt'[o], Ledger(r, o)
        PROVE  IF Busy(r)' THEN Ledger(r, o)' ELSE AtRest(o)'
    BY <1>3, <2>1, ReadLedger, SnapshotLedger, SendLedger, FailLedger DEF PushStep
  <2>2. spoilt[o] \subseteq spoilt'[o]
    BY <1>3, PushLocal
  <2>3. QED
    BY <1>1, <1>3, <2>1, <2>2, OwnPeer, Zenon
<1>4. QED
  BY <1>2, <1>3

-----------------------------------------------------------------------------
(***************************************************************************)
(* Announces, restarts and the other hooks.                                 *)
(***************************************************************************)

\* The other hooks leave the request's counter alone.
LEMMA OtherHooks ==
    ASSUME IInv, NEW r \in Handler, Serve(r), ~(PushStep(r) /\ ButPush)
    PROVE  /\ UNCHANGED pushVars
           /\ ~Pushing(r)
           /\ Busy(r)' => handler'[r].count = handler[r].count
           /\ ~Pushing(r)'
<1> DEFINE Inner == {"enter", "ask", "add", "expire"}
           Kept == /\ Busy(r)' => handler'[r].count = handler[r].count
                   /\ ~Pushing(r)'
<1>1. HandlersOK
  BY DEF IInv, TypeOK
<1>2. ASSUME Return(r) PROVE Kept
  BY <1>1, <1>2, ReturnKeeps, ReturnMoves DEF Pushing, At
<1>3. ASSUME NEW pc \in Inner, Goto(r, pc) PROVE Kept
  BY <1>1, <1>3 DEF Goto, HandlersOK, HandlerState, Pushing, At
<1>4. ASSUME Refuse(r) \/ Finish(r, "limited") PROVE Kept
  BY <1>1, <1>4, RefuseMoves, FinishMoves DEF Pushing, At, Busy, Outcome
<1>5. CASE LimitStep(r) /\ ButLimit
  <2>1. UNCHANGED pushVars
    BY <1>5 DEF ButLimit
  <2>2. At(r, "call") \/ At(r, "enter")
    BY <1>5, Zenon DEF LimitStep, LimitSkip, LimitStopped, LimitMembers, LimitEnter, Limits,
                Calls
  <2>3. Return(r) \/ Finish(r, "limited") \/ Goto(r, "enter")
    BY <1>5 DEF LimitStep, LimitSkip, LimitStopped, LimitMembers, LimitEnter
  <2>4. QED
    BY <1>2, <1>3, <1>4, <2>1, <2>2, <2>3 DEF Pushing, At
<1>6. CASE ApprovalStep(r) /\ ButApproval
  <2>1. UNCHANGED pushVars
    BY <1>6 DEF ButApproval
  <2>2. At(r, "call") \/ At(r, "ask") \/ At(r, "add") \/ At(r, "expire")
    BY <1>6, Zenon DEF ApprovalStep, ApprovalMissing, ApprovalLookup, ApprovalAsk, ApprovalAdd,
                ApprovalExpire, Approves, Calls
  <2>3. Return(r) \/ Refuse(r) \/ \E pc \in Inner : Goto(r, pc)
    BY <1>6 DEF ApprovalStep, ApprovalMissing, ApprovalLookup, ApprovalAsk, ApprovalAdd,
                ApprovalExpire
  <2>4. QED
    BY <1>2, <1>3, <1>4, <2>1, <2>2, <2>3 DEF Pushing, At
<1>7. ASSUME At(r, "call"), Return(r) \/ Refuse(r), UNCHANGED pushVars
      PROVE  UNCHANGED pushVars /\ ~Pushing(r) /\ Kept
  BY <1>2, <1>4, <1>7 DEF Pushing, At
<1>8. CASE JWTStep(r) /\ ButJWT
  BY <1>7, <1>8, Zenon DEF JWTStep, JWTNotRequired, JWTCheck, ButJWT, Calls
<1>9. CASE VaryInterval(r) /\ ButInterval
  BY <1>7, <1>9, Zenon DEF VaryInterval, ButInterval, Calls
<1>10. CASE CheckConnection(r) /\ ButConnection
  BY <1>7, <1>10, Zenon DEF CheckConnection, ButConnection, Calls
<1>11. CASE ListCheck(r)
  BY <1>7, <1>11, Zenon DEF ListCheck, Calls
<1>12. QED
  BY <1>5, <1>6, <1>8, <1>9, <1>10, <1>11 DEF Serve

\* So they keep the balance.
LEMMA OtherBalance ==
    ASSUME IInv, IInv', NEW r \in Handler, Serve(r), ~(PushStep(r) /\ ButPush), PushPlace(r),
           NEW o \in Peer, Balanced(o)
    PROVE  Balanced(o)'
<1> DEFINE p == handler[r].peer
           c == handler[r].count
<1>1. p \in Peer /\ c \in Nat /\ Moves(r) /\ Busy(r)
  BY Serving DEF IInv, TypeOK, HandlersOK, HandlerState, Served
<1>2. UNCHANGED <<last, pushed, push, session, told, spoilt>>
  BY OtherHooks DEF pushVars
<1>3. CASE o # p
  BY <1>1, <1>2, <1>3, OtherPeers DEF Moves
<1>4. CASE o = p
  <2>1. ASSUME Ledger(r, o) PROVE IF Busy(r)' THEN Ledger(r, o)' ELSE AtRest(o)'
    <3>1. Settles(o, c)
      BY <2>1, OtherHooks, Zenon DEF Ledger, Owes, Pushing
    <3>2. Busy(r)' => handler'[r].count = c /\ ~Pushing(r)'
      BY OtherHooks
    <3>3. PICK n \in Nat : n = c
      BY <1>1
    <3>4. Settles(o, n)'
      BY <1>2, <3>1, <3>3, Zenon DEF Settles
    <3>5. QED
      BY <3>2, <3>3, <3>4, Settled
  <2>2. spoilt[o] \subseteq spoilt'[o]
    BY <1>2, Zenon
  <2>3. QED
    BY <1>1, <1>4, <2>1, <2>2, OwnPeer, Zenon
<1>5. QED
  BY <1>3, <1>4

\* An announce tells as much as it adds to the difference, or more.
LEMMA Tells ==
    ASSUME NEW p \in Peer, NEW c \in Nat, last[p] \in Nat, pushed[p] \in Nat,
           session[p] \in Nat, told[p] \in Nat, session[p] <= c,
           pushed[p] + Delta(session[p], last[p]) <= told[p]
    PROVE  /\ pushed[p] + Delta(c, last[p]) <= told[p] + (c - session[p])
           /\ /\ ~(session[p] < last[p] /\ last[p] <= c)
              /\ pushed[p] + Delta(session[p], last[p]) = told[p]
              => pushed[p] + Delta(c, last[p]) = told[p] + (c - session[p])
<1>1. Delta(c, last[p]) \in Nat /\ Delta(session[p], last[p]) \in Nat
  BY DeltaNat
<1>2. /\ Delta(c, last[p]) <= Delta(session[p], last[p]) + (c - session[p])
      /\ ~(session[p] < last[p] /\ last[p] <= c) =>
            Delta(c, last[p]) = Delta(session[p], last[p]) + (c - session[p])
  BY DeltaGrows
<1>3. QED
  BY <1>1, <1>2

\* An announce that overlaps with no other adds to what is to be settled just
\* what it tells.
LEMMA TellBalance ==
    ASSUME IInv, IInv', NEW r \in Handler, NEW p \in Peer, NEW c \in Nat, session[p] <= c,
           ~Busy(r), OthersStay(r),
           handler'[r].peer = p, handler'[r].count = c, handler'[r].pc = "call",
           session' = [session EXCEPT ![p] = c],
           told' = [told EXCEPT ![p] = @ + (c - session[p])],
           Spoil(p, IF InFlight(p) THEN {"over", "under"}
                    ELSE IF session[p] < last[p] /\ last[p] <= c THEN {"under"} ELSE {}),
           UNCHANGED <<last, pushed, push>>,
           NEW o \in Peer, Balanced(o)
    PROVE  Balanced(o)'
<1>1. /\ session'[p] = c /\ told'[p] = told[p] + (c - session[p])
      /\ \A n \in Peer \ {p} : /\ session'[n] = session[n] /\ told'[n] = told[n]
                               /\ spoilt'[n] = spoilt[n]
  BY Zenon DEF IInv, TypeOK, PushOK, Spoil
<1>2. /\ InFlight(p) => "over" \in spoilt'[p]
      /\ spoilt[p] \subseteq spoilt'[p]
      /\ ~InFlight(p) /\ session[p] < last[p] /\ last[p] <= c => spoilt'[p] # {}
  BY DEF IInv, TypeOK, PushOK, Spoil
<1>3. CASE o # p
  <2>1. /\ session'[o] = session[o] /\ told'[o] = told[o] /\ spoilt'[o] = spoilt[o]
        /\ last'[o] = last[o] /\ pushed'[o] = pushed[o]
        /\ \A s \in Handler : push'[s] = push[s]
    BY <1>1, <1>3
  <2>2. QED
    BY <1>3, <2>1, OtherPeers
<1>4. CASE o = p
  <2>1. SUFFICES ASSUME "over" \notin spoilt'[p]
                 PROVE  /\ \A s \in Handler : (Busy(s) /\ handler[s].peer = p)' =>
                              Alone(s, p)' /\ Ledger(s, p)'
                        /\ ~InFlight(p)' => AtRest(p)'
    BY <1>4, Zenon DEF Balanced
  <2>2. ~InFlight(p) /\ AtRest(p)
    BY <1>2, <1>4, <2>1, Zenon DEF Balanced
  <2>3. /\ last[p] \in Nat /\ pushed[p] \in Nat /\ session[p] \in Nat /\ told[p] \in Nat
    BY Numbers
  <2>4. /\ pushed[p] + Delta(session[p], last[p]) <= told[p]
        /\ spoilt[p] = {} => pushed[p] + Delta(session[p], last[p]) = told[p]
    BY <2>2 DEF AtRest
  <2>5. pushed[p] + Delta(c, last[p]) <= told'[p]
    <3>1. pushed[p] + Delta(c, last[p]) <= told[p] + (c - session[p])
      BY <2>3, <2>4, Tells
    <3>2. QED
      BY <1>1, <3>1, Zenon
  <2>6. ASSUME spoilt'[p] = {} PROVE pushed[p] + Delta(c, last[p]) = told'[p]
    <3>1. spoilt[p] = {} /\ ~(session[p] < last[p] /\ last[p] <= c)
      BY <1>2, <2>2, <2>6, Zenon
    <3>2. QED
      BY <1>1, <2>3, <2>4, <3>1, Tells, Zenon
  <2>7. Settles(p, c)'
    BY <1>1, <2>5, <2>6, Zenon DEF Settles
  <2>8. Busy(r)' /\ ~Pushing(r)'
    BY Zenon DEF Busy, Outcome, Pushing, At
  <2>9. Ledger(r, p)'
    BY <2>7, <2>8, Settled, Zenon
  <2>10. ASSUME NEW s \in Handler, (Busy(s) /\ handler[s].peer = p)' PROVE s = r
    BY <2>2, <2>10, Zenon DEF OthersStay, InFlight, Busy
  <2>11. QED
    BY <2>8, <2>9, <2>10, Zenon DEF Alone, InFlight
<1>5. QED
  BY <1>3, <1>4

\* A restarted program has told everything, or it is lost.
LEMMA RestartBalance ==
    ASSUME IInv, NEW p \in Peer, Restart(p), NEW o \in Peer, Balanced(o)
    PROVE  Balanced(o)'
<1>1. UNCHANGED <<last, pushed, push, told, handler>>
  BY DEF Restart
<1>2. /\ session'[p] = 0 /\ spoilt[p] \subseteq spoilt'[p]
      /\ "over" \in spoilt'[p] <=> "over" \in spoilt[p]
      /\ spoilt'[p] = {} => spoilt[p] = {} /\ session[p] = last[p]
      /\ \A n \in Peer \ {p} : session'[n] = session[n] /\ spoilt'[n] = spoilt[n]
  <2>1. session' = [session EXCEPT ![p] = 0]
    BY DEF Restart
  <2>2. \/ session[p] # last[p] /\ Spoil(p, {"under"})
        \/ session[p] = last[p] /\ Spoil(p, {})
    BY Zenon DEF Restart
  <2>3. PushOK
    BY DEF IInv, TypeOK
  <2>4. CASE session[p] # last[p] /\ Spoil(p, {"under"})
    <3>1. spoilt'[p] = spoilt[p] \cup {"under"}
      BY <2>3, <2>4 DEF Spoil, PushOK
    <3>2. QED
      BY <2>1, <2>3, <2>4, <3>1 DEF Spoil, PushOK
  <2>5. CASE session[p] = last[p] /\ Spoil(p, {})
    <3>1. spoilt'[p] = spoilt[p]
      BY <2>3, <2>5 DEF Spoil, PushOK
    <3>2. QED
      BY <2>1, <2>3, <2>5, <3>1 DEF Spoil, PushOK
  <2>6. QED
    BY <2>2, <2>4, <2>5
<1>3. \A s \in Handler : (Busy(s)' <=> Busy(s)) /\ (Owes(s)' <=> Owes(s))
  BY <1>1 DEF Busy, Owes, At
<1>4. CASE o # p
  BY <1>1, <1>2, <1>4, Zenon DEF Balanced, Alone, Ledger, Settles, AtRest, InFlight, Busy, Owes, At
<1>5. CASE o = p
  <2>1. SUFFICES ASSUME "over" \notin spoilt[p]
                 PROVE  /\ \A s \in Handler : (Busy(s) /\ handler[s].peer = p)' =>
                              Alone(s, p)' /\ Ledger(s, p)'
                        /\ ~InFlight(p)' => AtRest(p)'
    BY <1>2, <1>5, Zenon DEF Balanced
  <2>2. ASSUME NEW s \in Handler, Busy(s), handler[s].peer = p
        PROVE  Alone(s, p)' /\ Ledger(s, p)'
    <3>1. Alone(s, p) /\ Ledger(s, p)
      BY <1>5, <2>1, <2>2 DEF Balanced
    <3>2. Alone(s, p)'
      BY <1>1, <3>1 DEF Alone, Busy
    <3>3. ~Owes(s) => Settles(p, handler[s].count)'
      BY <1>1, <1>2, <3>1, Zenon DEF Ledger, Settles
    <3>4. Ledger(s, p)'
      BY <1>1, <1>2, <1>3, <3>1, <3>3, Zenon DEF Ledger, At
    <3>5. QED
      BY <3>2, <3>4
  <2>3. ASSUME ~InFlight(p) PROVE AtRest(p)'
    <3>1. AtRest(p)
      BY <1>5, <2>1, <2>3 DEF Balanced
    <3>2. /\ last[p] \in Nat /\ pushed[p] \in Nat /\ session[p] \in Nat /\ told[p] \in Nat
      BY DEF IInv, TypeOK, PushOK
    <3>3. /\ Delta(session[p], last[p]) \in Nat /\ Delta(0, last[p]) = 0
          /\ session[p] = last[p] => Delta(session[p], last[p]) = 0
      BY <3>2, DeltaNat, DeltaNothing, Zenon
    <3>4. pushed[p] + Delta(0, last[p]) <= told[p]
      BY <3>1, <3>2, <3>3 DEF AtRest
    <3>5. ASSUME spoilt'[p] = {} PROVE pushed[p] + Delta(0, last[p]) = told[p]
      BY <1>2, <3>1, <3>2, <3>3, <3>5 DEF AtRest
    <3>6. QED
      BY <1>1, <1>2, <3>4, <3>5 DEF AtRest
  <2>4. QED
    BY <1>1, <1>3, <2>2, <2>3 DEF InFlight
<1>6. QED
  BY <1>4, <1>5

\* The place after one that is not the last.
LEMMA NextPlace ==
    ASSUME NEW i \in Nat, NEW n \in Nat, i < n
    PROVE  i + 1 \in 1..n
  OBVIOUS

\* No request goes past the end of the chain.
LEMMA ChainKept ==
    ASSUME IInv, NEW r \in Handler, Serve(r), InChain(r)
    PROVE  InChain(r)'
<1>1. HandlersOK /\ Len(setup.hooks) \in Nat /\ handler[r].at \in Nat
  BY PreHooksAssumption DEF IInv, TypeOK, HandlersOK, HandlerState
<1>2. UNCHANGED setup /\ Busy(r)
  BY Serving, Zenon DEF Serve, Served, ButLimit, ButPush, ButApproval, ButJWT, ButInterval,
                 ButConnection, ListCheck
<1>3. ASSUME Return(r) PROVE InChain(r)'
  <2>1. CASE handler[r].at < Len(setup.hooks)
    <3>1. handler'[r].at = handler[r].at + 1
      BY <1>1, <1>3, <2>1 DEF Return, HandlersOK, HandlerState
    <3>2. handler[r].at + 1 \in 1..Len(setup.hooks)
      BY <1>1, <2>1, NextPlace, Zenon
    <3>3. QED
      BY <1>2, <3>1, <3>2 DEF InChain
  <2>2. CASE ~(handler[r].at < Len(setup.hooks))
    <3>1. handler'[r].pc = "passed"
      BY <1>1, <1>3, <2>2 DEF Return, Finish, HandlersOK
    <3>2. QED
      BY <3>1 DEF InChain, Busy, Outcome
  <2>3. QED
    BY <2>1, <2>2
<1>4. ASSUME NEW pc, Goto(r, pc) PROVE InChain(r)'
  <2>1. handler'[r].at = handler[r].at
    BY <1>1, <1>4 DEF Goto, HandlersOK, HandlerState
  <2>2. QED
    BY <1>2, <2>1 DEF InChain
<1>5. ASSUME Refuse(r) \/ Finish(r, "limited") PROVE InChain(r)'
  BY <1>1, <1>5, RefuseMoves, FinishMoves DEF InChain, Busy, Outcome
<1>6. CASE LimitStep(r)
  BY <1>3, <1>4, <1>5, <1>6, Zenon DEF LimitStep, LimitSkip, LimitStopped, LimitMembers, LimitEnter
<1>7. CASE PushStep(r)
  <2>1. CASE PushRead(r) \/ PushSnapshot(r) \/ PushSend(r)
    BY <1>3, <1>4, <2>1, Zenon DEF PushRead, PushSnapshot, PushSend, PushReturn
  <2>2. CASE PushSendFails(r)
    <3>1. \E broken, sent \in BOOLEAN : Retry(r, broken, sent)
      BY <2>2, Zenon DEF PushSendFails
    <3>2. Return(r) \/ UNCHANGED handler
      BY <3>1 DEF Retry, PushReturn
    <3>3. QED
      BY <1>2, <1>3, <3>2 DEF InChain, Busy
  <2>3. QED
    BY <1>7, <2>1, <2>2 DEF PushStep
<1>8. CASE ApprovalStep(r)
  BY <1>3, <1>4, <1>5, <1>8 DEF ApprovalStep, ApprovalMissing, ApprovalLookup, ApprovalAsk,
                                ApprovalAdd, ApprovalExpire
<1>9. CASE JWTStep(r) \/ VaryInterval(r) \/ CheckConnection(r) \/ ListCheck(r)
  BY <1>3, <1>5, <1>9, Zenon DEF JWTStep, JWTNotRequired, JWTCheck, VaryInterval, CheckConnection,
                          ListCheck
<1>10. QED
  BY <1>6, <1>7, <1>8, <1>9 DEF Serve

\* Only a configured hook is called.
LEMMA PushConfigured ==
    ASSUME IInv, NEW r \in Handler, PushStep(r), InChain(r)
    PROVE  Uses("traffic push")
<1>1. Busy(r) /\ setup.hooks[handler[r].at] = "traffic push"
  <2>1. CASE PushRead(r)
    BY <2>1, CallsBusy, Zenon DEF PushRead
  <2>2. CASE PushSnapshot(r) \/ PushSend(r) \/ PushSendFails(r)
    BY <2>2, Zenon
       DEF PushSnapshot, PushSend, PushSendFails, IInv, Places, PlaceOf, At, Busy, Outcome
  <2>3. QED
    BY <2>1, <2>2, Zenon DEF PushStep
<1>2. QED
  BY <1>1, Zenon DEF InChain, Uses

\* A new announce is at the first hook, and its counter is one that the peer
\* can have.
LEMMA NewAnnounce ==
    ASSUME IInv, NEW r \in Handler, NEW p \in Peer, NEW q \in Announces(p), Receive(r, q)
    PROVE  /\ q.peer = p /\ q.count \in Counters(p) /\ ~Busy(r) /\ OthersStay(r)
           /\ handler'[r].peer = p /\ handler'[r].count = q.count /\ handler'[r].pc = "call"
           /\ InChain(r)'
           /\ Tell(p, q.count) /\ ButPush
<1>1. q.peer = p /\ q.count \in Counters(p)
  BY Zenon DEF Announces
<1>2. ~Busy(r) /\ Tell(p, q.count) /\ ButPush
  BY <1>1 DEF Receive, Begin
<1>3. OthersStay(r) /\ handler'[r].pc = "call"
  BY Receiving
<1>4. handler'[r].peer = p /\ handler'[r].count = q.count /\ handler'[r].at = 1
  BY <1>1 DEF Receive, Begin, IInv, TypeOK, HandlersOK
<1>5. Len(setup.hooks) \in Nat \ {0}
  <2>1. setup.hooks \in Seq(STRING) /\ setup.hooks # <<>>
    BY PreHooksAssumption DEF IInv, TypeOK, HandlersOK
  <2>2. QED
    BY <2>1
<1>6. InChain(r)'
  <2>1. 1 \in 1..Len(setup.hooks)
    BY <1>5
  <2>2. UNCHANGED setup
    BY <1>2 DEF ButPush
  <2>3. QED
    BY <1>4, <2>1, <2>2 DEF InChain
<1>7. QED
  BY <1>1, <1>2, <1>3, <1>4, <1>6

-----------------------------------------------------------------------------
(***************************************************************************)
(* The theorems.                                                            *)
(***************************************************************************)

\* A number of a range.
LEMMA InRange ==
    ASSUME NEW m \in Nat, NEW n \in Nat, NEW c \in m..n
    PROVE  c \in Nat /\ m <= c
  OBVIOUS

\* An announce keeps every balance.
LEMMA ReceiveBalance ==
    ASSUME IInv, IInv', NEW r \in Handler, NEW p \in Peer, NEW q \in Announces(p),
           Receive(r, q), NEW o \in Peer,
           IF Uses("traffic push") THEN Balanced(o) ELSE Untold(o)
    PROVE  IF Uses("traffic push")' THEN Balanced(o)' ELSE Untold(o)'
<1>1. Uses("traffic push")' <=> Uses("traffic push")
  BY NewAnnounce, Zenon DEF Uses, ButPush
<1>2. CASE Uses("traffic push")
  <2>1. /\ session' = [session EXCEPT ![p] = q.count]
        /\ told' = [told EXCEPT ![p] = @ + (q.count - session[p])]
        /\ Spoil(p, IF InFlight(p) THEN {"over", "under"}
                    ELSE IF session[p] < last[p] /\ last[p] <= q.count THEN {"under"} ELSE {})
        /\ UNCHANGED <<last, pushed, push>>
    <3>1. Tell(p, q.count)
      BY NewAnnounce, Zenon
    <3>2. QED
      BY <1>2, <3>1, Zenon DEF Tell
  <2>2. session[p] \in Nat /\ q.count \in session[p]..MaxCount
    BY <1>2, NewAnnounce, Zenon DEF Counters, IInv, TypeOK, PushOK
  <2>3. q.count \in Nat /\ session[p] <= q.count
    BY <2>2, TrafficAssumption, InRange, Zenon
  <2>4. Balanced(o)'
    BY <1>2, <2>1, <2>3, NewAnnounce, TellBalance, Zenon
  <2>5. QED
    BY <1>1, <1>2, <2>4, Zenon
<1>3. CASE ~Uses("traffic push")
  BY <1>1, <1>3, NewAnnounce, Zenon DEF Tell, pushVars, Untold
<1>4. QED
  BY <1>2, <1>3, Zenon

\* So does what a handler does.
LEMMA ServeBalance ==
    ASSUME IInv, IInv', NEW r \in Handler, Serve(r), PushPlace(r), InChain(r), NEW o \in Peer,
           IF Uses("traffic push") THEN Balanced(o) ELSE Untold(o)
    PROVE  IF Uses("traffic push")' THEN Balanced(o)' ELSE Untold(o)'
<1>1. Uses("traffic push")' <=> Uses("traffic push")
  BY Zenon DEF Uses, Serve, ButLimit, ButPush, ButApproval, ButJWT, ButInterval, ButConnection,
         ListCheck
<1>2. CASE PushStep(r) /\ ButPush
  BY <1>1, <1>2, PushConfigured, PushBalance, Zenon
<1>3. CASE ~(PushStep(r) /\ ButPush)
  <2>1. CASE Uses("traffic push")
    BY <1>1, <1>3, <2>1, OtherBalance, Zenon
  <2>2. CASE ~Uses("traffic push")
    BY <1>1, <1>3, <2>2, OtherHooks, Zenon DEF pushVars, Untold
  <2>3. QED
    BY <2>1, <2>2, Zenon
<1>4. QED
  BY <1>2, <1>3, Zenon

\* And so does everything else.
LEMMA ElsewhereBalance ==
    ASSUME IInv, Balance,
           \/ Tick \/ (Updating /\ UNCHANGED handler /\ ButJWT) \/ Outside
           \/ UNCHANGED vars
    PROVE  Balance'
<1>1. UNCHANGED <<setup, handler>>
  BY Elsewhere DEF vars
<1>2. Uses("traffic push")' <=> Uses("traffic push")
  BY <1>1 DEF Uses
<1>3. UNCHANGED pushVars \/ \E p \in Peer : Restart(p)
  BY DEF Tick, ButJWT, Outside, ButLimit, ButConnection, ButApproval, vars
<1>4. UNCHANGED push
  BY <1>3 DEF pushVars, Restart
<1>5. \A r \in Handler : PushPlace(r)' /\ InChain(r)'
  BY <1>1, <1>4, Zenon DEF Balance, PushPlace, InChain, Pushing, Busy, At
<1>6. ASSUME NEW o \in Peer
      PROVE  IF Uses("traffic push")' THEN Balanced(o)' ELSE Untold(o)'
  <2>1. IF Uses("traffic push") THEN Balanced(o) ELSE Untold(o)
    BY Zenon DEF Balance
  <2>2. CASE UNCHANGED pushVars
    <3>1. Balanced(o) => Balanced(o)'
      BY <1>1, <2>2, Zenon DEF pushVars, Balanced, Alone, Ledger, Settles, AtRest, InFlight, Busy,
                        Owes, At
    <3>2. Untold(o) => Untold(o)'
      BY <2>2, Zenon DEF pushVars, Untold
    <3>3. QED
      BY <1>2, <2>1, <3>1, <3>2, Zenon
  <2>3. ASSUME NEW p \in Peer, Restart(p) PROVE Balanced(o) => Balanced(o)'
    BY <2>3, RestartBalance
  <2>4. ASSUME NEW p \in Peer, Restart(p), Untold(o) PROVE Untold(o)'
    BY <2>4 DEF Restart, Untold, IInv, TypeOK, PushOK
  <2>5. QED
    BY <1>2, <1>3, <2>1, <2>2, <2>3, <2>4, Zenon
<1>7. QED
  BY <1>5, <1>6, Zenon DEF Balance

\* An announce that has not come to the push hook has sent nothing.
LEMMA NothingSent ==
    /\ ~NoPush.sent
    /\ \A r \in Handler : push[r] = NoPush /\ ~Pushing(r) => PushPlace(r)
<1>1. ~NoPush.sent
  BY DEF NoPush
<1>2. ASSUME NEW r \in Handler, push[r] = NoPush, ~Pushing(r) PROVE PushPlace(r)
  BY <1>1, <1>2, Zenon DEF PushPlace, Pushing
<1>3. QED
  BY <1>1, <1>2

\* What is told, pushed and still to be pushed stays in balance.
THEOREM BalanceKept == Spec => []Balance
<1>1. Init => Balance
  <2>1. SUFFICES ASSUME Init PROVE Balance
    OBVIOUS
  <2>2. ASSUME NEW r \in Handler PROVE ~Busy(r) /\ PushPlace(r) /\ InChain(r)
    <3>1. handler[r].pc = "idle" /\ push[r] = NoPush
      BY <2>1 DEF Init, HandlersInit, PushInit
    <3>2. ~Busy(r) /\ ~Pushing(r)
      BY <3>1 DEF Busy, Outcome, Pushing, At
    <3>3. PushPlace(r)
      BY <3>1, <3>2, NothingSent, Zenon
    <3>4. QED
      BY <3>2, <3>3 DEF InChain
  <2>3. ASSUME NEW p \in Peer PROVE Balanced(p) /\ Untold(p)
    <3>1. Untold(p)
      BY <2>1 DEF Init, PushInit, Untold
    <3>2. AtRest(p)
      BY <3>1, DeltaNothing DEF AtRest, Untold
    <3>3. QED
      BY <2>2, <3>1, <3>2 DEF Balanced
  <2>4. QED
    BY <2>2, <2>3, Zenon DEF Balance
<1>2. IInv /\ IInv' /\ Balance /\ [Next]_vars => Balance'
  <2>1. SUFFICES ASSUME IInv, IInv', Balance, [Next]_vars PROVE Balance'
    OBVIOUS
  <2>2. ASSUME NEW r \in Handler, NEW p \in Peer, NEW q \in Announces(p), Receive(r, q)
        PROVE  Balance'
    <3>1. UNCHANGED <<push, setup>>
      BY <2>1, <2>2, NewAnnounce, Zenon DEF Tell, pushVars, ButPush
    <3>2. PushPlace(r)' /\ InChain(r)'
      <4>1. push[r] = NoPush
        BY <2>1, <2>2, NewAnnounce, Zenon DEF Balance, PushPlace, Pushing, Busy, At, Outcome
      <4>2. handler'[r].pc = "call" /\ InChain(r)'
        BY <2>1, <2>2, NewAnnounce, Zenon
      <4>3. push'[r] = NoPush
        BY <3>1, <4>1
      <4>4. PushPlace(r)'
        <5>1. ~Pushing(r)' /\ ~At(r, "snapshot")'
          BY <4>2, Zenon DEF Pushing, At
        <5>2. ~push'[r].sent
          BY <4>3, NothingSent, Zenon
        <5>3. QED
          BY <4>3, <5>1, <5>2 DEF PushPlace
      <4>5. QED
        BY <4>2, <4>4
    <3>3. ASSUME NEW s \in Handler, s # r PROVE PushPlace(s)' /\ InChain(s)'
      BY <2>1, <2>2, <3>1, <3>3, NewAnnounce, Zenon
         DEF OthersStay, Balance, PushPlace, InChain, Pushing, Busy, At
    <3>4. \A o \in Peer : IF Uses("traffic push")' THEN Balanced(o)' ELSE Untold(o)'
      BY <2>1, <2>2, ReceiveBalance, Zenon DEF Balance
    <3>5. QED
      BY <3>2, <3>3, <3>4, Zenon DEF Balance
  <2>3. ASSUME NEW r \in Handler, Serve(r) PROVE Balance'
    <3>1. PushPlace(r) /\ InChain(r)
      BY <2>1, Zenon DEF Balance
    <3>2. OthersStay(r) /\ UNCHANGED setup
      BY <2>1, <2>3, Serving, Zenon
         DEF Served, Moves, Serve, ButLimit, ButPush, ButApproval, ButJWT,
                                 ButInterval, ButConnection, ListCheck
    <3>3. PushPlace(r)'
      <4>1. CASE PushStep(r) /\ ButPush
        BY <2>1, <3>1, <4>1, PushPlaceKept
      <4>2. CASE ~(PushStep(r) /\ ButPush)
        BY <2>1, <2>3, <3>1, <4>2, OtherHooks, Zenon DEF pushVars, PushPlace, Pushing
      <4>3. QED
        BY <4>1, <4>2
    <3>4. InChain(r)'
      BY <2>1, <2>3, <3>1, ChainKept
    <3>5. ASSUME NEW s \in Handler, s # r PROVE push'[s] = push[s]
      BY <2>1, <2>3, <3>5, OtherHooks, PushLocal, Zenon DEF pushVars
    <3>6. ASSUME NEW s \in Handler, s # r PROVE PushPlace(s)' /\ InChain(s)'
      BY <2>1, <3>2, <3>5, <3>6, Zenon
         DEF OthersStay, Balance, PushPlace, InChain, Pushing, Busy, At
    <3>7. \A o \in Peer : IF Uses("traffic push")' THEN Balanced(o)' ELSE Untold(o)'
      BY <2>1, <2>3, <3>1, ServeBalance, Zenon DEF Balance
    <3>8. QED
      BY <3>3, <3>4, <3>6, <3>7, Zenon DEF Balance
  <2>4. QED
    BY <2>1, <2>2, <2>3, ElsewhereBalance DEF Next
<1>3. QED
  BY <1>1, <1>2, Invariance, PTL DEF Spec

\* The stream never holds more traffic of a peer than it told of, whatever
\* connections break and however often XADD is retried, for any chain of
\* hooks and any number of peers and handlers (trafficpush.HandleAnnounce).
THEOREM StreamNeverOvercounts == Spec => []NeverOvercounts
<1>1. IInv /\ Balance => NeverOvercounts
  <2>1. SUFFICES ASSUME IInv, Balance, NEW p \in Peer, "over" \notin spoilt[p]
                 PROVE  pushed[p] <= told[p]
    BY DEF NeverOvercounts
  <2>2. last[p] \in Nat /\ pushed[p] \in Nat /\ session[p] \in Nat /\ told[p] \in Nat
    BY <2>1 DEF IInv, TypeOK, PushOK
  <2>3. CASE Untold(p)
    BY <2>3 DEF Untold
  <2>4. CASE Balanced(p) /\ ~InFlight(p)
    <3>1. pushed[p] + Delta(session[p], last[p]) <= told[p]
      BY <2>1, <2>4 DEF Balanced, AtRest
    <3>2. Delta(session[p], last[p]) \in Nat
      BY <2>2, DeltaNat, Zenon
    <3>3. QED
      BY <2>2, <3>1, <3>2
  <2>5. CASE Balanced(p) /\ InFlight(p)
    <3>1. PICK r \in Handler : Ledger(r, p)
      BY <2>1, <2>5 DEF Balanced, InFlight
    <3>2. /\ Delta(handler[r].count, last[p]) \in Nat
          /\ Delta(handler[r].count, push[r].seen) \in Nat
      BY <2>1, Numbers
    <3>3. \/ pushed[p] + Delta(handler[r].count, last[p]) <= told[p]
          \/ pushed[p] + Delta(handler[r].count, push[r].seen) <= told[p]
      BY <3>1, Zenon DEF Ledger, Settles
    <3>4. QED
      BY <2>2, <3>2, <3>3
  <2>6. QED
    BY <2>1, <2>3, <2>4, <2>5, Zenon DEF Balance
<1>2. QED
  BY <1>1, Invariance, BalanceKept, PTL

\* Traffic is in the stream, or will be with the peer's next announce,
\* unless a fault came at a bad moment (trafficpush.HandleAnnounce).
THEOREM StreamLosesNothing == Spec => []NothingLost
<1>1. IInv /\ Balance => NothingLost
  <2>1. SUFFICES ASSUME IInv, Balance, NEW p \in Peer, spoilt[p] = {}, ~InFlight(p)
                 PROVE  pushed[p] + Unsent(p) = told[p]
    BY DEF NothingLost
  <2>2. Unsent(p) = Delta(session[p], last[p])
    BY DEF Unsent, Delta
  <2>3. CASE Untold(p)
    BY <2>2, <2>3, DeltaNothing DEF Untold
  <2>4. CASE Balanced(p)
    BY <2>1, <2>2, <2>4 DEF Balanced, AtRest
  <2>5. QED
    BY <2>1, <2>3, <2>4, Zenon DEF Balance
<1>2. QED
  BY <1>1, Invariance, BalanceKept, PTL

=============================================================================
