--------------------------- MODULE PeerLimitProofs ---------------------------
(***************************************************************************)
(* The proof that the peer limit is exceeded by overlapping announces only. *)
(*                                                                         *)
(* The sets alone do not tell what is about to be added to them.  What      *)
(* never outnumbers the handlers is a user's set together with the peers    *)
(* that have got past the check and have not been added yet: whenever a     *)
(* peer gets past it, the set holds nobody else, and the others on their    *)
(* way are with a handler each.                                             *)
(***************************************************************************)
EXTENDS HookChainProofs, FiniteSetTheorems

\* The handlers between SMEMBERS and EXEC for user k.
Entrants(k) == {r \in Handler : At(r, "enter") /\ PasskeyOf(r) = k}

\* Their peers.
Entering(k) == {handler[r].peer : r \in Entrants(k)}

\* The peers that are in the set or about to be.
Inside(k) == members[k] \cup Entering(k)

\* The inductive invariant, which rests on IInv of HookChainProofs.
Overlap ==
    \A k \in Passkey :
       IsFiniteSet(Inside(k)) /\ Cardinality(Inside(k)) <= Cardinality(Handler)

\* There are at most as many peers as there are handlers of them.
LEMMA PeersOfHandlers ==
    ASSUME NEW f, NEW H \in SUBSET Handler
    PROVE  /\ IsFiniteSet({f[r].peer : r \in H})
           /\ Cardinality({f[r].peer : r \in H}) <= Cardinality(Handler)
<1> DEFINE T == {f[r].peer : r \in H}
           g == [r \in H |-> f[r].peer]
<1>1. IsFiniteSet(H) /\ Cardinality(H) <= Cardinality(Handler)
  BY PreHooksAssumption, FS_Subset
<1>2. g \in Surjection(H, T)
  BY DEF Surjection
<1>3. IsFiniteSet(T) /\ Cardinality(T) <= Cardinality(H)
  BY <1>1, <1>2, FS_Surjection
<1>4. Cardinality(T) \in Nat /\ Cardinality(H) \in Nat /\ Cardinality(Handler) \in Nat
  BY <1>1, <1>3, PreHooksAssumption, FS_CardinalityType
<1>5. QED
  BY <1>1, <1>3, <1>4

\* The other hooks do not lead to the place before EXEC.
LEMMA OnlyLimitEnters ==
    ASSUME IInv, NEW r \in Handler, Serve(r), ~(LimitStep(r) /\ ButLimit)
    PROVE  handler'[r].pc # "enter" /\ UNCHANGED members
<1> DEFINE Inner == {"ask", "add", "expire", "snapshot", "send"}
<1>1. HandlersOK
  BY DEF IInv, TypeOK
<1>2. ASSUME Return(r) \/ Refuse(r) \/ \E pc \in Inner : Goto(r, pc)
      PROVE  handler'[r].pc # "enter"
  <2>1. Inner \subseteq Place
    BY DEF Place
  <2>2. QED
    BY <1>1, <1>2, <2>1, ReturnMoves, RefuseMoves, GotoMoves
<1>3. CASE PushStep(r) /\ ButPush
  <2>1. UNCHANGED members
    BY <1>3 DEF ButPush, limitVars
  <2>2. CASE PushRead(r) \/ PushSnapshot(r) \/ PushSend(r)
    BY <1>2, <2>1, <2>2, Zenon DEF PushRead, PushSnapshot, PushSend, PushReturn
  <2>3. CASE PushSendFails(r)
    <3>1. \E broken, sent \in BOOLEAN : Retry(r, broken, sent)
      BY <2>3, Zenon DEF PushSendFails
    <3>2. Return(r) \/ UNCHANGED handler
      BY <3>1 DEF Retry, PushReturn
    <3>3. handler[r].pc = "send"
      BY <2>3 DEF PushSendFails, At
    <3>4. QED
      BY <1>2, <2>1, <3>2, <3>3
  <2>4. QED
    BY <1>3, <2>2, <2>3 DEF PushStep
<1>4. CASE ApprovalStep(r) /\ ButApproval
  BY <1>2, <1>4 DEF ApprovalStep, ApprovalMissing, ApprovalLookup, ApprovalAsk, ApprovalAdd,
                    ApprovalExpire, ButApproval, limitVars
<1>5. CASE JWTStep(r) /\ ButJWT
  BY <1>2, <1>5, Zenon DEF JWTStep, JWTNotRequired, JWTCheck, ButJWT, limitVars
<1>6. CASE VaryInterval(r) /\ ButInterval
  BY <1>2, <1>6, Zenon DEF VaryInterval, ButInterval, limitVars
<1>7. CASE CheckConnection(r) /\ ButConnection
  BY <1>2, <1>7, Zenon DEF CheckConnection, ButConnection, limitVars
<1>8. CASE ListCheck(r)
  BY <1>2, <1>8, Zenon DEF ListCheck, limitVars
<1>9. QED
  BY <1>3, <1>4, <1>5, <1>6, <1>7, <1>8 DEF Serve

\* A handler that goes elsewhere brings nobody in.
LEMMA NobodyEnters ==
    ASSUME NEW r \in Handler, OthersStay(r), handler'[r].pc # "enter",
           NEW k \in Passkey, members'[k] \subseteq members[k]
    PROVE  Inside(k)' \subseteq Inside(k)
<1>1. ASSUME NEW s \in Entrants(k)' PROVE s \in Entrants(k) /\ handler'[s] = handler[s]
  BY <1>1 DEF Entrants, At, PasskeyOf, OthersStay
<1>2. QED
  BY <1>1 DEF Inside, Entering

\* The steps of the peer limit.
LEMMA LimitStepInside ==
    ASSUME IInv, NEW r \in Handler, LimitStep(r), ButLimit, NEW k \in Passkey
    PROVE  Inside(k)' \subseteq Inside(k) \/ Inside(k)' \subseteq Entering(k)'
<1>1. HandlersOK /\ LimitOK
  BY DEF IInv, TypeOK
<1>2. Moves(r)
  BY LimitServes DEF Served
<1>3. ASSUME Return(r) \/ Finish(r, "limited") PROVE handler'[r].pc # "enter"
  BY <1>1, <1>3, ReturnMoves, FinishMoves DEF Outcome
<1>4. CASE LimitSkip(r)
  BY <1>2, <1>3, <1>4, NobodyEnters DEF LimitSkip, limitVars, Moves
<1>5. CASE LimitStopped(r)
  <2>1. members'[k] \subseteq members[k]
    BY <1>1, <1>5 DEF LimitStopped, LimitOK
  <2>2. QED
    BY <1>2, <1>3, <1>5, <2>1, NobodyEnters DEF LimitStopped, Moves
<1>6. CASE LimitMembers(r)
  <2>1. UNCHANGED members
    BY <1>6 DEF LimitMembers, limitVars
  <2>2. CASE Return(r) \/ Finish(r, "limited")
    BY <1>2, <1>3, <2>1, <2>2, NobodyEnters DEF Moves
  <2>3. CASE members[PasskeyOf(r)] \subseteq {handler[r].peer} /\ Goto(r, "enter")
    <3>1. "enter" \in Place
      BY DEF Place
    <3>2. handler'[r].pc = "enter"
      BY <1>1, <2>3, <3>1, GotoMoves
    <3>3. CASE PasskeyOf(r) = k
      <4>1. r \in Entrants(k)'
        BY <1>2, <3>2, <3>3 DEF Entrants, At, PasskeyOf, Moves
      <4>2. handler[r].peer \in Entering(k)'
        BY <1>2, <4>1 DEF Entering, Moves
      <4>3. QED
        BY <2>1, <2>3, <3>3, <4>2 DEF Inside
    <3>4. CASE PasskeyOf(r) # k
      <4>1. ASSUME NEW s \in Entrants(k)' PROVE s \in Entrants(k) /\ handler'[s] = handler[s]
        BY <1>2, <3>4, <4>1 DEF Entrants, At, PasskeyOf, Moves, OthersStay
      <4>2. QED
        BY <2>1, <4>1 DEF Inside, Entering
    <3>5. QED
      BY <3>3, <3>4
  <2>4. QED
    BY <1>6, <2>2, <2>3 DEF LimitMembers
<1>7. CASE LimitEnter(r)
  <2>1. handler'[r].pc # "enter"
    BY <1>3, <1>7 DEF LimitEnter
  <2>2. ASSUME NEW s \in Entrants(k)' PROVE s \in Entrants(k) /\ handler'[s] = handler[s]
    BY <1>2, <2>1, <2>2 DEF Entrants, At, PasskeyOf, Moves, OthersStay
  <2>3. members'[k] \subseteq Inside(k)
    <3>1. CASE PasskeyOf(r) = k
      <4>1. handler[r].peer \in Entering(k)
        BY <1>7, <3>1 DEF LimitEnter, Entering, Entrants
      <4>2. members'[k] \subseteq members[k] \cup {handler[r].peer}
        BY <1>1, <1>7, <3>1 DEF LimitEnter, LimitOK
      <4>3. QED
        BY <4>1, <4>2 DEF Inside
    <3>2. CASE PasskeyOf(r) # k
      BY <1>1, <1>7, <3>2 DEF LimitEnter, LimitOK, Inside
    <3>3. QED
      BY <3>1, <3>2
  <2>4. QED
    BY <2>2, <2>3 DEF Inside, Entering
<1>8. QED
  BY <1>4, <1>5, <1>6, <1>7 DEF LimitStep

\* A step lets nobody in, or one peer to an otherwise empty set.
LEMMA StepInside ==
    ASSUME IInv, Next, NEW k \in Passkey
    PROVE  Inside(k)' \subseteq Inside(k) \/ Inside(k)' \subseteq Entering(k)'
<1>1. ASSUME NEW r \in Handler, NEW p \in Peer, NEW q \in Announces(p), Receive(r, q)
      PROVE  Inside(k)' \subseteq Inside(k)
  <2>1. UNCHANGED members
    BY <1>1 DEF Receive, ButPush, limitVars
  <2>2. OthersStay(r) /\ handler'[r].pc # "enter"
    BY <1>1, Receiving
  <2>3. QED
    BY <2>1, <2>2, NobodyEnters
<1>2. ASSUME NEW r \in Handler, Serve(r)
      PROVE  Inside(k)' \subseteq Inside(k) \/ Inside(k)' \subseteq Entering(k)'
  <2>1. CASE LimitStep(r) /\ ButLimit
    BY <2>1, LimitStepInside
  <2>2. CASE ~(LimitStep(r) /\ ButLimit)
    <3>1. handler'[r].pc # "enter" /\ UNCHANGED members
      BY <1>2, <2>2, OnlyLimitEnters
    <3>2. OthersStay(r)
      BY <1>2, Serving DEF Served, Moves
    <3>3. QED
      BY <3>1, <3>2, NobodyEnters
  <2>3. QED
    BY <2>1, <2>2
<1>3. CASE Tick \/ (Updating /\ UNCHANGED handler /\ ButJWT) \/ Outside
  <2>1. UNCHANGED handler
    BY <1>3, Elsewhere
  <2>2. members'[k] \subseteq members[k]
    BY <1>3, Zenon
       DEF Tick, LimitTick, Outside, Vanish, ButPush, ButApproval, ButJWT, ButConnection,
                limitVars
  <2>3. QED
    BY <2>1, <2>2 DEF Inside, Entering, Entrants, At, PasskeyOf
<1>4. QED
  BY <1>1, <1>2, <1>3 DEF Next

\* As many peers of a user are in the set as there are announces handled at
\* the same time, and no more, for any number of peers, users and handlers
\* (peerlimit.HandleAnnounce).
THEOREM OverlapBounds == Spec => []LimitedByOverlap
<1>1. Init => Overlap
  <2>1. SUFFICES ASSUME Init, NEW k \in Passkey
                 PROVE  IsFiniteSet(Inside(k)) /\ Cardinality(Inside(k)) <= Cardinality(Handler)
    BY DEF Overlap
  <2>2. Inside(k) = Entering(k) /\ Entrants(k) \in SUBSET Handler
    BY <2>1 DEF Init, LimitInit, Inside, Entrants
  <2>3. QED
    BY <2>2, PeersOfHandlers, Zenon DEF Entering
<1>2. IInv /\ Overlap /\ [Next]_vars => Overlap'
  <2>1. ASSUME IInv, Overlap, Next, NEW k \in Passkey
        PROVE  IsFiniteSet(Inside(k)') /\ Cardinality(Inside(k)') <= Cardinality(Handler)
    <3>1. CASE Inside(k)' \subseteq Inside(k)
      <4>1. IsFiniteSet(Inside(k)) /\ Cardinality(Inside(k)) <= Cardinality(Handler)
        BY <2>1 DEF Overlap
      <4>2. IsFiniteSet(Inside(k)') /\ Cardinality(Inside(k)') <= Cardinality(Inside(k))
        BY <3>1, <4>1, FS_Subset
      <4>3. /\ Cardinality(Inside(k)) \in Nat /\ Cardinality(Inside(k)') \in Nat
            /\ Cardinality(Handler) \in Nat
        BY <4>1, <4>2, PreHooksAssumption, FS_CardinalityType
      <4>4. QED
        BY <4>1, <4>2, <4>3
    <3>2. CASE Inside(k)' \subseteq Entering(k)'
      <4>1. Entrants(k)' \in SUBSET Handler
        BY DEF Entrants
      <4>2. /\ IsFiniteSet({handler'[r].peer : r \in Entrants(k)'})
            /\ Cardinality({handler'[r].peer : r \in Entrants(k)'}) <= Cardinality(Handler)
        BY <4>1, PeersOfHandlers, Zenon
      <4>3. Inside(k)' = {handler'[r].peer : r \in Entrants(k)'}
        BY <3>2 DEF Inside, Entering
      <4>4. QED
        BY <4>2, <4>3
    <3>3. QED
      BY <2>1, <3>1, <3>2, StepInside
  <2>2. ASSUME Overlap, UNCHANGED vars PROVE Overlap'
    BY <2>2 DEF Overlap, Inside, Entering, Entrants, At, PasskeyOf, vars, limitVars
  <2>3. QED
    BY <2>1, <2>2 DEF Overlap
<1>3. Overlap => LimitedByOverlap
  <2>1. SUFFICES ASSUME Overlap, NEW k \in Passkey
                 PROVE  Cardinality(members[k]) <= Cardinality(Handler)
    BY DEF LimitedByOverlap
  <2>2. IsFiniteSet(Inside(k)) /\ Cardinality(Inside(k)) <= Cardinality(Handler)
    BY <2>1 DEF Overlap
  <2>3. members[k] \in SUBSET Inside(k)
    BY DEF Inside
  <2>4. IsFiniteSet(members[k]) /\ Cardinality(members[k]) <= Cardinality(Inside(k))
    BY <2>2, <2>3, FS_Subset
  <2>5. /\ Cardinality(members[k]) \in Nat /\ Cardinality(Inside(k)) \in Nat
        /\ Cardinality(Handler) \in Nat
    BY <2>2, <2>4, PreHooksAssumption, FS_CardinalityType
  <2>6. QED
    BY <2>2, <2>4, <2>5
<1>4. QED
  BY <1>1, <1>2, <1>3, Invariance, PTL DEF Spec

=============================================================================
