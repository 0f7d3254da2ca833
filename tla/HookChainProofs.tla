--------------------------- MODULE HookChainProofs ---------------------------
(***************************************************************************)
(* Proofs about the checks on an announce, for any number of handlers,      *)
(* peers and users and every configuration: types, and that no announce     *)
(* gets past a hook that should refuse it.  The modules PeerLimitProofs and *)
(* TrafficPushProofs build on this one.                                     *)
(*                                                                         *)
(* What is needed besides the types is in the definitions below: which hook *)
(* a handler is in between two commands, what the caches hold, and what the *)
(* hooks that a handler has behind it have found out.                       *)
(***************************************************************************)
EXTENDS HookChain, TLAPS

-----------------------------------------------------------------------------

\* A place between two commands belongs to one hook, and what the hook has
\* found out holds.
PlaceOf(r) ==
    /\ At(r, "enter") => /\ setup.hooks[handler[r].at] = "peer limit"
                         /\ PasskeyOf(r) \in Passkey
    /\ At(r, "snapshot") \/ At(r, "send") => setup.hooks[handler[r].at] = "traffic push"
    /\ At(r, "ask") \/ At(r, "add") \/ At(r, "expire") =>
          setup.hooks[handler[r].at] = "passkey approval"
    /\ At(r, "add") \/ At(r, "expire") => PasskeyOf(r) \in everApproved /\ CacheTTL > 0

Places == \A r \in Handler : PlaceOf(r)

\* What Redis has is what the site has approved of, and no set is there with
\* its time over.
Approvals ==
    /\ site \subseteq everApproved
    /\ approved \subseteq everApproved
    /\ approvedTTL = 0 => approved = {}

\* The keys in use, and those on their way there, were published while they
\* were fetched.
KeySets ==
    \A h \in JWTHook :
       /\ published[h] \subseteq history[h]
       /\ fresh[h] \subseteq history[h]
       /\ recent[h] \subseteq history[h]
       /\ publicKeys[h] \subseteq recent[h]
       /\ updater[h].pc = "fetch" => published[h] \subseteq fresh[h]
       /\ updater[h].pc = "install" => updater[h].keys \subseteq fresh[h]

\* Hook number i has let the request of handler r pass for a reason.
Accepted(r, i) ==
    /\ setup.hooks[i] = "client approval" => ~Unlisted(handler[r].peer)
    /\ setup.hooks[i] = "passkey approval" => PasskeyOf(r) \in everApproved
    /\ setup.hooks[i] = "jwt" => token["jwt"][r] \in history["jwt"]

\* The hooks that a request has behind it.
Behind(r, i) == At(r, "passed") \/ (Busy(r) /\ i < handler[r].at)

AllAccepted ==
    \A r \in Handler : \A i \in 1..Len(setup.hooks) : Behind(r, i) => Accepted(r, i)

\* The clock stays within its bounds.
Clock == FirstTick <= now /\ now <= LastTick

\* The stamp of a connection ID is the second in which it was made.
Stamps ==
    \A p \in Peer :
       /\ connID[p].stamp * Second <= connID[p].made
       /\ connID[p].made < connID[p].stamp * Second + Second

IInv ==
    /\ TypeOK
    /\ Places
    /\ Approvals
    /\ KeySets
    /\ AllAccepted
    /\ Clock
    /\ Stamps
    /\ IntervalVaried

-----------------------------------------------------------------------------
(***************************************************************************)
(* How a handler moves.                                                     *)
(***************************************************************************)

\* The other handlers stay where they are.
OthersStay(r) == \A s \in Handler : s # r => handler'[s] = handler[s]

\* Handler r goes on, with the request it has.
Moves(r) ==
    /\ handler' \in [Handler -> HandlerState]
    /\ OthersStay(r)
    /\ handler'[r].peer = handler[r].peer

\* Goto changes the place only.
LEMMA GotoMoves ==
    ASSUME HandlersOK, NEW r \in Handler, NEW pc \in Place, Goto(r, pc)
    PROVE  Moves(r) /\ handler'[r].pc = pc /\ handler'[r].at = handler[r].at
  BY DEF HandlersOK, Goto, Moves, OthersStay, HandlerState

\* Finish keeps the peer of the request.
LEMMA FinishMoves ==
    ASSUME HandlersOK, NEW r \in Handler, NEW outcome \in Outcome, Finish(r, outcome)
    PROVE  Moves(r) /\ handler'[r].pc = outcome
  BY DEF HandlersOK, Finish, Moves, OthersStay, HandlerState, Place, Event

\* A refused request is not let through.
LEMMA RefuseMoves ==
    ASSUME HandlersOK, NEW r \in Handler, Refuse(r)
    PROVE  Moves(r) /\ handler'[r].pc = "refused"
  BY FinishMoves DEF Refuse, Outcome

\* After Return there is one hook more behind the request.
LEMMA ReturnMoves ==
    ASSUME HandlersOK, NEW r \in Handler, Return(r)
    PROVE  /\ Moves(r)
           /\ \/ handler'[r].pc = "call" /\ handler'[r].at = handler[r].at + 1
              \/ handler'[r].pc = "passed" /\ ~(handler[r].at < Len(setup.hooks))
<1>1. CASE handler[r].at < Len(setup.hooks)
  <2>1. handler[r].at + 1 \in Nat
    BY DEF HandlersOK, HandlerState
  <2>2. handler' = [handler EXCEPT ![r].pc = "call", ![r].at = @ + 1]
    BY <1>1 DEF Return
  <2>3. QED
    BY <2>1, <2>2 DEF HandlersOK, Moves, OthersStay, HandlerState, Place
<1>2. CASE ~(handler[r].at < Len(setup.hooks))
  BY <1>2, FinishMoves DEF Return, Outcome
<1>3. QED
  BY <1>1, <1>2

\* What a step of handler r must do: leave it at a place of its hook, and
\* every hook behind its request with a reason.
Served(r) ==
    /\ Moves(r)
    /\ Busy(r)
    /\ PlaceOf(r)'
    /\ \A i \in 1..Len(setup.hooks) : Behind(r, i)' => Accepted(r, i)'

\* What no hook of a handler changes.
Frame == UNCHANGED <<setup, everApproved, history>>

\* A hook that knows a reason may let the request pass.
LEMMA ReturnServes ==
    ASSUME HandlersOK, AllAccepted, NEW r \in Handler, Frame, Return(r), Busy(r),
           UNCHANGED token,
           handler[r].at \in 1..Len(setup.hooks) => Accepted(r, handler[r].at)
    PROVE  Served(r)
<1>1. /\ Moves(r)
      /\ \/ handler'[r].pc = "call" /\ handler'[r].at = handler[r].at + 1
         \/ handler'[r].pc = "passed" /\ ~(handler[r].at < Len(setup.hooks))
  BY ReturnMoves
<1>2. PlaceOf(r)'
  BY <1>1, Zenon DEF PlaceOf, At
<1>3. ASSUME NEW i \in 1..Len(setup.hooks), Behind(r, i)' PROVE Accepted(r, i)'
  <2>1. handler[r].at \in Nat /\ Len(setup.hooks) \in Nat
    BY PreHooksAssumption DEF HandlersOK, HandlerState
  <2>2. i = handler[r].at \/ i < handler[r].at
    BY <1>1, <1>3, <2>1 DEF Behind, At, Busy, Outcome, Frame
  <2>3. Accepted(r, i)
    BY <2>2 DEF AllAccepted, Behind
  <2>4. QED
    BY <1>1, <2>3, Zenon DEF Accepted, Moves, Frame, PasskeyOf
<1>4. QED
  BY <1>1, <1>2, <1>3 DEF Served

\* Within a hook a handler may go to the hook's places.
LEMMA GotoServes ==
    ASSUME HandlersOK, AllAccepted, NEW r \in Handler, NEW pc \in Place \ Outcome,
           Frame, UNCHANGED token, Goto(r, pc), Busy(r), PlaceOf(r)'
    PROVE  Served(r)
<1>1. Moves(r) /\ handler'[r].pc = pc /\ handler'[r].at = handler[r].at
  BY GotoMoves
<1>2. ASSUME NEW i \in 1..Len(setup.hooks), Behind(r, i)' PROVE Accepted(r, i)'
  <2>1. Behind(r, i)
    BY <1>1, <1>2 DEF Behind, At, Busy, Outcome
  <2>2. QED
    BY <1>1, <2>1, Zenon DEF AllAccepted, Accepted, Moves, Frame, PasskeyOf
<1>3. QED
  BY <1>1, <1>2 DEF Served

\* A request may always be refused.
LEMMA FinishServes ==
    ASSUME HandlersOK, NEW r \in Handler, NEW outcome \in {"refused", "limited"},
           Busy(r), Finish(r, outcome)
    PROVE  Served(r)
<1>1. Moves(r) /\ handler'[r].pc = outcome
  BY FinishMoves DEF Outcome
<1>2. PlaceOf(r)'
  BY <1>1, Zenon DEF PlaceOf, At
<1>3. ASSUME NEW i \in 1..Len(setup.hooks) PROVE ~Behind(r, i)'
  BY <1>1 DEF Behind, At, Busy, Outcome
<1>4. QED
  BY <1>1, <1>2, <1>3 DEF Served

\* A handler that is in a hook is busy.
LEMMA InHook ==
    ASSUME NEW r \in Handler, NEW pc \in Place \ Outcome, At(r, pc)
    PROVE  Busy(r)
  BY DEF At, Busy

\* A handler that calls a hook is busy.
LEMMA CallsBusy ==
    ASSUME NEW r \in Handler, NEW hook, Calls(r, hook)
    PROVE  Busy(r) /\ setup.hooks[handler[r].at] = hook
  BY DEF Calls, At, Busy, Outcome

-----------------------------------------------------------------------------
(***************************************************************************)
(* Every step of every hook serves its request as it must.                  *)
(***************************************************************************)

\* The peer limit.
LEMMA LimitServes ==
    ASSUME IInv, NEW r \in Handler, LimitStep(r), ButLimit
    PROVE  Served(r)
<1> HandlersOK /\ AllAccepted /\ Frame /\ UNCHANGED token
  BY DEF IInv, TypeOK, ButLimit, Frame, approvalVars, jwtVars
<1>1. ASSUME Return(r), Busy(r), setup.hooks[handler[r].at] = "peer limit"
      PROVE  Served(r)
  BY <1>1, ReturnServes, Zenon DEF Accepted
<1>2. CASE LimitSkip(r)
  BY <1>1, <1>2, CallsBusy, Zenon DEF LimitSkip, Limits
<1>3. CASE LimitStopped(r)
  BY <1>1, <1>3, CallsBusy, Zenon DEF LimitStopped, Limits
<1>4. CASE LimitMembers(r)
  <2>1. Busy(r) /\ setup.hooks[handler[r].at] = "peer limit"
    BY <1>4, CallsBusy, Zenon DEF LimitMembers, Limits
  <2>2. CASE Return(r)
    BY <1>1, <2>1, <2>2, Zenon
  <2>3. CASE Goto(r, "enter")
    <3>1. "enter" \in Place \ Outcome
      BY DEF Place, Outcome
    <3>2. PasskeyOf(r) \in Passkey
      BY <1>4 DEF LimitMembers, HasPasskey
    <3>3. handler'[r].pc = "enter" /\ handler'[r].at = handler[r].at /\ Moves(r)
      BY <2>3, <3>1, GotoMoves
    <3>4. PlaceOf(r)'
      BY <2>1, <3>2, <3>3, Zenon DEF PlaceOf, At, PasskeyOf, Moves, Frame
    <3>5. QED
      BY <2>1, <2>3, <3>1, <3>4, GotoServes, Zenon
  <2>4. CASE Finish(r, "limited")
    BY <2>1, <2>4, FinishServes, Zenon
  <2>5. QED
    BY <1>4, <2>2, <2>3, <2>4 DEF LimitMembers
<1>5. CASE LimitEnter(r)
  <2>1. setup.hooks[handler[r].at] = "peer limit" /\ Busy(r) /\ Return(r)
    BY <1>5, Zenon DEF LimitEnter, IInv, Places, PlaceOf, At, Busy, Outcome
  <2>2. QED
    BY <1>1, <2>1, Zenon
<1>6. QED
  BY <1>2, <1>3, <1>4, <1>5 DEF LimitStep

\* Traffic push.
LEMMA PushServes ==
    ASSUME IInv, NEW r \in Handler, PushStep(r), ButPush
    PROVE  Served(r)
<1> HandlersOK /\ AllAccepted /\ Frame /\ UNCHANGED token
  BY DEF IInv, TypeOK, ButPush, Frame, approvalVars, jwtVars
<1>1. ASSUME Return(r), Busy(r), setup.hooks[handler[r].at] = "traffic push"
      PROVE  Served(r)
  BY <1>1, ReturnServes, Zenon DEF Accepted
<1>2. ASSUME NEW pc \in {"snapshot", "send"}, Goto(r, pc), Busy(r),
             setup.hooks[handler[r].at] = "traffic push"
      PROVE  Served(r)
  <2>1. pc \in Place \ Outcome
    BY <1>2, Zenon DEF Place, Outcome
  <2>2. handler'[r].pc = pc /\ handler'[r].at = handler[r].at
    BY <1>2, <2>1, GotoMoves, Zenon
  <2>3. PlaceOf(r)'
    BY <1>2, <2>2, Zenon DEF PlaceOf, At, Frame
  <2>4. QED
    BY <1>2, <2>1, <2>3, GotoServes, Zenon
<1>3. CASE PushRead(r)
  BY <1>2, <1>3, CallsBusy, Zenon DEF PushRead
<1>4. ASSUME At(r, "snapshot") \/ At(r, "send")
      PROVE  Busy(r) /\ setup.hooks[handler[r].at] = "traffic push"
  BY <1>4, Zenon DEF IInv, Places, PlaceOf, At, Busy, Outcome
<1>5. CASE PushSnapshot(r)
  BY <1>2, <1>4, <1>5, Zenon DEF PushSnapshot
<1>6. CASE PushSend(r)
  BY <1>1, <1>4, <1>6, Zenon DEF PushSend, PushReturn
<1>7. CASE PushSendFails(r)
  <2>1. \E broken, sent \in BOOLEAN : Retry(r, broken, sent)
    BY <1>7, Zenon DEF PushSendFails
  <2>2. Return(r) \/ UNCHANGED handler
    BY <2>1 DEF Retry, PushReturn
  <2>3. Busy(r) /\ setup.hooks[handler[r].at] = "traffic push" /\ At(r, "send")
    BY <1>4, <1>7, Zenon DEF PushSendFails
  <2>4. CASE UNCHANGED handler
    <3>1. Moves(r)
      BY <2>4 DEF Moves, OthersStay, HandlersOK
    <3>2. PlaceOf(r)'
      BY <2>3, <2>4, Zenon DEF PlaceOf, At, Frame
    <3>3. ASSUME NEW i \in 1..Len(setup.hooks), Behind(r, i)' PROVE Accepted(r, i)'
      BY <2>4, <3>3, Zenon DEF Behind, At, Busy, AllAccepted, Accepted, Frame, PasskeyOf
    <3>4. QED
      BY <2>3, <3>1, <3>2, <3>3, Zenon DEF Served
  <2>5. QED
    BY <1>1, <2>2, <2>3, <2>4, Zenon
<1>8. QED
  BY <1>3, <1>5, <1>6, <1>7 DEF PushStep

\* Passkey approval: the request has got past it only with a passkey that
\* the site has approved of.
LEMMA ApprovalServes ==
    ASSUME IInv, NEW r \in Handler, ApprovalStep(r), ButApproval
    PROVE  Served(r)
<1> HandlersOK /\ AllAccepted /\ Approvals
  BY DEF IInv, TypeOK
<1>1. Frame /\ UNCHANGED token
  BY DEF ApprovalStep, ApprovalMissing, ApprovalLookup, ApprovalAsk, ApprovalAdd, ApprovalExpire,
         ButApproval, Frame, approvalVars, jwtVars
<1>2. ASSUME Return(r), Busy(r), setup.hooks[handler[r].at] = "passkey approval",
             PasskeyOf(r) \in everApproved
      PROVE  Served(r)
  BY <1>1, <1>2, ReturnServes, Zenon DEF Accepted
<1>3. ASSUME NEW pc \in {"ask", "add", "expire"}, Goto(r, pc), Busy(r),
             setup.hooks[handler[r].at] = "passkey approval",
             pc # "ask" => PasskeyOf(r) \in everApproved /\ CacheTTL > 0
      PROVE  Served(r)
  <2>1. pc \in Place \ Outcome
    BY <1>3, Zenon DEF Place, Outcome
  <2>2. handler'[r].pc = pc /\ handler'[r].at = handler[r].at /\ Moves(r)
    BY <1>3, <2>1, GotoMoves, Zenon
  <2>3. PlaceOf(r)'
    BY <1>1, <1>3, <2>2, Zenon DEF PlaceOf, At, Frame, Moves, PasskeyOf
  <2>4. QED
    BY <1>1, <1>3, <2>1, <2>3, GotoServes, Zenon
<1>4. ASSUME At(r, "ask") \/ At(r, "add") \/ At(r, "expire")
      PROVE  Busy(r) /\ setup.hooks[handler[r].at] = "passkey approval"
  BY <1>4, Zenon DEF IInv, Places, PlaceOf, At, Busy, Outcome
<1>5. CASE ApprovalMissing(r)
  BY <1>5, CallsBusy, FinishServes, Zenon DEF ApprovalMissing, Approves, Refuse
<1>6. CASE ApprovalLookup(r)
  <2>1. Busy(r) /\ setup.hooks[handler[r].at] = "passkey approval"
    BY <1>6, CallsBusy, Zenon DEF ApprovalLookup, Approves
  <2>2. Goto(r, "ask") \/ (Return(r) /\ PasskeyOf(r) \in everApproved)
    BY <1>6 DEF ApprovalLookup, Approvals
  <2>3. QED
    BY <1>2, <1>3, <2>1, <2>2, Zenon
<1>7. CASE ApprovalAsk(r)
  <2>1. \/ Goto(r, "add") /\ PasskeyOf(r) \in everApproved /\ CacheTTL > 0
        \/ Return(r) /\ PasskeyOf(r) \in everApproved
        \/ Refuse(r)
    BY <1>7 DEF ApprovalAsk, Approvals
  <2>2. Busy(r) /\ setup.hooks[handler[r].at] = "passkey approval"
    BY <1>4, <1>7, Zenon DEF ApprovalAsk
  <2>3. QED
    BY <1>2, <1>3, <2>1, <2>2, FinishServes, Zenon DEF Refuse
<1>8. CASE ApprovalAdd(r)
  BY <1>3, <1>4, <1>8, Zenon DEF ApprovalAdd, IInv, Places, PlaceOf
<1>9. CASE ApprovalExpire(r)
  BY <1>2, <1>4, <1>9, Zenon DEF ApprovalExpire, IInv, Places, PlaceOf
<1>10. QED
  BY <1>5, <1>6, <1>7, <1>8, <1>9 DEF ApprovalStep

\* The JWT hooks: a token that is accepted is signed with a key of the set in
\* use, which was published.
LEMMA JWTServes ==
    ASSUME IInv, NEW r \in Handler, JWTStep(r), ButJWT
    PROVE  Served(r)
<1> HandlersOK /\ AllAccepted /\ JWTOK
  BY DEF IInv, TypeOK
<1>1. Frame
  BY Zenon DEF JWTStep, JWTNotRequired, JWTCheck, ButJWT, Frame, approvalVars, jwtVars
<1>2. CASE JWTNotRequired(r)
  <2>1. Busy(r) /\ setup.hooks[handler[r].at] = "jwt optional"
    BY <1>2, CallsBusy, Zenon DEF JWTNotRequired
  <2>2. Return(r) /\ UNCHANGED token
    BY <1>2, Zenon DEF JWTNotRequired, jwtVars
  <2>3. Accepted(r, handler[r].at)
    BY <2>1, Zenon DEF Accepted
  <2>4. QED
    BY <1>1, <2>1, <2>2, <2>3, ReturnServes, Zenon
<1>3. ASSUME NEW h \in JWTHook, JWTCheck(r, h) PROVE Served(r)
  <2>1. Busy(r) /\ setup.hooks[handler[r].at] = h
    BY <1>3, CallsBusy, Zenon DEF JWTCheck
  <2>2. CASE Refuse(r)
    BY <2>1, <2>2, FinishServes, Zenon DEF Refuse
  <2>3. CASE Return(r) /\ \E t \in publicKeys[h] : token' = [token EXCEPT ![h][r] = t]
    <3>0. "jwt" \in JWTHook
      BY DEF JWTHook
    <3>1. /\ h = "jwt" => token'["jwt"][r] \in history["jwt"]
          /\ h # "jwt" => token'["jwt"] = token["jwt"]
      BY <2>3, <3>0 DEF IInv, KeySets, JWTOK
    <3>2. /\ Moves(r)
          /\ \/ handler'[r].pc = "call" /\ handler'[r].at = handler[r].at + 1
             \/ handler'[r].pc = "passed" /\ ~(handler[r].at < Len(setup.hooks))
      BY <2>3, ReturnMoves
    <3>3. PlaceOf(r)'
      BY <3>2, Zenon DEF PlaceOf, At
    <3>4. ASSUME NEW i \in 1..Len(setup.hooks), Behind(r, i)' PROVE Accepted(r, i)'
      <4>1. handler[r].at \in Nat /\ Len(setup.hooks) \in Nat
        BY PreHooksAssumption DEF HandlersOK, HandlerState
      <4>2. i = handler[r].at \/ i < handler[r].at
        BY <1>1, <3>2, <3>4, <4>1 DEF Behind, At, Busy, Outcome, Frame
      <4>3. CASE i = handler[r].at
        <5>1. h \in {"jwt", "jwt optional"}
          BY DEF JWTHook
        <5>2. QED
          BY <1>1, <2>1, <3>1, <4>3, <5>1, Zenon DEF Accepted, Frame
      <4>4. CASE i < handler[r].at
        <5>1. Accepted(r, i)
          BY <2>1, <4>4, Zenon DEF AllAccepted, Behind
        <5>2. setup.hooks[i] = "jwt" => token'["jwt"][r] \in history["jwt"]
          BY <3>1, <5>1, Zenon DEF Accepted
        <5>3. QED
          BY <1>1, <3>2, <5>1, <5>2, Zenon DEF Accepted, Moves, Frame, PasskeyOf
      <4>5. QED
        BY <4>2, <4>3, <4>4
    <3>5. QED
      BY <2>1, <3>2, <3>3, <3>4, Zenon DEF Served
  <2>4. QED
    BY <1>3, <2>2, <2>3 DEF JWTCheck
<1>4. QED
  BY <1>2, <1>3 DEF JWTStep

\* Interval variation refuses nothing.
LEMMA IntervalServes ==
    ASSUME IInv, NEW r \in Handler, VaryInterval(r), ButInterval
    PROVE  Served(r)
<1>1. HandlersOK /\ AllAccepted /\ Frame /\ UNCHANGED token
  BY DEF IInv, TypeOK, ButInterval, Frame, approvalVars, jwtVars
<1>2. Busy(r) /\ setup.hooks[handler[r].at] = "interval variation" /\ Return(r)
  BY CallsBusy, Zenon DEF VaryInterval
<1>3. Accepted(r, handler[r].at)
  BY <1>2, Zenon DEF Accepted
<1>4. QED
  BY <1>1, <1>2, <1>3, ReturnServes, Zenon

\* The check of the connection ID.
LEMMA ConnectionServes ==
    ASSUME IInv, NEW r \in Handler, CheckConnection(r), ButConnection
    PROVE  Served(r)
<1>1. HandlersOK /\ AllAccepted /\ Frame /\ UNCHANGED token
  BY DEF IInv, TypeOK, ButConnection, Frame, approvalVars, jwtVars
<1>2. Busy(r) /\ setup.hooks[handler[r].at] = "connection id"
  BY CallsBusy, Zenon DEF CheckConnection
<1>3. Refuse(r) \/ Return(r)
  BY Zenon DEF CheckConnection
<1>4. QED
  BY <1>1, <1>2, <1>3, ReturnServes, FinishServes, Zenon DEF Refuse, Accepted

\* The lists.
LEMMA ListServes ==
    ASSUME IInv, NEW r \in Handler, ListCheck(r)
    PROVE  Served(r)
<1>1. HandlersOK /\ AllAccepted /\ Frame /\ UNCHANGED token
  BY Zenon DEF IInv, TypeOK, ListCheck, Frame, approvalVars, jwtVars
<1>2. Busy(r) /\ setup.hooks[handler[r].at] = "client approval"
  BY CallsBusy, Zenon DEF ListCheck
<1>3. Refuse(r) \/ (Return(r) /\ ~Unlisted(handler[r].peer))
  BY Zenon DEF ListCheck
<1>4. QED
  BY <1>1, <1>2, <1>3, ReturnServes, FinishServes, Zenon DEF Refuse, Accepted

\* What a step of the chain does to the handlers.
LEMMA Serving ==
    ASSUME IInv, NEW r \in Handler, Serve(r)
    PROVE  Served(r)
  BY LimitServes, PushServes, ApprovalServes, JWTServes, IntervalServes, ConnectionServes,
     ListServes
     DEF Serve

\* A new request has no hook behind it.
LEMMA Receiving ==
    ASSUME IInv, NEW r \in Handler, NEW p \in Peer, NEW q \in Announces(p), Receive(r, q)
    PROVE  /\ handler' \in [Handler -> HandlerState]
           /\ OthersStay(r)
           /\ PlaceOf(r)'
           /\ handler'[r].pc = "call"
           /\ \A i \in 1..Len(setup.hooks) : ~Behind(r, i)'
<1>1. q.peer \in Peer /\ q.event \in Event
  BY Zenon DEF Announces, Event
<1>2. q.count \in Nat
  <2>1. session[p] \in Nat
    BY DEF IInv, TypeOK, PushOK
  <2>2. q.count \in Counters(p)
    BY Zenon DEF Announces
  <2>3. Counters(p) = session[p]..MaxCount \/ Counters(p) = {0}
    BY Zenon DEF Counters
  <2>4. QED
    BY <2>1, <2>2, <2>3, TrafficAssumption
<1>3. handler' = [handler EXCEPT
         ![r] = [pc |-> "call", at |-> 1, peer |-> q.peer, event |-> q.event,
                 count |-> q.count]]
  BY DEF Receive, Begin
<1>4. handler \in [Handler -> HandlerState]
  BY DEF IInv, TypeOK, HandlersOK
<1>5. handler' \in [Handler -> HandlerState]
  BY <1>1, <1>2, <1>3, <1>4 DEF HandlerState, Place
<1>6. OthersStay(r) /\ handler'[r].pc = "call" /\ handler'[r].at = 1
  BY <1>3, <1>4 DEF OthersStay
<1>7. PlaceOf(r)'
  BY <1>6 DEF PlaceOf, At
<1>8. ASSUME NEW i \in 1..Len(setup.hooks) PROVE ~Behind(r, i)'
  <2>1. ~(i < 1)
    BY PreHooksAssumption DEF IInv, TypeOK, HandlersOK
  <2>2. QED
    BY <1>6, <2>1 DEF Behind, At, Busy
<1>9. QED
  BY <1>5, <1>6, <1>7, <1>8

\* Time, the updating goroutine and the outside leave the handlers alone.
LEMMA Elsewhere ==
    ASSUME Tick \/ (Updating /\ UNCHANGED handler /\ ButJWT) \/ Outside
    PROVE  UNCHANGED <<setup, handler>>
<1>1. CASE Tick
  BY <1>1 DEF Tick
<1>2. CASE Updating /\ UNCHANGED handler /\ ButJWT
  BY <1>2 DEF ButJWT
<1>3. CASE Outside
  BY <1>3, Zenon DEF Outside, Vanish, Restart, Connect, Move, Approve, Withdraw, SiteAdds,
              SiteRemoves, SiteRenames, ButLimit, ButPush,
              ButConnection, ButApproval, ButJWT
<1>4. QED
  BY <1>1, <1>2, <1>3

\* What is known of approvals and keys is only added to, and a handler's
\* token is its own.
LEMMA Knowledge ==
    ASSUME IInv, Next
    PROVE  /\ setup' = setup
           /\ everApproved \subseteq everApproved'
           /\ history["jwt"] \subseteq history'["jwt"]
<1>1. ASSUME NEW r \in Handler, NEW p \in Peer, NEW q \in Announces(p), Receive(r, q)
      PROVE  Frame
  BY <1>1 DEF Receive, ButPush, Frame, approvalVars, jwtVars
<1>2. ASSUME NEW r \in Handler, Serve(r) PROVE Frame
  <2>1. CASE ApprovalStep(r) /\ ButApproval
    BY <2>1 DEF ApprovalStep, ApprovalMissing, ApprovalLookup, ApprovalAsk, ApprovalAdd,
                ApprovalExpire, ButApproval, Frame, approvalVars, jwtVars
  <2>2. CASE JWTStep(r) /\ ButJWT
    BY <2>2, Zenon DEF JWTStep, JWTNotRequired, JWTCheck, ButJWT, Frame, approvalVars, jwtVars
  <2>3. QED
    BY <1>2, <2>1, <2>2, Zenon
       DEF Serve, ListCheck, ButLimit, ButPush, ButInterval, ButConnection, Frame,
                            approvalVars, jwtVars
<1>3. CASE Tick
  BY <1>3 DEF Tick, ApprovalTick, jwtVars
<1>4. CASE Updating /\ UNCHANGED handler /\ ButJWT
  BY <1>4 DEF Updating, FetchKeys, Answer, FetchFails, Install, UpdaterReturns, JWTStop, ButJWT,
              approvalVars
<1>5. CASE Outside
  <2>1. ASSUME NEW h \in JWTHook, NEW K \in SUBSET Key, Rotate(h, K)
        PROVE  history["jwt"] \subseteq history'["jwt"]
    <3>1. "jwt" \in JWTHook
      BY DEF JWTHook
    <3>2. QED
      BY <2>1, <3>1 DEF Rotate, IInv, TypeOK, JWTOK
  <2>2. setup' = setup /\ everApproved \subseteq everApproved'
    BY <1>5, Zenon
       DEF Outside, Approve, Withdraw, SiteAdds, SiteRemoves, SiteRenames, Rotate, Vanish, Restart,
           Connect, Move, ButLimit, ButPush, ButApproval, ButJWT, ButConnection, approvalVars
  <2>3. QED
    BY <1>5, <2>1, <2>2, Zenon
       DEF Outside, ButLimit, ButPush, ButApproval, ButConnection, jwtVars
<1>6. QED
  BY <1>1, <1>2, <1>3, <1>4, <1>5 DEF Next, Frame

\* A step of one handler does not touch the token of another.
LEMMA OwnToken ==
    ASSUME IInv, NEW r \in Handler, NEW s \in Handler, s # r, Serve(r)
    PROVE  token'["jwt"][s] = token["jwt"][s]
<1>1. CASE JWTStep(r) /\ ButJWT
  <2>1. ASSUME NEW h \in JWTHook, NEW t, token' = [token EXCEPT ![h][r] = t]
        PROVE  token'["jwt"][s] = token["jwt"][s]
    <3>1. "jwt" \in JWTHook
      BY DEF JWTHook
    <3>2. QED
      BY <2>1, <3>1 DEF IInv, TypeOK, JWTOK
  <2>2. QED
    BY <1>1, <2>1, Zenon DEF JWTStep, JWTNotRequired, JWTCheck, jwtVars
<1>2. QED
  BY <1>1, Zenon
     DEF Serve, ListCheck, ButLimit, ButPush, ButApproval, ButInterval, ButConnection, jwtVars

\* A handler that does not move keeps its reasons.
LEMMA StillAccepted ==
    ASSUME IInv, Next, NEW s \in Handler, handler'[s] = handler[s], token'["jwt"][s] = token["jwt"][s]
    PROVE  PlaceOf(s)' /\ \A i \in 1..Len(setup.hooks) : Behind(s, i)' => Accepted(s, i)'
<1>1. /\ setup' = setup /\ everApproved \subseteq everApproved'
      /\ history["jwt"] \subseteq history'["jwt"]
  BY Knowledge
<1>2. PlaceOf(s)'
  <2>1. PlaceOf(s)
    BY DEF IInv, Places
  <2>2. QED
    BY <1>1, <2>1, Zenon DEF PlaceOf, At, PasskeyOf
<1>3. ASSUME NEW i \in 1..Len(setup.hooks), Behind(s, i)' PROVE Accepted(s, i)'
  <2>1. Accepted(s, i)
    BY <1>3 DEF IInv, AllAccepted, Behind, At, Busy
  <2>2. QED
    BY <1>1, <2>1, Zenon DEF Accepted, PasskeyOf, Unlisted
<1>4. QED
  BY <1>2, <1>3

\* The handlers: types, places and reasons.
LEMMA HandlersInv ==
    ASSUME IInv, Next
    PROVE  HandlersOK' /\ Places' /\ AllAccepted'
<1>0. setup' = setup /\ setup \in Setup
  BY Knowledge DEF IInv, TypeOK, HandlersOK
<1>1. ASSUME NEW r \in Handler, NEW p \in Peer, NEW q \in Announces(p), Receive(r, q)
      PROVE  HandlersOK' /\ Places' /\ AllAccepted'
  <2>1. UNCHANGED token
    BY <1>1 DEF Receive, ButPush, jwtVars
  <2>2. ASSUME NEW s \in Handler
        PROVE  PlaceOf(s)' /\ \A i \in 1..Len(setup.hooks) : Behind(s, i)' => Accepted(s, i)'
    BY <1>1, <2>1, Receiving, StillAccepted DEF OthersStay
  <2>3. QED
    BY <1>0, <1>1, <2>2, Receiving DEF HandlersOK, Places, AllAccepted
<1>2. ASSUME NEW r \in Handler, Serve(r)
      PROVE  HandlersOK' /\ Places' /\ AllAccepted'
  <2>1. Served(r)
    BY <1>2, Serving
  <2>2. ASSUME NEW s \in Handler
        PROVE  PlaceOf(s)' /\ \A i \in 1..Len(setup.hooks) : Behind(s, i)' => Accepted(s, i)'
    <3>1. CASE s = r
      BY <2>1, <3>1 DEF Served
    <3>2. CASE s # r
      BY <1>2, <2>1, <3>2, OwnToken, StillAccepted DEF Served, Moves, OthersStay
    <3>3. QED
      BY <3>1, <3>2
  <2>3. QED
    BY <1>0, <2>1, <2>2 DEF Served, Moves, HandlersOK, Places, AllAccepted
<1>3. CASE Tick \/ (Updating /\ UNCHANGED handler /\ ButJWT) \/ Outside
  <2>1. UNCHANGED handler
    BY <1>3, Elsewhere
  <2>2. UNCHANGED token
    BY <1>3, Zenon
       DEF Tick, Updating, FetchKeys, Answer, FetchFails, Install, UpdaterReturns, JWTStop,
           Outside, Rotate, ButLimit, ButPush, ButApproval, ButConnection, jwtVars
  <2>3. ASSUME NEW s \in Handler
        PROVE  PlaceOf(s)' /\ \A i \in 1..Len(setup.hooks) : Behind(s, i)' => Accepted(s, i)'
    BY <2>1, <2>2, StillAccepted
  <2>4. HandlersOK'
    BY <1>0, <2>1 DEF IInv, TypeOK, HandlersOK
  <2>5. QED
    BY <1>0, <2>3, <2>4 DEF Places, AllAccepted
<1>4. QED
  BY <1>1, <1>2, <1>3 DEF Next

-----------------------------------------------------------------------------
(***************************************************************************)
(* The variables of each hook.                                              *)
(***************************************************************************)

\* The steps that touch the sets of the peer limit.
LEMMA LimitFrame ==
    ASSUME Next
    PROVE  \/ UNCHANGED limitVars
           \/ \E r \in Handler : LimitStep(r) /\ ButLimit
           \/ LimitTick /\ UNCHANGED handler
           \/ \E p \in Peer : Vanish(p)
  BY Zenon
     DEF Next, Receive, Serve, ListCheck, Tick, Outside, ButPush, ButApproval, ButJWT, ButInterval,
         ButConnection

\* The sets of the peer limit.
LEMMA LimitInv ==
    ASSUME IInv, Next
    PROVE  LimitOK'
<1> LimitOK /\ HandlersOK
  BY DEF IInv, TypeOK
<1>1. CASE UNCHANGED limitVars
  BY <1>1 DEF LimitOK, limitVars
<1>2. ASSUME NEW r \in Handler, LimitStep(r) PROVE LimitOK'
  <2>1. handler[r].peer \in Peer
    BY DEF HandlersOK, HandlerState
  <2>2. CASE LimitStopped(r)
    <3>1. members' \in [Passkey -> SUBSET Peer]
      BY <2>2 DEF LimitStopped, LimitOK
    <3>2. lifetime' \in [Passkey -> 0..PeerLifetime]
      BY <2>2, PeerLimitAssumption DEF LimitStopped, LimitOK
    <3>3. QED
      BY <2>2, <3>1, <3>2 DEF LimitStopped, LimitOK
  <2>3. CASE LimitEnter(r)
    BY <2>1, <2>3, PeerLimitAssumption DEF LimitEnter, LimitOK
  <2>4. QED
    BY <1>1, <1>2, <2>2, <2>3 DEF LimitStep, LimitSkip, LimitMembers
<1>3. CASE LimitTick
  BY <1>3, PeerLimitAssumption DEF LimitTick, LimitOK
<1>4. ASSUME NEW p \in Peer, Vanish(p) PROVE LimitOK'
  BY <1>4, Zenon DEF Vanish, LimitOK
<1>5. QED
  BY <1>1, <1>2, <1>3, <1>4, LimitFrame

\* The steps that touch the snapshots and the stream.
LEMMA PushFrame ==
    ASSUME Next
    PROVE  \/ UNCHANGED pushVars
           \/ \E r \in Handler : \E p \in Peer : \E q \in Announces(p) : Receive(r, q)
           \/ \E r \in Handler : PushStep(r) /\ ButPush
           \/ \E p \in Peer : Restart(p) /\ ButPush
  BY Zenon DEF Next, Serve, ListCheck, Tick, Outside, ButLimit, ButApproval, ButJWT, ButInterval,
         ButConnection

\* The difference is a number of bytes.
LEMMA DeltaNat ==
    ASSUME NEW count \in Nat, NEW seen \in Nat
    PROVE  Delta(count, seen) \in Nat
  BY DEF Delta

\* The steps of the traffic push hook.
LEMMA PushStepInv ==
    ASSUME HandlersOK, PushOK, NEW r \in Handler, PushStep(r)
    PROVE  PushOK'
<1>1. /\ handler[r].peer \in Peer /\ handler[r].count \in Nat
      /\ push[r] \in PushState
      /\ last[handler[r].peer] \in Nat /\ pushed[handler[r].peer] \in Nat
  BY DEF HandlersOK, HandlerState, PushOK
<1>2. ASSUME NEW how \in SUBSET {"over", "under"}, Spoil(handler[r].peer, how)
      PROVE  spoilt' \in [Peer -> SUBSET {"over", "under"}]
  BY <1>2, Zenon DEF Spoil, PushOK
<1>3. CASE PushRead(r)
  <2>0. /\ [push[r] EXCEPT !.seen = last[handler[r].peer]] \in PushState
        /\ [push[r] EXCEPT !.broken = TRUE] \in PushState
    BY <1>1, Zenon DEF PushState
  <2>1. push' \in [Handler -> PushState]
    <3>1. CASE push' = [push EXCEPT ![r].seen = last[handler[r].peer]]
      BY <2>0, <3>1 DEF PushOK
    <3>2. CASE push' = [push EXCEPT ![r].broken = TRUE]
      BY <2>0, <3>2 DEF PushOK
    <3>3. CASE UNCHANGED push
      BY <3>3 DEF PushOK
    <3>4. QED
      BY <1>3, <3>1, <3>2, <3>3, Zenon DEF PushRead
  <2>2. spoilt' \in [Peer -> SUBSET {"over", "under"}]
    BY <1>2, <1>3, Zenon DEF PushRead, PushOK
  <2>3. QED
    BY <1>3, <2>1, <2>2, Zenon DEF PushRead, PushOK
<1>4. CASE PushSnapshot(r)
  <2>0. /\ \A broken \in BOOLEAN :
              [push[r] EXCEPT !.stored = TRUE, !.broken = broken] \in PushState
        /\ [push[r] EXCEPT !.broken = TRUE] \in PushState
    BY <1>1, Zenon DEF PushState
  <2>1. push' \in [Handler -> PushState]
    <3>1. ASSUME NEW broken \in BOOLEAN, StoreSnapshot(r, broken)
          PROVE  push' \in [Handler -> PushState]
      BY <2>0, <3>1, Zenon DEF StoreSnapshot, PushOK
    <3>2. CASE push' = [push EXCEPT ![r].broken = TRUE]
      BY <2>0, <3>2, Zenon DEF PushOK
    <3>3. CASE UNCHANGED push
      BY <3>3 DEF PushOK
    <3>4. QED
      BY <1>4, <3>1, <3>2, <3>3 DEF PushSnapshot
  <2>2. spoilt' \in [Peer -> SUBSET {"over", "under"}]
    BY <1>2, <1>4 DEF PushSnapshot, StoreSnapshot, PushOK
  <2>3. last' \in [Peer -> Nat]
    BY <1>1, <1>4 DEF PushSnapshot, StoreSnapshot, PushOK
  <2>4. QED
    BY <1>4, <2>1, <2>2, <2>3 DEF PushSnapshot, PushOK
<1>5. ASSUME AddToStream(r) PROVE pushed' \in [Peer -> Nat]
  <2>0. Delta(handler[r].count, push[r].seen) \in Nat
    BY <1>1, DeltaNat, Zenon DEF PushState
  <2>1. pushed[handler[r].peer] + Delta(handler[r].count, push[r].seen) \in Nat
    BY <1>1, <2>0
  <2>2. QED
    BY <1>5, <2>1, Zenon DEF AddToStream, PushOK
<1>6. ASSUME NEW sent \in BOOLEAN, PushReturn(r, sent)
      PROVE  push' \in [Handler -> PushState] /\ spoilt' \in [Peer -> SUBSET {"over", "under"}]
  <2>1. NoPush \in PushState
    BY DEF NoPush, PushState
  <2>2. push' \in [Handler -> PushState]
    BY <1>6, <2>1 DEF PushReturn, PushOK
  <2>3. Spoil(handler[r].peer, {"under"}) \/ Spoil(handler[r].peer, {})
    BY <1>6, Zenon DEF PushReturn
  <2>4. QED
    BY <1>2, <2>2, <2>3
<1>7. CASE PushSend(r)
  BY <1>5, <1>6, <1>7, Zenon DEF PushSend, PushOK
<1>8. CASE PushSendFails(r)
  <2>1. pushed' \in [Peer -> Nat]
    BY <1>5, <1>8, Zenon DEF PushSendFails, PushOK
  <2>2. ASSUME NEW broken \in BOOLEAN, NEW sent \in BOOLEAN, Retry(r, broken, sent)
        PROVE  push' \in [Handler -> PushState] /\ spoilt' \in [Peer -> SUBSET {"over", "under"}]
    <3>1. CASE push[r].tries + 1 = RetryCount
      <4>1. (push[r].sent \/ sent) \in BOOLEAN
        OBVIOUS
      <4>2. QED
        BY <1>6, <2>2, <3>1, <4>1, Zenon DEF Retry
    <3>2. CASE push[r].tries + 1 # RetryCount
      <4>1. push[r].tries + 1 \in Nat
        BY <1>1 DEF PushState
      <4>2. push' = [push EXCEPT ![r].tries = @ + 1, ![r].broken = broken, ![r].sent = @ \/ sent]
        BY <2>2, <3>2 DEF Retry
      <4>3. push' \in [Handler -> PushState]
        BY <1>1, <4>1, <4>2, Zenon DEF PushOK, PushState
      <4>4. QED
        BY <2>2, <3>2, <4>3 DEF Retry, PushOK
    <3>3. QED
      BY <3>1, <3>2
  <2>3. QED
    BY <1>8, <2>1, <2>2, Zenon DEF PushSendFails, PushOK
<1>9. QED
  BY <1>3, <1>4, <1>7, <1>8 DEF PushStep

\* What the announce of a peer tells the tracker.
LEMMA TellInv ==
    ASSUME PushOK, NEW p \in Peer, NEW c \in Counters(p), Tell(p, c)
    PROVE  PushOK'
<1>1. CASE ~Uses("traffic push")
  BY <1>1, Zenon DEF Tell, PushOK, pushVars
<1>2. CASE Uses("traffic push")
  <2>1. session[p] \in Nat /\ told[p] \in Nat /\ announces[p] \in Nat
    BY DEF PushOK
  <2>2. Counters(p) = session[p]..MaxCount
    BY <1>2, Zenon DEF Counters
  <2>3. c \in Nat /\ told[p] + (c - session[p]) \in Nat /\ announces[p] + 1 \in Nat
    BY <2>1, <2>2, TrafficAssumption
  <2>4. /\ announces' = [announces EXCEPT ![p] = @ + 1]
        /\ session' = [session EXCEPT ![p] = c]
        /\ told' = [told EXCEPT ![p] = @ + (c - session[p])]
        /\ \E how \in SUBSET {"over", "under"} : spoilt' = [spoilt EXCEPT ![p] = @ \cup how]
        /\ UNCHANGED <<last, pushed, push>>
    BY <1>2, Zenon DEF Tell, Spoil
  <2>5. QED
    BY <2>3, <2>4, Zenon DEF PushOK
<1>3. QED
  BY <1>1, <1>2, Zenon

\* The snapshots and the stream.
LEMMA PushInv ==
    ASSUME IInv, Next
    PROVE  PushOK'
<1> PushOK /\ HandlersOK
  BY DEF IInv, TypeOK
<1>1. CASE UNCHANGED pushVars
  BY <1>1 DEF PushOK, pushVars
<1>2. ASSUME NEW r \in Handler, NEW p \in Peer, NEW q \in Announces(p), Receive(r, q)
      PROVE  PushOK'
  <2>1. q.peer = p /\ q.count \in Counters(p)
    BY Zenon DEF Announces
  <2>2. QED
    BY <1>2, <2>1, TellInv DEF Receive
<1>3. ASSUME NEW r \in Handler, PushStep(r) PROVE PushOK'
  BY <1>3, PushStepInv
<1>4. ASSUME NEW p \in Peer, Restart(p) PROVE PushOK'
  <2>1. Spoil(p, {"under"}) \/ Spoil(p, {})
    BY <1>4, Zenon DEF Restart
  <2>2. spoilt' \in [Peer -> SUBSET {"over", "under"}]
    BY <2>1 DEF Spoil, PushOK
  <2>3. QED
    BY <1>4, <2>2, Zenon DEF Restart, PushOK
<1>5. QED
  BY <1>1, <1>2, <1>3, <1>4, PushFrame

\* The steps that touch the approved passkeys.
LEMMA ApprovalFrame ==
    ASSUME Next
    PROVE  \/ UNCHANGED approvalVars
           \/ \E r \in Handler : ApprovalStep(r) /\ ButApproval
           \/ ApprovalTick
           \/ \E k \in Passkey : Approve(k) \/ Withdraw(k) \/ SiteAdds(k) \/ SiteRemoves(k)
           \/ \E K \in SUBSET Passkey : SiteRenames(K)
  BY Zenon
     DEF Next, Receive, Serve, ListCheck, Tick, Outside, ButLimit, ButPush, ButJWT, ButInterval,
         ButConnection

\* The cached passkeys are passkeys that the site has approved of.
LEMMA ApprovalInv ==
    ASSUME IInv, Next
    PROVE  ApprovalOK' /\ Approvals'
<1> ApprovalOK /\ Approvals /\ HandlersOK
  BY DEF IInv, TypeOK
<1>1. CASE UNCHANGED approvalVars
  BY <1>1 DEF ApprovalOK, Approvals, approvalVars
<1>2. ASSUME NEW r \in Handler, ApprovalStep(r) PROVE ApprovalOK' /\ Approvals'
  <2>1. CASE ApprovalAdd(r)
    <3>1. PasskeyOf(r) \in everApproved
      BY <2>1, Zenon DEF ApprovalAdd, IInv, Places, PlaceOf
    <3>2. QED
      BY <2>1, <3>1, ApprovalAssumption DEF ApprovalAdd, ApprovalOK, Approvals
  <2>2. CASE ApprovalExpire(r)
    <3>1. /\ approvedTTL' \in {0, CacheTTL, approvedTTL}
          /\ approvedTTL' = 0 => approved = {} \/ approvedTTL = 0
      <4>1. CacheTTL > 0
        BY <2>2, Zenon DEF ApprovalExpire, IInv, Places, PlaceOf
      <4>2. QED
        BY <2>2, <4>1, ApprovalAssumption DEF ApprovalExpire
    <3>2. approvedTTL' \in 0..CacheTTL \cup {Never}
      BY <3>1, ApprovalAssumption DEF ApprovalOK
    <3>3. persists' \in BOOLEAN /\ UNCHANGED <<site, everApproved, approved>>
      BY <2>2, Zenon DEF ApprovalExpire, ApprovalOK
    <3>4. QED
      BY <3>1, <3>2, <3>3 DEF ApprovalOK, Approvals
  <2>3. QED
    BY <1>1, <1>2, <2>1, <2>2 DEF ApprovalStep, ApprovalMissing, ApprovalLookup, ApprovalAsk
<1>3. CASE ApprovalTick
  BY <1>3, ApprovalAssumption DEF ApprovalTick, ApprovalOK, Approvals
<1>4. ASSUME NEW k \in Passkey, Approve(k) \/ Withdraw(k) PROVE ApprovalOK' /\ Approvals'
  BY <1>4, Zenon DEF Approve, Withdraw, ApprovalOK, Approvals
<1>5. ASSUME NEW k \in Passkey, SiteAdds(k) PROVE ApprovalOK' /\ Approvals'
  BY <1>5, ApprovalAssumption DEF SiteAdds, ApprovalOK, Approvals
<1>6. ASSUME NEW k \in Passkey, SiteRemoves(k) PROVE ApprovalOK' /\ Approvals'
  BY <1>6, ApprovalAssumption DEF SiteRemoves, ApprovalOK, Approvals
<1>7. ASSUME NEW K \in SUBSET Passkey, SiteRenames(K) PROVE ApprovalOK' /\ Approvals'
  BY <1>7, ApprovalAssumption DEF SiteRenames, ApprovalOK, Approvals
<1>8. QED
  BY <1>1, <1>2, <1>3, <1>4, <1>5, <1>6, <1>7, ApprovalFrame

\* The steps that touch the keys.
LEMMA JWTFrame ==
    ASSUME Next
    PROVE  \/ UNCHANGED jwtVars
           \/ \E r \in Handler : JWTStep(r)
           \/ Updating
           \/ \E h \in JWTHook : \E K \in SUBSET Key : Rotate(h, K)
  BY Zenon
     DEF Next, Receive, Serve, ListCheck, Tick, Outside, ButLimit, ButPush, ButApproval, ButInterval,
         ButConnection

\* The keys: what is installed is what was fetched.
LEMMA JWTInv ==
    ASSUME IInv, Next
    PROVE  JWTOK' /\ KeySets'
<1> JWTOK /\ KeySets
  BY DEF IInv, TypeOK
<1>1. CASE UNCHANGED jwtVars
  BY <1>1 DEF JWTOK, KeySets, jwtVars
<1>2. ASSUME NEW r \in Handler, JWTStep(r) PROVE JWTOK' /\ KeySets'
  <2>1. ASSUME NEW h \in JWTHook, JWTCheck(r, h) PROVE JWTOK' /\ KeySets'
    <3>1. PICK t \in Key \cup {NoToken} : token' = [token EXCEPT ![h][r] = t]
      BY <2>1, Zenon DEF JWTCheck
    <3>2. token' \in [JWTHook -> [Handler -> Key \cup {NoToken}]]
      BY <3>1 DEF JWTOK
    <3>3. QED
      BY <2>1, <3>2, Zenon DEF JWTCheck, JWTOK, KeySets
  <2>2. QED
    BY <1>1, <1>2, <2>1, Zenon DEF JWTStep, JWTNotRequired
<1>3. ASSUME NEW h \in JWTHook, FetchKeys(h) PROVE JWTOK' /\ KeySets'
  BY <1>3 DEF FetchKeys, JWTOK, KeySets, UpdaterState
<1>4. ASSUME NEW h \in JWTHook, Answer(h) PROVE JWTOK' /\ KeySets'
  BY <1>4 DEF Answer, JWTOK, KeySets, UpdaterState
<1>5. ASSUME NEW h \in JWTHook, FetchFails(h) PROVE JWTOK' /\ KeySets'
  BY <1>5 DEF FetchFails, JWTOK, KeySets, UpdaterState
<1>6. ASSUME NEW h \in JWTHook, Install(h) PROVE JWTOK' /\ KeySets'
  BY <1>6 DEF Install, JWTOK, KeySets, UpdaterState
<1>7. ASSUME NEW h \in JWTHook, UpdaterReturns(h) PROVE JWTOK' /\ KeySets'
  BY <1>7 DEF UpdaterReturns, JWTOK, KeySets, UpdaterState
<1>8. ASSUME NEW h \in JWTHook, JWTStop(h) PROVE JWTOK' /\ KeySets'
  BY <1>8 DEF JWTStop, JWTOK, KeySets
<1>9. ASSUME NEW h \in JWTHook, NEW K \in SUBSET Key, Rotate(h, K) PROVE JWTOK' /\ KeySets'
  BY <1>9 DEF Rotate, JWTOK, KeySets
<1>10. QED
  BY <1>1, <1>2, <1>3, <1>4, <1>5, <1>6, <1>7, <1>8, <1>9, JWTFrame DEF Updating

\* Intn returns a number below n, but for the least integer: then it is
\* above -n.
LEMMA IntnRange ==
    ASSUME NEW v \in Word, NEW n \in Nat \ {0}
    PROVE  /\ Intn(v, n) \in Int
           /\ v # Half => Intn(v, n) \in 0..(n - 1)
           /\ v = Half => Intn(v, n) \in (1 - n)..(n - 1)
<1>1. Half \in Nat /\ v \in Nat
  BY VarIntervalAssumption DEF Word
<1>2. ASSUME NEW k \in Nat PROVE k % n \in 0..(n - 1)
  OBVIOUS
<1>3. CASE v < Half
  <2>1. Intn(v, n) = v % n
    BY <1>1, <1>3 DEF Intn, Signed, Remainder
  <2>2. QED
    BY <1>1, <1>2, <1>3, <2>1
<1>4. CASE v = Half
  <2>1. Signed(v) = -Half
    BY <1>1, <1>4 DEF Signed
  <2>2. Intn(v, n) = -(Half % n)
    BY <1>1, <2>1, VarIntervalAssumption DEF Intn, Negate, Remainder
  <2>3. Half % n \in 0..(n - 1)
    BY <1>1, <1>2
  <2>4. QED
    BY <1>4, <2>2, <2>3
<1>5. CASE v > Half
  <2>1. 2 * Half - v \in Nat /\ Signed(v) = v - 2 * Half /\ Signed(v) # -Half /\ Signed(v) < 0
    BY <1>1, <1>5 DEF Signed, Word
  <2>2. Intn(v, n) = (2 * Half - v) % n
    BY <1>1, <2>1 DEF Intn, Negate, Remainder
  <2>3. (2 * Half - v) % n \in 0..(n - 1)
    BY <1>2, <2>1
  <2>4. QED
    BY <1>5, <2>2, <2>3
<1>6. QED
  BY <1>1, <1>3, <1>4, <1>5

\* The steps that lengthen an interval.
LEMMA IntervalFrame ==
    ASSUME Next
    PROVE  UNCHANGED longer \/ \E r \in Handler : VaryInterval(r)
  BY Zenon
     DEF Next, Receive, Serve, ListCheck, Tick, Outside, ButLimit, ButPush, ButApproval, ButJWT,
         ButConnection

\* By what an interval is lengthened.
LEMMA IntervalInv ==
    ASSUME IInv, Next
    PROVE  IntervalOK' /\ IntervalVaried'
<1> IntervalOK /\ IntervalVaried
  BY DEF IInv, TypeOK
<1>1. CASE UNCHANGED longer
  BY <1>1 DEF IntervalOK, IntervalVaried
<1>2. ASSUME NEW r \in Handler, VaryInterval(r) PROVE IntervalOK' /\ IntervalVaried'
  <2>1. PICK w \in Word :
           \/ longer' = [longer EXCEPT ![r] = Varied(w)]
           \/ longer' = [longer EXCEPT ![r] = Unvaried]
    <3>1. PICK v \in Word, w \in Word :
             longer' = [longer EXCEPT
                ![r] = IF Intn(v, ProbabilityRange) < Threshold THEN Varied(w) ELSE Unvaried]
      BY <1>2, Zenon DEF VaryInterval
    <3>2. QED
      BY <3>1
  <2>2. /\ Intn(w, MaxIncreaseDelta) + 1 \in Int
        /\ w # Half => Intn(w, MaxIncreaseDelta) + 1 \in 0..MaxIncreaseDelta
        /\ w = Half => Intn(w, MaxIncreaseDelta) + 1 \in (2 - MaxIncreaseDelta)..MaxIncreaseDelta
    BY VarIntervalAssumption, IntnRange
  <2>3. /\ Varied(w).word = w
        /\ Varied(w).by = Intn(w, MaxIncreaseDelta) + 1
        /\ Varied(w).min \in {Intn(w, MaxIncreaseDelta) + 1, 0}
    BY DEF Varied
  <2>4. Varied(w) \in [by : Int, min : Int, word : Word]
    BY <2>2 DEF Varied
  <2>5. 0 \in Word /\ 0 # Half
    BY VarIntervalAssumption DEF Word
  <2>6. Unvaried \in [by : Int, min : Int, word : Word]
    BY <2>5 DEF Unvaried
  <2>7. IntervalOK'
    BY <2>1, <2>4, <2>6 DEF IntervalOK
  <2>8. ASSUME NEW s \in Handler, NEW d \in {longer'[s].by, longer'[s].min}
        PROVE  /\ d <= MaxIncreaseDelta
               /\ d < 0 => longer'[s].word = Half /\ d >= 2 - MaxIncreaseDelta
    <3>1. CASE s = r /\ longer'[s] = Varied(w)
      <4>1. d \in {Intn(w, MaxIncreaseDelta) + 1, 0} /\ longer'[s].word = w
        BY <2>3, <2>8, <3>1
      <4>2. QED
        BY <2>2, <4>1, VarIntervalAssumption
    <3>2. CASE s = r /\ longer'[s] = Unvaried
      BY <2>5, <2>8, <3>2, VarIntervalAssumption DEF Unvaried
    <3>3. CASE s # r
      BY <2>1, <2>8, <3>3 DEF IntervalOK, IntervalVaried
    <3>4. QED
      BY <2>1, <3>1, <3>2, <3>3 DEF IntervalOK
  <2>9. QED
    BY <2>7, <2>8 DEF IntervalVaried
<1>3. QED
  BY <1>1, <1>2, IntervalFrame

\* The stamp of a tick is its second, as long as the stamps do not begin
\* again.
LEMMA StampSecond ==
    ASSUME NEW t \in Nat, t < StampRange * Second
    PROVE  /\ Stamp(t) \in Nat
           /\ Stamp(t) * Second <= t
           /\ t < Stamp(t) * Second + Second
<1>1. Second \in Nat \ {0} /\ StampRange \in Nat \ {0}
  BY ConnectionAssumption
<1>2. t \div Second \in Nat
  BY <1>1
<1>3. (t \div Second) * Second <= t /\ t < (t \div Second) * Second + Second
  BY <1>1
<1>4. (t \div Second) % StampRange = t \div Second
  BY <1>1
<1>5. QED
  BY <1>2, <1>3, <1>4 DEF Stamp

\* The ticks that clocks can show.
LEMMA TickRange ==
    ASSUME ConnectionOK, Clock, NEW o \in Offset
    PROVE  now + o \in Nat /\ now + o < StampRange * Second
<1>1. o \in Int /\ FirstTick + o >= 0 /\ LastTick + o < StampRange * Second
  BY ConnectionAssumption
<1>2. now \in Nat /\ FirstTick \in Nat /\ LastTick \in Nat /\ StampRange * Second \in Nat
  BY ConnectionAssumption DEF ConnectionOK
<1>3. QED
  BY <1>1, <1>2 DEF Clock

\* The steps that touch clocks and connection IDs.
LEMMA ConnectionFrame ==
    ASSUME Next
    PROVE  \/ UNCHANGED connectionVars
           \/ ConnectionTick
           \/ \E p \in Peer : \E o \in Offset : Connect(p, o)
           \/ \E p \in Peer : \E a \in Address : Move(p, a)
  BY Zenon DEF Next, Receive, Serve, CheckConnection, ListCheck, Tick, Outside, ButLimit, ButPush,
         ButApproval, ButJWT, ButInterval

\* Clocks and connection IDs.
LEMMA ConnectionInv ==
    ASSUME IInv, Next
    PROVE  ConnectionOK' /\ Clock' /\ Stamps'
<1> ConnectionOK /\ Clock /\ Stamps
  BY DEF IInv, TypeOK
<1>1. CASE UNCHANGED connectionVars
  BY <1>1 DEF ConnectionOK, Clock, Stamps, connectionVars
<1>2. CASE ConnectionTick
  <2>1. now' \in Nat /\ FirstTick <= now' /\ now' <= LastTick
    <3>1. now' = now \/ (now < LastTick /\ now' = now + 1)
      BY <1>2, Zenon DEF ConnectionTick
    <3>2. QED
      BY <3>1, ConnectionAssumption DEF ConnectionOK, Clock
  <2>2. QED
    BY <1>2, <2>1, Zenon DEF ConnectionTick, ConnectionOK, Clock, Stamps
<1>3. ASSUME NEW p \in Peer, NEW o \in Offset, Connect(p, o)
      PROVE  ConnectionOK' /\ Clock' /\ Stamps'
  <2>1. now + o \in Nat /\ now + o < StampRange * Second
    BY TickRange
  <2>2. /\ Stamp(now + o) \in Nat
        /\ Stamp(now + o) * Second <= now + o
        /\ now + o < Stamp(now + o) * Second + Second
    BY <2>1, StampSecond
  <2>3. connID' = [connID EXCEPT ![p] = [stamp |-> Stamp(now + o), address |-> address[p],
                                         made |-> now + o]]
    BY <1>3, Zenon DEF Connect, Generate
  <2>4. UNCHANGED <<now, address>> /\ address[p] \in Address
    BY <1>3, Zenon DEF Connect, ConnectionOK
  <2>5. connID' \in [Peer -> [stamp : Nat, address : Address, made : Nat]]
    BY <2>1, <2>2, <2>3, <2>4 DEF ConnectionOK
  <2>6. ASSUME NEW s \in Peer
        PROVE  /\ connID'[s].stamp * Second <= connID'[s].made
               /\ connID'[s].made < connID'[s].stamp * Second + Second
    <3>1. CASE s = p
      BY <2>2, <2>3, <3>1 DEF ConnectionOK
    <3>2. CASE s # p
      BY <2>3, <3>2 DEF ConnectionOK, Stamps
    <3>3. QED
      BY <3>1, <3>2
  <2>7. QED
    BY <2>4, <2>5, <2>6 DEF ConnectionOK, Clock, Stamps
<1>4. ASSUME NEW p \in Peer, NEW a \in Address, Move(p, a)
      PROVE  ConnectionOK' /\ Clock' /\ Stamps'
  BY <1>4, Zenon DEF Move, ConnectionOK, Clock, Stamps
<1>5. QED
  BY <1>1, <1>2, <1>3, <1>4, ConnectionFrame

-----------------------------------------------------------------------------
(***************************************************************************)
(* The theorems.                                                            *)
(***************************************************************************)

\* The chain starts in the invariant.
LEMMA InitInv ==
    ASSUME Init
    PROVE  IInv
<1>1. HandlersOK /\ \A r \in Handler : handler[r].pc = "idle"
  <2>1. (CHOOSE p \in Peer : TRUE) \in Peer
    BY PreHooksAssumption
  <2>2. [pc : {"idle"}, at : {0}, peer : {CHOOSE p \in Peer : TRUE}, event : {"none"},
         count : {0}] \subseteq HandlerState
    BY <2>1 DEF HandlerState, Place, Outcome, Event
  <2>3. QED
    BY <2>2 DEF Init, HandlersInit, HandlersOK
<1>2. LimitOK
  BY PeerLimitAssumption DEF Init, LimitInit, LimitOK
<1>3. PushOK
  BY DEF Init, PushInit, PushOK, NoPush, PushState
<1>4. ApprovalOK /\ Approvals
  <2>1. 0 \in 0..CacheTTL
    BY ApprovalAssumption
  <2>2. QED
    BY <2>1, Zenon DEF Init, ApprovalInit, ApprovalOK, Approvals
<1>5. JWTOK /\ KeySets
  <2>1. /\ published \in [JWTHook -> SUBSET Key]
        /\ publicKeys \in [JWTHook -> SUBSET Key]
        /\ \A h \in JWTHook : publicKeys[h] \subseteq published[h]
    BY DEF Init, JWTInit
  <2>2. JWTOK
    BY <2>1 DEF Init, JWTInit, JWTOK, UpdaterState
  <2>3. KeySets
    BY <2>1 DEF Init, JWTInit, KeySets
  <2>4. QED
    BY <2>2, <2>3
<1>6. IntervalOK /\ IntervalVaried
  BY VarIntervalAssumption DEF Init, IntervalInit, Unvaried, IntervalOK, IntervalVaried, Word
<1>7. ConnectionOK /\ Clock /\ Stamps
  <2>1. now \in Nat /\ FirstTick <= now /\ now <= LastTick
    BY ConnectionAssumption DEF Init, ConnectionInit
  <2>2. FirstTick \in Nat /\ FirstTick < StampRange * Second
    <3>1. LastTick + 0 < StampRange * Second
      BY ConnectionAssumption
    <3>2. StampRange * Second \in Nat
      BY ConnectionAssumption
    <3>3. QED
      BY <3>1, <3>2, ConnectionAssumption
  <2>3. address \in [Peer -> Address]
    BY ConnectionAssumption DEF Init, ConnectionInit
  <2>4. /\ Stamp(FirstTick) \in Nat
        /\ Stamp(FirstTick) * Second <= FirstTick
        /\ FirstTick < Stamp(FirstTick) * Second + Second
    BY <2>2, StampSecond
  <2>5. connID = [p \in Peer |-> [stamp |-> Stamp(FirstTick), address |-> address[p],
                                  made |-> FirstTick]]
    BY DEF Init, ConnectionInit, Generate
  <2>6. connID \in [Peer -> [stamp : Nat, address : Address, made : Nat]]
    BY <2>2, <2>3, <2>4, <2>5
  <2>7. Stamps
    BY <2>4, <2>5 DEF Stamps
  <2>8. QED
    BY <2>1, <2>3, <2>6, <2>7 DEF ConnectionOK, Clock
<1>8. Places /\ AllAccepted
  BY <1>1, Zenon DEF Places, PlaceOf, AllAccepted, Behind, At, Busy, Outcome
<1>9. QED
  BY <1>1, <1>2, <1>3, <1>4, <1>5, <1>6, <1>7, <1>8 DEF IInv, TypeOK

\* The invariant is kept by every step, whatever hooks are configured.
THEOREM Invariance == Spec => []IInv
<1>1. Init => IInv
  BY InitInv
<1>2. IInv /\ [Next]_vars => IInv'
  <2>1. ASSUME IInv, Next PROVE IInv'
    BY <2>1, HandlersInv, LimitInv, PushInv, ApprovalInv, JWTInv, IntervalInv, ConnectionInv
       DEF IInv, TypeOK
  <2>2. ASSUME IInv, UNCHANGED vars PROVE IInv'
    <3>1. HandlersOK' /\ LimitOK' /\ PushOK' /\ Places'
      BY <2>2, Zenon
         DEF vars, limitVars, pushVars, approvalVars, IInv, TypeOK, HandlersOK, LimitOK, PushOK,
                  Places, PlaceOf, At, PasskeyOf
    <3>2. ApprovalOK' /\ Approvals' /\ JWTOK' /\ KeySets'
      BY <2>2 DEF vars, approvalVars, jwtVars, IInv, TypeOK, ApprovalOK, Approvals, JWTOK, KeySets
    <3>3. IntervalOK' /\ IntervalVaried' /\ ConnectionOK' /\ Clock' /\ Stamps'
      BY <2>2
         DEF vars, connectionVars, IInv, TypeOK, IntervalOK, IntervalVaried, ConnectionOK, Clock,
                  Stamps
    <3>4. AllAccepted'
      BY <2>2, Zenon
         DEF vars, approvalVars, jwtVars, IInv, AllAccepted, Behind, Accepted, At, Busy, PasskeyOf
    <3>5. QED
      BY <3>1, <3>2, <3>3, <3>4 DEF IInv, TypeOK
  <2>3. QED
    BY <2>1, <2>2
<1>3. QED
  BY <1>1, <1>2, PTL DEF Spec

\* The variables of all hooks keep their types; in particular no difference
\* of counters is negative and no lifetime runs below zero.
THEOREM TypeCorrect == Spec => []TypeOK
<1>1. IInv => TypeOK
  BY DEF IInv
<1>2. QED
  BY <1>1, Invariance, PTL

\* A handler between SADD and EXPIRE stays there until it has sent EXPIRE.
LEMMA ExpireStays ==
    ASSUME IInv, Next, NEW s \in Handler, At(s, "expire"), ~ApprovalExpire(s)
    PROVE  At(s, "expire")'
<1>1. ASSUME NEW r \in Handler, NEW p \in Peer, NEW q \in Announces(p), Receive(r, q)
      PROVE  At(s, "expire")'
  <2>1. r # s
    BY <1>1 DEF Receive, Begin, Busy, At, Outcome
  <2>2. QED
    BY <1>1, <2>1, Receiving DEF OthersStay, At
<1>2. ASSUME NEW r \in Handler, Serve(r) PROVE At(s, "expire")'
  <2>1. ASSUME r = s PROVE FALSE
    <3>1. ~Calls(r, "peer limit") /\ ~Calls(r, "traffic push") /\ ~Calls(r, "passkey approval")
      BY <2>1, Zenon DEF Calls, At
    <3>2. ~LimitStep(r)
      BY <2>1, <3>1, Zenon
         DEF LimitStep, LimitSkip, LimitStopped, LimitMembers, LimitEnter, Limits, At
    <3>3. ~PushStep(r)
      BY <2>1, <3>1, Zenon DEF PushStep, PushRead, PushSnapshot, PushSend, PushSendFails, At
    <3>4. ~ApprovalStep(r)
      BY <2>1, <3>1, Zenon
         DEF ApprovalStep, ApprovalMissing, ApprovalLookup, ApprovalAsk, ApprovalAdd,
                        Approves, At
    <3>5. ~JWTStep(r)
      BY <2>1, Zenon DEF JWTStep, JWTNotRequired, JWTCheck, JWTHook, Calls, At
    <3>6. ~VaryInterval(r) /\ ~CheckConnection(r) /\ ~ListCheck(r)
      BY <2>1, Zenon DEF VaryInterval, CheckConnection, ListCheck, Calls, At
    <3>7. QED
      BY <1>2, <3>2, <3>3, <3>4, <3>5, <3>6 DEF Serve
  <2>2. OthersStay(r)
    BY <1>2, Serving, Zenon DEF Served, Moves
  <2>3. QED
    BY <2>1, <2>2 DEF OthersStay, At
<1>3. CASE Tick \/ (Updating /\ UNCHANGED handler /\ ButJWT) \/ Outside
  BY <1>3, Elsewhere DEF At
<1>4. QED
  BY <1>1, <1>2, <1>3 DEF Next

\* The sets of the peer limit: members and expiry come and go together.
LEMMA LimitExpires ==
    ASSUME IInv, Next, LocksExpire
    PROVE  LocksExpire'
<1> LimitOK
  BY DEF IInv, TypeOK
<1>1. SUFFICES ASSUME NEW k \in Passkey, members'[k] # {} PROVE lifetime'[k] > 0
  BY DEF LocksExpire
<1>2. members[k] # {} => lifetime[k] > 0
  BY DEF LocksExpire
<1>3. lifetime[k] \in Nat
  BY PeerLimitAssumption DEF LimitOK
<1>4. CASE UNCHANGED limitVars \/ \E p \in Peer : Vanish(p)
  BY <1>1, <1>2, <1>4, Zenon DEF limitVars, Vanish
<1>5. ASSUME NEW r \in Handler, LimitStep(r) PROVE lifetime'[k] > 0
  <2>1. CASE LimitStopped(r)
    BY <1>1, <1>2, <2>1 DEF LimitStopped, LimitOK
  <2>2. CASE LimitEnter(r)
    BY <1>1, <1>2, <2>2, PeerLimitAssumption DEF LimitEnter, LimitOK
  <2>3. QED
    BY <1>4, <1>5, <2>1, <2>2 DEF LimitStep, LimitSkip, LimitMembers
<1>6. CASE LimitTick
  BY <1>1, <1>2, <1>3, <1>6 DEF LimitTick
<1>7. QED
  BY <1>4, <1>5, <1>6, LimitFrame

\* The set of passkeys: whoever adds to it sends EXPIRE next.
LEMMA CacheExpires ==
    ASSUME IInv, Next, CacheExpire
    PROVE  CacheExpire'
<1> ApprovalOK /\ Approvals
  BY DEF IInv, TypeOK
<1>1. ASSUME UNCHANGED <<approved, approvedTTL, persists>> PROVE CacheExpire'
  <2>1. ASSUME NEW s \in Handler, At(s, "expire"), ApprovalExpire(s) PROVE CacheExpire'
    <3>1. CacheTTL > 0
      BY <2>1, Zenon DEF IInv, Places, PlaceOf
    <3>2. QED
      BY <1>1, <2>1, <3>1, ApprovalAssumption
         DEF ApprovalExpire, CacheExpire, Expiring, ApprovalOK, Approvals
  <2>2. QED
    BY <1>1, <2>1, ExpireStays DEF CacheExpire, Expiring
<1>2. ASSUME NEW r \in Handler, ApprovalStep(r), ButApproval PROVE CacheExpire'
  <2>1. CASE ApprovalAdd(r)
    <3>1. "expire" \in Place /\ HandlersOK
      BY DEF Place, IInv, TypeOK
    <3>2. At(r, "expire")'
      BY <2>1, <3>1, GotoMoves, Zenon DEF ApprovalAdd, At
    <3>3. QED
      BY <3>2 DEF CacheExpire, Expiring
  <2>2. CASE ApprovalExpire(r)
    <3>1. CacheTTL > 0 /\ CacheTTL \in Nat
      BY <2>2, ApprovalAssumption, Zenon DEF ApprovalExpire, IInv, Places, PlaceOf
    <3>2. CASE approvedTTL' = IF approved = {} THEN 0 ELSE CacheTTL
      BY <2>2, <3>1, <3>2 DEF ApprovalExpire, CacheExpire, Expiring
    <3>3. CASE persists' = (persists \/ approvedTTL = Never) /\ UNCHANGED approvedTTL
      <4>1. approved # {} => approvedTTL \in Nat \ {0} \/ approvedTTL = Never
        BY ApprovalAssumption DEF ApprovalOK, Approvals
      <4>2. QED
        BY <2>2, <3>3, <4>1, Zenon DEF ApprovalExpire, CacheExpire, Expiring
    <3>4. QED
      BY <2>2, <3>2, <3>3, Zenon DEF ApprovalExpire
  <2>3. QED
    BY <1>1, <1>2, <2>1, <2>2, Zenon
       DEF ApprovalStep, ApprovalMissing, ApprovalLookup, ApprovalAsk, approvalVars
<1>3. CASE ApprovalTick
  <2>1. CASE approvedTTL \in {0, Never}
    BY <1>1, <1>3, <2>1, ApprovalAssumption DEF ApprovalTick
  <2>2. CASE approvedTTL = 1
    BY <1>3, <2>2 DEF ApprovalTick, CacheExpire
  <2>3. CASE approvedTTL \in Nat \ {0, 1}
    BY <1>3, <2>3, ApprovalAssumption DEF ApprovalTick, CacheExpire, Expiring
  <2>4. QED
    BY <2>1, <2>2, <2>3, ApprovalAssumption DEF ApprovalOK
<1>4. ASSUME NEW k \in Passkey, SiteAdds(k) PROVE CacheExpire'
  <2>1. \A s \in Handler : At(s, "expire") => At(s, "expire")'
    BY <1>4, Zenon DEF SiteAdds, At
  <2>2. CASE approved = {}
    BY <1>4, <2>2 DEF SiteAdds, CacheExpire
  <2>3. CASE approved # {}
    BY <1>4, <2>1, <2>3 DEF SiteAdds, CacheExpire, Expiring
  <2>4. QED
    BY <2>2, <2>3
<1>5. ASSUME NEW k \in Passkey, SiteRemoves(k) PROVE CacheExpire'
  <2>1. \A s \in Handler : At(s, "expire") => At(s, "expire")'
    BY <1>5, Zenon DEF SiteRemoves, At
  <2>2. QED
    BY <1>5, <2>1 DEF SiteRemoves, CacheExpire, Expiring
<1>6. ASSUME NEW K \in SUBSET Passkey, SiteRenames(K) PROVE CacheExpire'
  BY <1>6 DEF SiteRenames, CacheExpire
<1>7. QED
  BY <1>1, <1>2, <1>3, <1>4, <1>5, <1>6, ApprovalFrame, Zenon DEF approvalVars, Approve, Withdraw

\* No set in Redis is kept for ever: a lock always has an expiry, the set of
\* passkeys unless the handler that gives it one is under way, its command
\* has failed or the site made the set, for any number of handlers and every configuration
\* (peerlimit.HandleAnnounce and passkeyapproval.HandleAnnounce).
THEOREM SetsDoExpire == Spec => []SetsExpire
<1>1. Init => SetsExpire
  BY DEF Init, LimitInit, ApprovalInit, SetsExpire, LocksExpire, CacheExpire
<1>2. IInv /\ SetsExpire /\ [Next]_vars => SetsExpire'
  <2>1. ASSUME IInv, SetsExpire, Next PROVE SetsExpire'
    BY <2>1, LimitExpires, CacheExpires DEF SetsExpire
  <2>2. ASSUME SetsExpire, UNCHANGED vars PROVE SetsExpire'
    BY <2>2 DEF SetsExpire, LocksExpire, CacheExpire, Expiring, At, vars, limitVars, approvalVars
  <2>3. QED
    BY <2>1, <2>2
<1>3. QED
  BY <1>1, <1>2, Invariance, PTL DEF Spec

\* No announce gets past an approving hook that it was not approved by, in
\* whatever order the hooks are configured and however requests, the updating
\* of keys and the site's decisions interleave (Logic.HandleAnnounce).
THEOREM PassedWereApproved == Spec => []OnlyApproved
<1>1. IInv => OnlyApproved
  <2>1. SUFFICES ASSUME IInv, NEW r \in Handler, At(r, "passed")
                 PROVE  /\ Uses("client approval") => ~Unlisted(handler[r].peer)
                        /\ Uses("passkey approval") => PasskeyOf(r) \in everApproved
                        /\ Uses("jwt") => token["jwt"][r] \in history["jwt"]
    BY Zenon DEF OnlyApproved
  <2>2. \A i \in 1..Len(setup.hooks) : Accepted(r, i)
    BY <2>1 DEF IInv, AllAccepted, Behind
  <2>3. QED
    BY <2>2, Zenon DEF Accepted, Uses
<1>2. QED
  BY <1>1, Invariance, PTL

\* Requests are checked with keys that were published while the last update
\* was fetched: no withdrawn key outlives an update, for any number of keys,
\* whatever fetches fail or bring error pages (jwt.updateKeys).
THEOREM KeysStayCurrent == Spec => []KeysCurrent
<1>1. IInv => KeysCurrent
  BY DEF IInv, KeySets, KeysCurrent
<1>2. QED
  BY <1>1, Invariance, PTL

\* For integers of any width both intervals are lengthened by at most
\* MaxIncreaseDelta seconds, and shortened only for the least integer
\* (random.Intn, varinterval.HandleAnnounce).
THEOREM IntervalsVaried == Spec => []IntervalVaried
<1>1. IInv => IntervalVaried
  BY DEF IInv
<1>2. QED
  BY <1>1, Invariance, PTL

\* Only the check of the connection ID moves a handler that is about to do it.
LEMMA ConnectionChecked ==
    ASSUME IInv, Next, NEW r \in Handler, Calls(r, "connection id"), handler'[r] # handler[r]
    PROVE  CheckConnection(r)
<1>1. Busy(r) /\ At(r, "call") /\ setup.hooks[handler[r].at] = "connection id"
  BY CallsBusy, Zenon DEF Calls
<1>2. ASSUME NEW s \in Handler, NEW p \in Peer, NEW q \in Announces(p), Receive(s, q) PROVE FALSE
  <2>1. s = r
    BY <1>2, Receiving, Zenon DEF OthersStay
  <2>2. QED
    BY <1>1, <1>2, <2>1, Zenon DEF Receive, Begin
<1>3. ASSUME NEW s \in Handler, Serve(s) PROVE CheckConnection(r)
  <2>1. s = r
    BY <1>3, Serving, Zenon DEF Served, Moves, OthersStay
  <2>2. ~LimitStep(r)
    BY <1>1, Zenon
       DEF LimitStep, LimitSkip, LimitStopped, LimitMembers, LimitEnter, Limits, Calls, At
  <2>3. ~PushStep(r)
    BY <1>1, Zenon DEF PushStep, PushRead, PushSnapshot, PushSend, PushSendFails, Calls, At
  <2>4. ~ApprovalStep(r)
    BY <1>1, Zenon DEF ApprovalStep, ApprovalMissing, ApprovalLookup, ApprovalAsk, ApprovalAdd,
                ApprovalExpire, Approves, Calls, At
  <2>5. ~JWTStep(r)
    BY <1>1, Zenon DEF JWTStep, JWTNotRequired, JWTCheck, JWTHook, Calls, At
  <2>6. ~VaryInterval(r) /\ ~ListCheck(r)
    BY <1>1, Zenon DEF VaryInterval, ListCheck, Calls, At
  <2>7. QED
    BY <1>3, <2>1, <2>2, <2>3, <2>4, <2>5, <2>6, Zenon DEF Serve
<1>4. CASE Tick \/ (Updating /\ UNCHANGED handler /\ ButJWT) \/ Outside
  BY <1>4, Elsewhere, Zenon
<1>5. QED
  BY <1>2, <1>3, <1>4, Zenon DEF Next

\* How the age of an ID follows from the age of its stamp.
LEMMA Window ==
    ASSUME NEW id, id.stamp \in Nat, id.made \in Nat, now \in Nat,
           id.stamp * Second <= id.made, id.made < id.stamp * Second + Second
    PROVE  /\ now <= id.stamp * Second + TTL => now - id.made <= TTL
           /\ id.stamp * Second <= now + MaxClockSkew => id.made - now < MaxClockSkew + Second
           /\ ~(now <= id.stamp * Second + TTL) => now - id.made > TTL - Second
           /\ ~(id.stamp * Second <= now + MaxClockSkew) => id.made - now > MaxClockSkew
<1>1. Second \in Nat /\ TTL \in Nat /\ MaxClockSkew \in Nat /\ id.stamp * Second \in Nat
  BY ConnectionAssumption
<1>2. ASSUME NEW s \in Nat, NEW m \in Nat, NEW n \in Nat, NEW t \in Nat, NEW k \in Nat,
             NEW l \in Nat, s <= m, m < s + l
      PROVE  /\ n <= s + t => n - m <= t
             /\ s <= n + k => m - n < k + l
             /\ ~(n <= s + t) => n - m > t - l
             /\ ~(s <= n + k) => m - n > k
  BY <1>2
<1>3. QED
  BY <1>1, <1>2

\* For clocks of any resolution, any ttl and any skew, the IDs that are let
\* through are those made for the address within the ttl, give or take a
\* second (ConnectionIDGenerator.Generate and Validate).
THEOREM WindowKept == Spec => ConnectionWindow
<1> DEFINE Right(r) ==
       LET id == connID[handler[r].peer]
           a == address[handler[r].peer]
       IN  Calls(r, "connection id") /\ handler'[r] # handler[r] =>
             IF handler'[r].pc = "refused"
             THEN \/ id.address # a
                  \/ now - id.made > TTL - Second
                  \/ id.made - now > MaxClockSkew
             ELSE /\ id.address = a
                  /\ now - id.made <= TTL
                  /\ id.made - now < MaxClockSkew + Second
<1>1. ASSUME IInv, Next, NEW r \in Handler PROVE Right(r)
  <2> DEFINE id == connID[handler[r].peer]
             a == address[handler[r].peer]
  <2>1. SUFFICES ASSUME Calls(r, "connection id"), handler'[r] # handler[r]
                 PROVE  IF handler'[r].pc = "refused"
                        THEN \/ id.address # a
                             \/ now - id.made > TTL - Second
                             \/ id.made - now > MaxClockSkew
                        ELSE /\ id.address = a
                             /\ now - id.made <= TTL
                             /\ id.made - now < MaxClockSkew + Second
    BY Zenon
  <2>2. CheckConnection(r)
    BY <1>1, <2>1, ConnectionChecked, Zenon
  <2>3. handler[r].peer \in Peer /\ HandlersOK
    BY <1>1 DEF IInv, TypeOK, HandlersOK, HandlerState
  <2>4. /\ id.stamp \in Nat /\ id.made \in Nat /\ now \in Nat
        /\ id.stamp * Second <= id.made
        /\ id.made < id.stamp * Second + Second
    BY <1>1, <2>3 DEF IInv, TypeOK, ConnectionOK, Stamps
  <2>5. /\ now <= id.stamp * Second + TTL => now - id.made <= TTL
        /\ id.stamp * Second <= now + MaxClockSkew => id.made - now < MaxClockSkew + Second
        /\ ~(now <= id.stamp * Second + TTL) => now - id.made > TTL - Second
        /\ ~(id.stamp * Second <= now + MaxClockSkew) => id.made - now > MaxClockSkew
    BY <2>4, Window, Zenon
  <2>6. CASE Validate(id, a)
    <3>1. Return(r)
      BY <2>2, <2>6, Zenon DEF CheckConnection
    <3>2. handler'[r].pc # "refused"
      BY <2>3, <3>1, ReturnMoves
    <3>3. now <= id.stamp * Second + TTL /\ id.stamp * Second <= now + MaxClockSkew /\ id.address = a
      BY <2>6 DEF Validate
    <3>4. now - id.made <= TTL /\ id.made - now < MaxClockSkew + Second
      BY <2>5, <3>3, Zenon
    <3>5. QED
      BY <3>2, <3>3, <3>4
  <2>7. CASE ~Validate(id, a)
    <3>1. handler'[r].pc = "refused"
      BY <2>2, <2>3, <2>7, RefuseMoves, Zenon DEF CheckConnection
    <3>2. \/ ~(now <= id.stamp * Second + TTL)
          \/ ~(id.stamp * Second <= now + MaxClockSkew)
          \/ id.address # a
      BY <2>7 DEF Validate
    <3>3. \/ id.address # a
          \/ now - id.made > TTL - Second
          \/ id.made - now > MaxClockSkew
      BY <2>5, <3>2, Zenon
    <3>4. QED
      BY <3>1, <3>3
  <2>8. QED
    BY <2>6, <2>7
<1>2. IInv /\ [Next]_vars => [\A r \in Handler : Right(r)]_<<handler, connectionVars>>
  BY <1>1, Zenon DEF vars
<1>3. QED
  BY <1>2, Invariance, PTL DEF Spec, ConnectionWindow

=============================================================================
