-------------------------- MODULE LifecycleProofs --------------------------
(***************************************************************************)
(* Proofs about module Lifecycle for any number of concurrent handlers.     *)
(***************************************************************************)
EXTENDS Lifecycle, TLAPS

\* Run.Stop is past the frontends, or Run.Start not yet at the UDP socket.
Quiet == main \in {"logic", "store", "return", "start", "http", "udp"}

\* A closed socket is left behind by a reader that will not read again, and
\* no handler is there without a socket.
SocketState ==
    /\ stopping = "done" => serve # "read" /\ Handling("udp") = {}
    /\ serve = "none" => Handling("udp") = {}
    /\ Quiet => stopping = "done" \/ serve = "none"

\* Only a server that has served has handlers.
ServerState ==
    /\ http \in {"none", "bound", "assigned", "closing"} => Handling("http") = {}
    /\ Quiet => HTTPStopped

\* keepPeerStore is false only in a shutdown, once a Start has succeeded.
StoreState ==
    /\ main \in {"stop", "frontends", "logic", "store", "return"} /\ ~keep => term
    /\ main \in {"store", "return"} => ~keep
    /\ store = "closed" => main \in {"return"} \cup Ended /\ term /\ ~keep
    /\ main = "crashed" => store = "closed"

IInv == TypeOK /\ SocketState /\ ServerState /\ StoreState

-----------------------------------------------------------------------------
(* A process that has not started anything satisfies the inductive          *)
(* invariant.                                                               *)
LEMMA InitIInv == Init => IInv
  BY Zenon DEF Init, IInv, TypeOK, SocketState, ServerState, StoreState, Quiet,
         Handling, HTTPStopped, Ended

(* The main goroutine (Start, Stop, the signal loop) keeps the invariant.   *)
LEMMA MainKeeps == IInv /\ MainStep => IInv'
<1> SUFFICES ASSUME IInv, MainStep PROVE IInv'
  OBVIOUS
<1> USE DEF IInv, TypeOK, SocketState, ServerState, StoreState, Quiet,
            Handling, HTTPStopped, Ended
<1>1. CASE StartLogic BY <1>1 DEF StartLogic
<1>2. CASE ListenHTTP BY <1>2 DEF ListenHTTP, AddressFree
<1>3. CASE AddressInUse BY <1>3 DEF AddressInUse
<1>4. CASE ListenUDP BY <1>4 DEF ListenUDP
<1>5. CASE StartFails BY <1>5 DEF StartFails
<1>6. CASE SelectReload BY <1>6 DEF SelectReload
<1>7. CASE SelectTerm
  <2>1. term' /\ main' = "stop" /\ store' = store /\ main = "select"
    BY <1>7 DEF SelectTerm
  <2>2. StoreState' BY <2>1, Zenon
  <2>3. TypeOK' /\ SocketState' /\ ServerState' BY <1>7, Zenon DEF SelectTerm
  <2> QED BY <2>2, <2>3
<1>8. CASE StopFrontends BY <1>8 DEF StopFrontends
<1>9. CASE StopLogic BY <1>9 DEF StopLogic
<1>10. CASE StopFails BY <1>10 DEF StopFails
<1>11. CASE LogicStopped BY <1>11 DEF LogicStopped
<1>12. CASE CloseStore BY <1>12 DEF CloseStore
<1>13. CASE Exit BY <1>13 DEF Exit
<1> QED
  BY <1>1, <1>2, <1>3, <1>4, <1>5, <1>6, <1>7, <1>8, <1>9, <1>10, <1>11,
     <1>12, <1>13 DEF MainStep

(* So do the server goroutine of the HTTP frontend, the read loop of the    *)
(* UDP frontend and the goroutine of its Stop.                              *)
LEMMA FrontendsKeep == IInv /\ (HTTPStep \/ ServeStep \/ StopStep) => IInv'
<1> SUFFICES ASSUME IInv, HTTPStep \/ ServeStep \/ StopStep PROVE IInv'
  OBVIOUS
<1> USE DEF IInv, TypeOK, SocketState, ServerState, StoreState, Quiet,
            Handling, HTTPStopped, Ended
<1>1. CASE AssignServer BY <1>1 DEF AssignServer
<1>2. CASE ServeHTTP BY <1>2 DEF ServeHTTP
<1>3. CASE Serve BY <1>3 DEF Serve
<1>4. CASE CheckClosing BY <1>4 DEF CheckClosing, Closing
<1>5. CASE ReadTimesOut BY <1>5 DEF ReadTimesOut
<1>6. CASE CloseClosing BY <1>6 DEF CloseClosing
<1>7. CASE SetReadDeadline BY <1>7 DEF SetReadDeadline
<1>8. CASE CloseSocket BY <1>8 DEF CloseSocket
<1> QED
  BY <1>1, <1>2, <1>3, <1>4, <1>5, <1>6, <1>7, <1>8
  DEF HTTPStep, ServeStep, StopStep

(* So do the handlers of both frontends and the goroutines of AfterAnnounce *)
(* that they leave behind.                                                  *)
LEMMA HandlersKeep ==
    ASSUME NEW h \in Handler, IInv, AcceptHTTP(h) \/ ReadPacket(h) \/ HandlerStep(h)
    PROVE  IInv'
<1> USE DEF IInv, TypeOK, SocketState, ServerState, StoreState, Quiet,
            Handling, HTTPStopped, Ended
<1>1. CASE AcceptHTTP(h) BY <1>1 DEF AcceptHTTP
<1>2. CASE ReadPacket(h) BY <1>2 DEF ReadPacket, Deadline
<1>3. CASE Respond(h) BY <1>3 DEF Respond
<1>4. CASE Finish(h) BY <1>4 DEF Finish
<1>5. CASE AfterAnnounce(h) BY <1>5 DEF AfterAnnounce
<1>6. CASE Panic(h) BY <1>6 DEF Panic, Alive
<1> QED
  BY <1>1, <1>2, <1>3, <1>4, <1>5, <1>6 DEF HandlerStep

(* Every step of the process keeps the invariant.                           *)
LEMMA StepKeeps == IInv /\ [Next]_vars => IInv'
<1> SUFFICES ASSUME IInv, [Next]_vars PROVE IInv'
  OBVIOUS
<1>1. CASE Terminate
  BY <1>1 DEF Terminate, IInv, TypeOK, SocketState, ServerState, StoreState,
              Quiet, Handling, HTTPStopped, Ended
<1>2. CASE RequestReload
  BY <1>2 DEF RequestReload, IInv, TypeOK, SocketState, ServerState,
              StoreState, Quiet, Handling, HTTPStopped, Ended
<1>3. CASE UNCHANGED vars
  BY <1>3 DEF vars, IInv, TypeOK, SocketState, ServerState, StoreState,
              Quiet, Handling, HTTPStopped, Ended
<1> QED
  BY <1>1, <1>2, <1>3, MainKeeps, FrontendsKeep, HandlersKeep DEF Next

\* The inductive invariant holds in every reachable state: what Stop, Start,
\* the reader and the handlers rely on of one another.
THEOREM Invariance == Spec => []IInv
  BY InitIInv, StepKeeps, PTL DEF Spec

\* The values of the lifecycle variables, and that a process that starts
\* afresh has no store.
THEOREM TypeCorrect == Spec => []TypeOK
<1>1. IInv => TypeOK BY DEF IInv
<1> QED BY <1>1, Invariance, PTL

\* Run.Stop waits for every handler of the frontends it has stopped before it
\* stops the logic and the store.
THEOREM StopWaits == Spec => []FrontendsQuiet
<1>1. IInv => FrontendsQuiet
  BY DEF IInv, SocketState, ServerState, Quiet, FrontendsQuiet
<1> QED BY <1>1, Invariance, PTL

\* udp.Frontend.Stop closes the socket only after the last handler.
THEOREM SocketStaysOpen == Spec => []SocketOpen
<1>1. IInv => SocketOpen BY DEF IInv, SocketState, SocketOpen
<1> QED BY <1>1, Invariance, PTL

\* Neither the store is closed nor does a late AfterAnnounce panic, except in
\* a shutdown.
THEOREM ReloadSafe == Spec => []ReloadKeepsStore
<1>1. IInv => ReloadKeepsStore
  BY DEF IInv, StoreState, ReloadKeepsStore
<1> QED BY <1>1, Invariance, PTL

=============================================================================
