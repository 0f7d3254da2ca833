----------------------------- MODULE Lifecycle -----------------------------
(***************************************************************************)
(* Starting, reloading and stopping the tracker: cmd/chihaya/main.go, the   *)
(* stop group, and the goroutines of the two frontends.                     *)
(*                                                                         *)
(* The main goroutine starts the store, the logic, the HTTP frontend and    *)
(* the UDP frontend, waits for a signal, and stops them: the frontends,     *)
(* then the logic and, if it is not a reload, the store.  Each frontend has *)
(* a goroutine that serves, and a handler for each request, which after     *)
(* answering an announce starts a goroutine for AfterAnnounce.  That        *)
(* goroutine is the only one that nobody waits for.                         *)
(*                                                                         *)
(* An HTTPS listener would be one more server like the HTTP one.  A         *)
(* reload makes new frontends; of the old ones only an HTTP server that     *)
(* was not shut down can still do anything.                                 *)
(***************************************************************************)
CONSTANT Handler     \* goroutines that serve requests

VARIABLES
    main,            \* the main goroutine
    keep,            \* keepPeerStore, the argument of Run.Stop
    term,            \* the context of SIGINT and SIGTERM is done
    reload,          \* the context of the reload signals
    store,           \* the peer store
    http,            \* the HTTP server and its goroutine
    serve,           \* the goroutine of the UDP frontend
    stopping,        \* the goroutine started by its Stop
    handler          \* what each handler is doing

vars == <<main, keep, term, reload, store, http, serve, stopping, handler>>

\* The process has ended: it returned from main, with or without an error,
\* or a goroutine panicked.
Ended == {"exited", "failed", "crashed"}

(***************************************************************************)
(* The context of the reload signals is "off" until it is made; "sent"      *)
(* when a signal has come since the last reload and "handled" when none     *)
(* has: it is done in both.  An HTTP server has a listener ("bound"), is    *)
(* in f.srv ("assigned"), and serves; "closing" is a server that was shut   *)
(* down before it served and still has its listener.                        *)
(***************************************************************************)
TypeOK ==
    /\ main \in {"start", "http", "udp", "select", "stop", "frontends",
                 "logic", "store", "return"} \cup Ended
    /\ keep \in BOOLEAN
    /\ term \in BOOLEAN
    /\ reload \in {"off", "none", "sent", "handled"}
    /\ store \in {"none", "open", "closed"}
    /\ http \in {"none", "bound", "assigned", "serving", "closing", "shutdown"}
    /\ serve \in {"none", "spawned", "check", "read", "returned"}
    /\ stopping \in {"none", "close", "deadline", "wait", "done"}
    /\ handler \in [Handler -> {"idle", "udp", "http", "after"}]
    /\ main = "start" /\ ~keep => store = "none"

Init ==
    /\ main = "start"
    /\ keep = FALSE
    /\ term = FALSE
    /\ reload = "off"
    /\ store = "none"
    /\ http = "none"
    /\ serve = "none"
    /\ stopping = "none"
    /\ handler = [h \in Handler |-> "idle"]

Alive == main \notin Ended

-----------------------------------------------------------------------------
(***************************************************************************)
(* Run.Start.                                                               *)
(***************************************************************************)
\* A store is made unless a reload kept one; then the hooks and the logic.
StartLogic ==
    /\ main = "start"
    /\ store' = IF store = "none" THEN "open" ELSE store
    /\ main' = "http"
    /\ UNCHANGED <<keep, term, reload, http, serve, stopping, handler>>

AddressFree == http \in {"none", "shutdown"}

\* http.NewFrontend: the listener is opened and the goroutine started.
ListenHTTP ==
    /\ main = "http"
    /\ AddressFree
    /\ http' = "bound"
    /\ main' = "udp"
    /\ UNCHANGED <<keep, term, reload, store, serve, stopping, handler>>

\* The listener of the HTTP server before the reload is still open.
AddressInUse ==
    /\ main = "http"
    /\ ~AddressFree
    /\ main' = "failed"
    /\ UNCHANGED <<keep, term, reload, store, http, serve, stopping, handler>>

\* udp.NewFrontend.  The first time, main then asks to be notified.
ListenUDP ==
    /\ main = "udp"
    /\ serve' = "spawned"
    /\ stopping' = "none"
    /\ reload' = IF reload = "off" THEN "none" ELSE reload
    /\ main' = "select"
    /\ UNCHANGED <<keep, term, store, http, handler>>

\* The configuration cannot be read, a hook refuses its own, or an address
\* is taken by another process.
StartFails ==
    /\ main \in {"start", "http", "udp"}
    /\ main' = "failed"
    /\ UNCHANGED <<keep, term, reload, store, http, serve, stopping, handler>>

-----------------------------------------------------------------------------
(***************************************************************************)
(* RootRunCmdFunc.  A context that is done stays done.                      *)
(***************************************************************************)
Terminate ==
    /\ Alive
    /\ reload # "off"
    /\ ~term
    /\ term' = TRUE
    /\ UNCHANGED <<main, keep, reload, store, http, serve, stopping, handler>>

RequestReload ==
    /\ Alive
    /\ reload \in {"none", "handled"}
    /\ reload' = "sent"
    /\ UNCHANGED <<main, keep, term, store, http, serve, stopping, handler>>

SelectReload ==
    /\ main = "select"
    /\ reload \in {"sent", "handled"}
    /\ reload' = "handled"
    /\ keep' = TRUE
    /\ main' = "stop"
    /\ UNCHANGED <<term, store, http, serve, stopping, handler>>

SelectTerm ==
    /\ main = "select"
    /\ term
    /\ keep' = FALSE
    /\ main' = "stop"
    /\ UNCHANGED <<term, reload, store, http, serve, stopping, handler>>

-----------------------------------------------------------------------------
(***************************************************************************)
(* Run.Stop.                                                                *)
(***************************************************************************)
\* The stop group calls Stop of each frontend.  That of the HTTP frontend
\* finds f.srv nil if its goroutine has not got to assigning it.
StopFrontends ==
    /\ main = "stop"
    /\ http' = CASE http = "assigned" -> "closing"
                 [] http = "serving" -> "shutdown"
                 [] OTHER -> http
    /\ stopping' = "close"
    /\ main' = "frontends"
    /\ UNCHANGED <<keep, term, reload, store, serve, handler>>

Handling(front) == {h \in Handler : handler[h] = front}

\* Shutdown has returned, if it was called.
HTTPStopped == http = "shutdown" => Handling("http") = {}

\* Mutant of StopLogic: the result of Stop is not waited for.
StopLogicAtOnce ==
    /\ main = "frontends"
    /\ main' = "logic"
    /\ UNCHANGED <<keep, term, reload, store, http, serve, stopping, handler>>

\* The stop group has waited for all of them; the hooks are stopped next.
StopLogic ==
    /\ main = "frontends"
    /\ HTTPStopped
    /\ stopping = "done"
    /\ main' = "logic"
    /\ UNCHANGED <<keep, term, reload, store, http, serve, stopping, handler>>

\* One of them returned an error: so does Run.Stop, and main.  The Stop of a
\* hook or a store never returns one.
StopFails ==
    /\ main = "frontends"
    /\ HTTPStopped
    /\ stopping = "done"
    /\ main' = "failed"
    /\ UNCHANGED <<keep, term, reload, store, http, serve, stopping, handler>>

\* Mutant of LogicStopped: the store is stopped for a reload too.
LogicStoppedAlways ==
    /\ main = "logic"
    /\ main' = "store"
    /\ UNCHANGED <<keep, term, reload, store, http, serve, stopping, handler>>

LogicStopped ==
    /\ main = "logic"
    /\ main' = IF keep THEN "start" ELSE "store"
    /\ UNCHANGED <<keep, term, reload, store, http, serve, stopping, handler>>

CloseStore ==
    /\ main = "store"
    /\ store' = "closed"
    /\ main' = "return"
    /\ UNCHANGED <<keep, term, reload, http, serve, stopping, handler>>

Exit ==
    /\ main = "return"
    /\ main' = "exited"
    /\ UNCHANGED <<keep, term, reload, store, http, serve, stopping, handler>>

-----------------------------------------------------------------------------
(***************************************************************************)
(* The HTTP frontend.                                                       *)
(***************************************************************************)
AssignServer ==
    /\ Alive
    /\ http = "bound"
    /\ http' = "assigned"
    /\ UNCHANGED <<main, keep, term, reload, store, serve, stopping, handler>>

\* Serve; on a server that was shut down it closes the listener and returns.
ServeHTTP ==
    /\ Alive
    /\ \/ http = "assigned" /\ http' = "serving"
       \/ http = "closing" /\ http' = "shutdown"
    /\ UNCHANGED <<main, keep, term, reload, store, serve, stopping, handler>>

\* A connection is accepted and its request read.
AcceptHTTP(h) ==
    /\ Alive
    /\ http = "serving"
    /\ handler[h] = "idle"
    /\ handler' = [handler EXCEPT ![h] = "http"]
    /\ UNCHANGED <<main, keep, term, reload, store, http, serve, stopping>>

-----------------------------------------------------------------------------
(***************************************************************************)
(* The UDP frontend.                                                        *)
(***************************************************************************)
Closing == stopping \in {"deadline", "wait", "done"}

\* Mutant of Deadline: Stop leaves it to a packet to wake the reader.
NoDeadline == FALSE

\* A read times out.
Deadline == stopping \in {"wait", "done"}

\* The goroutine starts and adds itself to the wait group.
Serve ==
    /\ Alive
    /\ serve = "spawned"
    /\ serve' = "check"
    /\ UNCHANGED <<main, keep, term, reload, store, http, stopping, handler>>

CheckClosing ==
    /\ Alive
    /\ serve = "check"
    /\ serve' = IF Closing THEN "returned" ELSE "read"
    /\ UNCHANGED <<main, keep, term, reload, store, http, stopping, handler>>

\* A packet is read, the handler added to the wait group and started.
ReadPacket(h) ==
    /\ Alive
    /\ serve = "read"
    /\ ~Deadline
    /\ handler[h] = "idle"
    /\ handler' = [handler EXCEPT ![h] = "udp"]
    /\ serve' = "check"
    /\ UNCHANGED <<main, keep, term, reload, store, http, stopping>>

ReadTimesOut ==
    /\ Alive
    /\ serve = "read"
    /\ Deadline
    /\ serve' = "check"
    /\ UNCHANGED <<main, keep, term, reload, store, http, stopping, handler>>

CloseClosing ==
    /\ Alive
    /\ stopping = "close"
    /\ stopping' = "deadline"
    /\ UNCHANGED <<main, keep, term, reload, store, http, serve, handler>>

SetReadDeadline ==
    /\ Alive
    /\ stopping = "deadline"
    /\ stopping' = "wait"
    /\ UNCHANGED <<main, keep, term, reload, store, http, serve, handler>>

\* Mutant of CloseSocket: the handlers are not in the wait group.
CloseSocketEarly ==
    /\ Alive
    /\ stopping = "wait"
    /\ serve \notin {"check", "read"}
    /\ stopping' = "done"
    /\ UNCHANGED <<main, keep, term, reload, store, http, serve, handler>>

\* The wait group is empty.
CloseSocket ==
    /\ Alive
    /\ stopping = "wait"
    /\ serve \notin {"check", "read"}
    /\ Handling("udp") = {}
    /\ stopping' = "done"
    /\ UNCHANGED <<main, keep, term, reload, store, http, serve, handler>>

-----------------------------------------------------------------------------
(***************************************************************************)
(* The handlers.  A closed store panics.                                    *)
(***************************************************************************)
\* An announce is answered and AfterAnnounce started.
Respond(h) ==
    /\ Alive
    /\ handler[h] \in {"udp", "http"}
    /\ store = "open"
    /\ handler' = [handler EXCEPT ![h] = "after"]
    /\ UNCHANGED <<main, keep, term, reload, store, http, serve, stopping>>

\* A request is refused, or was not an announce, or its HTTP handler has
\* panicked.
Finish(h) ==
    /\ Alive
    /\ handler[h] \in {"udp", "http"}
    /\ handler' = [handler EXCEPT ![h] = "idle"]
    /\ UNCHANGED <<main, keep, term, reload, store, http, serve, stopping>>

\* The post-hooks update the store.
AfterAnnounce(h) ==
    /\ Alive
    /\ handler[h] = "after"
    /\ store = "open"
    /\ handler' = [handler EXCEPT ![h] = "idle"]
    /\ UNCHANGED <<main, keep, term, reload, store, http, serve, stopping>>

\* net/http recovers the panics of its handlers; nothing recovers others.
Panic(h) ==
    /\ Alive
    /\ store = "closed"
    /\ handler[h] \in {"udp", "after"}
    /\ main' = "crashed"
    /\ UNCHANGED <<keep, term, reload, store, http, serve, stopping, handler>>

-----------------------------------------------------------------------------
MainStep ==
    \/ StartLogic
    \/ ListenHTTP
    \/ AddressInUse
    \/ ListenUDP
    \/ StartFails
    \/ SelectReload
    \/ SelectTerm
    \/ StopFrontends
    \/ StopLogic
    \/ StopFails
    \/ LogicStopped
    \/ CloseStore
    \/ Exit

HTTPStep == AssignServer \/ ServeHTTP

ServeStep == Serve \/ CheckClosing \/ ReadTimesOut

StopStep == CloseClosing \/ SetReadDeadline \/ CloseSocket

HandlerStep(h) ==
    \/ Respond(h)
    \/ Finish(h)
    \/ AfterAnnounce(h)
    \/ Panic(h)

Next ==
    \/ Terminate
    \/ RequestReload
    \/ MainStep
    \/ HTTPStep
    \/ ServeStep
    \/ StopStep
    \/ \E h \in Handler : \/ AcceptHTTP(h)
                          \/ ReadPacket(h)
                          \/ HandlerStep(h)

Spec == Init /\ [][Next]_vars

(***************************************************************************)
(* Fairness: goroutines that can run are run, and a select with two cases   *)
(* ready chooses at random, so that it does not pass one over for ever.     *)
(* Nothing makes a client send a request or an operator a signal.           *)
(***************************************************************************)
FairSpec ==
    /\ Spec
    /\ WF_vars(MainStep)
    /\ SF_vars(SelectTerm)
    /\ WF_vars(HTTPStep)
    /\ WF_vars(ServeStep)
    /\ WF_vars(StopStep)
    /\ \A h \in Handler : WF_vars(HandlerStep(h))

-----------------------------------------------------------------------------
(***************************************************************************)
(* Properties.                                                              *)
(***************************************************************************)
\* While Run.Stop stops the logic and the store, and until Run.Start opens
\* the UDP socket again, no handler of the UDP frontend is running, and none
\* of an HTTP server that was shut down: Group.Stop waits for the wait group
\* and for Shutdown.  So no handler finds the store closed, unless its
\* server was missed by Stop.
FrontendsQuiet ==
    main \in {"logic", "store", "return", "start", "http", "udp"} =>
        Handling("udp") = {} /\ HTTPStopped

\* A UDP handler has an open socket to answer on, however Frontend.Stop, the
\* read loop and the handlers interleave.
SocketOpen == Handling("udp") # {} => stopping # "done"

\* A reload leaves the peers alone, and no announce answered before it
\* brings the tracker down: the store is closed, and a goroutine of
\* AfterAnnounce panics on it, only in a shutdown that was asked for.
ReloadKeepsStore == store = "closed" \/ main = "crashed" => term /\ ~keep

\* After SIGINT or SIGTERM the process ends: no frontend waits for ever for
\* its reader or its handlers, and reloads do not keep it from stopping.
ShutdownCompletes == term ~> main \in Ended

\* The tracker reloads when it has received a reload signal
\* (RootRunCmdFunc's log message for a reload).
ReloadsOnRequest == [][main = "select" /\ main' = "stop" /\ keep' => reload = "sent"]_vars

=============================================================================
