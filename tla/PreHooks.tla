------------------------------ MODULE PreHooks ------------------------------
(***************************************************************************)
(* How an announce passes through the configured middleware: the UDP        *)
(* frontend checks its connection ID, then Logic.HandleAnnounce calls the   *)
(* pre-hooks in the order of the configuration and stops at the first that  *)
(* returns an error.  The hooks themselves are in the modules PeerLimit,    *)
(* TrafficPush, PasskeyApproval, JWT, VarInterval and ConnectionID; module  *)
(* HookChain puts them together.  What follows a request that was let       *)
(* through is module Tracker's.                                             *)
(*                                                                         *)
(* One infohash is modelled: every key the hooks use has the infohash in    *)
(* it, or is the same for all of them.                                      *)
(***************************************************************************)
EXTENDS Integers, Sequences, FiniteSets

CONSTANTS
    Handler,         \* concurrent handlers of requests
    Peer,            \* the peers, by peer ID
    Passkey,         \* the passkeys of users
    NoPasskey,       \* the request has none (or one that does not decrypt)
    EmptyPasskey,    \* that of a credential which decrypts to one without a
                     \* passkey: "", which approval treats like any other
    User,            \* the passkey that each peer announces with
    Setup            \* configurations: the checks on an announce in their
                     \* order (one at least), and the peers that announce

ASSUME PreHooksAssumption ==
    /\ IsFiniteSet(Handler)
    /\ Peer # {}
    /\ EmptyPasskey \in Passkey
    /\ NoPasskey \notin Passkey
    /\ User \in [Peer -> Passkey \cup {NoPasskey}]
    /\ Setup \subseteq [hooks : Seq(STRING) \ {<<>>}, peers : SUBSET Peer]

VARIABLES
    setup,           \* the configuration the tracker was started with
    handler          \* what each handler is doing

\* "none" stands for every event but bittorrent.Stopped, the only one that
\* a hook tells apart.
Event == {"none", "stopped"}

\* How a request ended; "limited" is the refusal by the peer limit.
Outcome == {"idle", "passed", "refused", "limited"}

\* "call" is the call of the hook number "at"; the others are places
\* between two commands of a hook.
Place ==
    Outcome \cup {"call", "ask", "add", "expire", "enter", "snapshot", "send"}

\* "count" is the request's counter of uploaded (or of downloaded) bytes.
HandlerState ==
    [pc : Place, at : Nat, peer : Peer, event : Event, count : Nat]

HandlersOK ==
    /\ setup \in Setup
    /\ handler \in [Handler -> HandlerState]

HandlersInit ==
    /\ setup \in Setup
    /\ handler \in [Handler -> [pc : {"idle"}, at : {0}, peer : {CHOOSE p \in Peer : TRUE},
                                event : {"none"}, count : {0}]]

\* The hook is among the configured ones.
Uses(hook) == \E i \in 1..Len(setup.hooks) : setup.hooks[i] = hook

At(r, pc) == handler[r].pc = pc

Busy(r) == handler[r].pc \notin Outcome

\* Handler r is about to run this hook.
Calls(r, hook) == At(r, "call") /\ setup.hooks[handler[r].at] = hook

PasskeyOf(r) == User[handler[r].peer]

\* The hooks behind the approval find a passkey in the request.
HasPasskey(r) == PasskeyOf(r) \in Passkey \ {EmptyPasskey}

Goto(r, pc) == handler' = [handler EXCEPT ![r].pc = pc]

\* A frontend hands on the announce q.
Begin(r, q) ==
    /\ ~Busy(r)
    /\ handler' = [handler EXCEPT
          ![r] = [pc |-> "call", at |-> 1, peer |-> q.peer, event |-> q.event,
                  count |-> q.count]]

\* The request is answered: its peer is all that is kept of it.
Finish(r, outcome) ==
    handler' = [handler EXCEPT
       ![r] = [pc |-> outcome, at |-> 0, peer |-> @.peer, event |-> "none", count |-> 0]]

\* The hook returns an error: HandleAnnounce returns it.
Refuse(r) == Finish(r, "refused")

\* The hook returns no error: the loop calls the next one, if there is one.
Return(r) ==
    IF handler[r].at < Len(setup.hooks)
    THEN handler' = [handler EXCEPT ![r].pc = "call", ![r].at = @ + 1]
    ELSE Finish(r, "passed")

=============================================================================
