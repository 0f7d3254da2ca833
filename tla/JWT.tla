--------------------------------- MODULE JWT ---------------------------------
(***************************************************************************)
(* The JWT hooks: a goroutine fetches the set of public keys again and again *)
(* while requests are checked against the set fetched last.  The two hooks,  *)
(* one that asks every peer for a token and one that asks some, have each    *)
(* their URL, map, goroutine and channel.  What the signatures and claims of *)
(* a token are is left out: a token is signed with a key, and its claims are *)
(* right or not.                                                            *)
(*                                                                         *)
(* The assignment of the new map is not synchronized with the requests that *)
(* read it.  The pointer is written in one piece: a request sees the old map *)
(* or the new one or, where the processor shows it the pointer before the   *)
(* contents, one that lacks keys.  It then refuses a token, an outcome that *)
(* a token with other claims gives here.                                    *)
(***************************************************************************)
EXTENDS PreHooks

CONSTANTS
    Key,             \* the keys the issuers can sign with, by their kid
    NoToken          \* the request has none, or one with wrong claims

ASSUME JWTAssumption == NoToken \notin Key

JWTHook == {"jwt", "jwt optional"}

VARIABLES            \* all of them for each hook
    published,       \* the set of keys at JWKSetURL
    history,         \* the keys that have ever been there
    fresh,           \* those that have since the last fetch was sent, up to
                     \* its answer
    recent,          \* those that were between the sending and the answer of
                     \* the fetch that the map comes from
    publicKeys,      \* hook.publicKeys
    updater,         \* where the updating goroutine is, what it fetched, and
                     \* whether that is not what is published
    closing,         \* hook.closing is closed
    token            \* the key of the token that a handler accepted last

jwtVars == <<published, history, fresh, recent, publicKeys, updater, closing, token>>

UpdaterState ==
    [pc : {"wait", "fetch", "install", "done"}, keys : SUBSET Key, failed : BOOLEAN]

JWTOK ==
    /\ published \in [JWTHook -> SUBSET Key]
    /\ history \in [JWTHook -> SUBSET Key]
    /\ fresh \in [JWTHook -> SUBSET Key]
    /\ recent \in [JWTHook -> SUBSET Key]
    /\ publicKeys \in [JWTHook -> SUBSET Key]
    /\ updater \in [JWTHook -> UpdaterState]
    /\ closing \in [JWTHook -> BOOLEAN]
    /\ token \in [JWTHook -> [Handler -> Key \cup {NoToken}]]

\* NewHook fetches the first set itself, and fails if it gets none; an error
\* page in JSON is one without keys.
JWTInit ==
    /\ published \in [JWTHook -> SUBSET Key]
    /\ publicKeys \in [JWTHook -> SUBSET Key]
    /\ \A h \in JWTHook : /\ ~Uses(h) => published[h] = {}
                          /\ publicKeys[h] \in {published[h], {}}
    /\ history = published
    /\ fresh = published
    /\ recent = published
    /\ updater = [h \in JWTHook |-> [pc |-> "wait", keys |-> {}, failed |-> FALSE]]
    /\ closing = [h \in JWTHook |-> FALSE]
    /\ token = [h \in JWTHook |-> [r \in Handler |-> NoToken]]

\* The optional hook is configured not to ask a peer in this role for one.
JWTNotRequired(r) ==
    /\ Calls(r, "jwt optional")
    /\ Return(r)
    /\ UNCHANGED jwtVars

\* HandleAnnounce and validateJWT: the token must be there, have the claims
\* that this hook wants, and be signed with a key of its map.
JWTCheck(r, h) ==
    /\ Calls(r, h)
    /\ \E t \in Key \cup {NoToken} :
          IF t \in publicKeys[h]
          THEN token' = [token EXCEPT ![h][r] = t] /\ Return(r)
          ELSE token' = [token EXCEPT ![h][r] = NoToken] /\ Refuse(r)
    /\ UNCHANGED <<published, history, fresh, recent, publicKeys, updater, closing>>

\* The interval is over: http.Get, which waits without a timeout.
FetchKeys(h) ==
    /\ Uses(h)
    /\ updater[h].pc = "wait"
    /\ updater' = [updater EXCEPT ![h] = [pc |-> "fetch", keys |-> {}, failed |-> FALSE]]
    /\ fresh' = [fresh EXCEPT ![h] = published[h]]
    /\ UNCHANGED <<published, history, recent, publicKeys, closing, token>>

\* The server answers, with the set or an error page in JSON: the status is
\* not looked at.
Answer(h) ==
    /\ updater[h].pc = "fetch"
    /\ \E K \in {published[h], {}} :
          updater' = [updater EXCEPT
             ![h] = [pc |-> "install", keys |-> K, failed |-> K # published[h]]]
    /\ UNCHANGED <<published, history, fresh, recent, publicKeys, closing, token>>

\* Mutant of FetchFails: the error ends the goroutine.
FetchFailsEnds(h) ==
    /\ updater[h].pc \in {"fetch", "install"}
    /\ updater' = [updater EXCEPT ![h] = [pc |-> "done", keys |-> {}, failed |-> TRUE]]
    /\ UNCHANGED <<published, history, fresh, recent, publicKeys, closing, token>>

\* There is no answer, it is not JSON, or one of its keys cannot be decoded:
\* updateKeys returns before the assignment.
FetchFails(h) ==
    /\ updater[h].pc \in {"fetch", "install"}
    /\ updater' = [updater EXCEPT ![h] = [pc |-> "wait", keys |-> {}, failed |-> TRUE]]
    /\ UNCHANGED <<published, history, fresh, recent, publicKeys, closing, token>>

\* Mutant of Install: the keys are decoded into the map in use.
InstallInPlace(h) ==
    /\ updater[h].pc = "install"
    /\ publicKeys' = [publicKeys EXCEPT ![h] = @ \cup updater[h].keys]
    /\ recent' = [recent EXCEPT ![h] = fresh[h]]
    /\ updater' = [updater EXCEPT ![h].pc = "wait", ![h].keys = {}]
    /\ UNCHANGED <<published, history, fresh, closing, token>>

\* Every key was decoded into a new map, which replaces the old one.
Install(h) ==
    /\ updater[h].pc = "install"
    /\ publicKeys' = [publicKeys EXCEPT ![h] = updater[h].keys]
    /\ recent' = [recent EXCEPT ![h] = fresh[h]]
    /\ updater' = [updater EXCEPT ![h].pc = "wait", ![h].keys = {}]
    /\ UNCHANGED <<published, history, fresh, closing, token>>

\* Stop closes the channel; the goroutine returns when it next looks at it.
JWTStop(h) ==
    /\ Uses(h)
    /\ ~closing[h]
    /\ closing' = [closing EXCEPT ![h] = TRUE]
    /\ UNCHANGED <<published, history, fresh, recent, publicKeys, updater, token>>

UpdaterReturns(h) ==
    /\ closing[h]
    /\ updater[h].pc = "wait"
    /\ updater' = [updater EXCEPT ![h].pc = "done"]
    /\ UNCHANGED <<published, history, fresh, recent, publicKeys, closing, token>>

JWTStep(r) ==
    \/ JWTNotRequired(r)
    \/ \E h \in JWTHook : JWTCheck(r, h)

\* The issuer replaces its keys.
Rotate(h, K) ==
    /\ Uses(h)
    /\ published' = [published EXCEPT ![h] = K]
    /\ history' = [history EXCEPT ![h] = @ \cup K]
    /\ fresh' = [fresh EXCEPT ![h] = IF updater[h].pc = "fetch" THEN @ \cup K ELSE @]
    /\ UNCHANGED <<recent, publicKeys, updater, closing, token>>

Updating ==
    \E h \in JWTHook :
       \/ FetchKeys(h)
       \/ Answer(h)
       \/ FetchFails(h)
       \/ Install(h)
       \/ UpdaterReturns(h)
       \/ JWTStop(h)

\* What the goroutine does by itself: it depends on no answer.
Updates(h) == FetchKeys(h) \/ Install(h)

-----------------------------------------------------------------------------

\* A token is accepted only with a key that was published while the last
\* update was fetched: one withdrawn before that is refused from then on,
\* however the fetches, their errors and the rotation of keys interleave, and
\* a fetch that fails half way adds nothing to the old set
\* (jwt.updateKeys).
KeysCurrent == \A h \in JWTHook : publicKeys[h] \subseteq recent[h]

\* Fetches go on after one that failed, and a set that stays published is in
\* use in the end, unless the hook is stopped.  The code does not guarantee it
\* when a fetch gets no answer at all, as it waits for one without a timeout,
\* or when fetches fail or get error pages again and again (jwt.NewHook,
\* jwt.updateKeys).
KeysFollow ==
    \A h \in JWTHook : \A K \in SUBSET Key :
       \/ <>[](updater[h].pc = "fetch")
       \/ []<>(updater[h].pc = "wait" /\ updater[h].failed)
       \/ Uses(h) /\ published[h] = K ~>
             (publicKeys[h] = K \/ published[h] # K \/ closing[h])

=============================================================================
