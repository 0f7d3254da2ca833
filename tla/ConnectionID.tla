---------------------------- MODULE ConnectionID ----------------------------
(***************************************************************************)
(* Connection IDs of the UDP protocol: a client asks for one and sends it   *)
(* with its announces.  It holds the second in which it was made and a MAC  *)
(* of this second and the client's address, which is modelled by the        *)
(* address.  Instances of the tracker that share a key accept each other's  *)
(* IDs, though their clocks differ.                                         *)
(*                                                                         *)
(* The clock is the cached one that both Generate and Validate are given.   *)
(***************************************************************************)
EXTENDS PreHooks

CONSTANTS
    Second,          \* ticks of the clock in a second
    TTL,             \* ttl, in ticks (whole seconds in the code)
    MaxClockSkew,    \* Config.MaxClockSkew, in ticks
    Offset,          \* by what the clocks of instances are ahead of this one's
    Address,         \* addresses of clients
    StampRange,      \* 2^32 in the code: the stamps there are
    FirstTick,       \* when the model starts: no clock is below 0
    LastTick         \* bound on the clock, before the stamps begin again

ASSUME ConnectionAssumption ==
    /\ Second \in Nat \ {0}
    /\ TTL \in Nat
    /\ MaxClockSkew \in Nat
    /\ Offset \subseteq Int
    /\ 0 \in Offset
    /\ Address # {}
    /\ StampRange \in Nat \ {0}
    /\ FirstTick \in Nat
    /\ \A o \in Offset : FirstTick + o >= 0
    /\ LastTick \in Nat
    /\ FirstTick <= LastTick
    /\ \A o \in Offset : LastTick + o < StampRange * Second

VARIABLES
    now,             \* this instance's clock
    address,         \* the address that each client has now
    connID           \* each client's connection ID: the second it holds, the
                     \* address it is for, and the tick it was made in

connectionVars == <<now, address, connID>>

ConnectionOK ==
    /\ now \in Nat
    /\ address \in [Peer -> Address]
    /\ connID \in [Peer -> [stamp : Nat, address : Address, made : Nat]]

\* uint32(now.Unix())
Stamp(t) == (t \div Second) % StampRange

\* Generate, by an instance whose clock says t.
Generate(a, t) == [stamp |-> Stamp(t), address |-> a, made |-> t]

ConnectionInit ==
    /\ now = FirstTick
    /\ address = [p \in Peer |-> CHOOSE x \in Address : TRUE]
    /\ connID = [p \in Peer |-> Generate(address[p], now)]

\* Mutant of Validate: an ID is accepted up to the skew after its end.
ValidateLate(id, a) ==
    /\ now <= id.stamp * Second + TTL + MaxClockSkew
    /\ id.address = a

\* Validate, for a packet from address a.
Validate(id, a) ==
    /\ now <= id.stamp * Second + TTL
    /\ id.stamp * Second <= now + MaxClockSkew
    /\ id.address = a

\* The check of the connection ID in handleRequest.
CheckConnection(r) ==
    LET p == handler[r].peer
    IN  /\ Calls(r, "connection id")
        /\ IF Validate(connID[p], address[p]) THEN Return(r) ELSE Refuse(r)
        /\ UNCHANGED connectionVars

\* A connect request to this or to another instance.
Connect(p, o) ==
    /\ Uses("connection id")
    /\ p \in setup.peers
    /\ connID' = [connID EXCEPT ![p] = Generate(address[p], now + o)]
    /\ UNCHANGED <<now, address, setup, handler>>

\* The client gets another address.
Move(p, a) ==
    /\ Uses("connection id")
    /\ p \in setup.peers
    /\ address' = [address EXCEPT ![p] = a]
    /\ UNCHANGED <<now, connID, setup, handler>>

ConnectionTick ==
    /\ now' = IF Uses("connection id") /\ now < LastTick THEN now + 1 ELSE now
    /\ UNCHANGED <<address, connID>>

-----------------------------------------------------------------------------

\* An ID that is let through was made for the address it comes from, and not
\* longer ago than the ttl by the two clocks.  One that is refused is for
\* another address, is older than the ttl but for the part of a second that
\* its stamp leaves out, or comes from a clock that is too far ahead
\* (ConnectionIDGenerator.Generate and Validate).
ConnectionWindow ==
    [][\A r \in Handler :
          LET id == connID[handler[r].peer]
              a == address[handler[r].peer]
          IN  Calls(r, "connection id") /\ handler'[r] # handler[r] =>
                IF handler'[r].pc = "refused"
                THEN \/ id.address # a
                     \/ now - id.made > TTL - Second
                     \/ id.made - now > MaxClockSkew
                ELSE /\ id.address = a
                     /\ now - id.made <= TTL
                     /\ id.made - now < MaxClockSkew + Second]_<<handler, connectionVars>>

=============================================================================
