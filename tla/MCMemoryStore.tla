--------------------------- MODULE MCMemoryStore ---------------------------
(***************************************************************************)
(* A small instance of MemoryStore: two infohashes that fall in one shard,  *)
(* which is the second one the collector visits, and one IPv6 peer.         *)
(***************************************************************************)
EXTENDS MemoryStore

CONSTANTS h1, h2, p6

MCInfoHash == {h1, h2}
MCPeer == {p6}
MCFamily == [p \in MCPeer |-> IPv6]
MCPrefix == [h \in MCInfoHash |-> IF h = h1 THEN 3 ELSE 4]

=============================================================================
