---------------------------- MODULE MCShardLocks ----------------------------
(***************************************************************************)
(* Instances of ShardLocks for TLC: peers that announce are all IPv4, or    *)
(* of both families.                                                        *)
(***************************************************************************)
EXTENDS ShardLocks, TLC

IPv4Only == {IPv4}
BothFamilies == {IPv4, IPv6}
Symmetry == Permutations(Thread)

=============================================================================
