---------------------------- MODULE MCRedisStore ----------------------------
(***************************************************************************)
(* Instances of RedisStore for TLC.                                         *)
(***************************************************************************)
EXTENDS RedisStore

=============================================================================
