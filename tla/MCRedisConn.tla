---------------------------- MODULE MCRedisConn ----------------------------
(***************************************************************************)
(* TLC instance of RedisConn: the addresses are interchangeable.           *)
(***************************************************************************)
EXTENDS RedisConn, TLC

Symmetry == Permutations(Conn) \cup Permutations(Ctx) \cup Permutations(Opt)
=============================================================================
