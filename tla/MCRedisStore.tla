---------------------------- MODULE MCRedisStore ----------------------------
(* Two values (or lock tokens) and four commands under way. *)
EXTENDS RedisStore, TLC
CONSTANTS v1, v2

MCValues == {v1, v2}
MCSymmetry == Permutations(MCValues)
=============================================================================
