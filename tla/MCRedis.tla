------------------------------- MODULE MCRedis --------------------------------
(* Small instances of RedisStore for TLC.                                    *)
EXTENDS RedisStore, TLC

CONSTANTS s1, s2

Symm == Permutations(Sidecars)

=============================================================================
