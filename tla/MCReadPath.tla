----------------------------- MODULE MCReadPath -----------------------------
(* Small instances of ReadPath for TLC: every API process uses one shared    *)
(* cache, as with the Redis driver.                                         *)
EXTENDS ReadPath, TLC

CONSTANTS a1, redis

MCCacheOf == [a \in Apis |-> redis]
=============================================================================
