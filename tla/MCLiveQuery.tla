----------------------------- MODULE MCLiveQuery -----------------------------
(* Small instances of LiveQuery for TLC: every API process uses one shared   *)
(* cache, as with the Redis driver.                                         *)
EXTENDS LiveQuery, TLC

CONSTANTS a1, redis

MCCacheOf == [a \in Apis |-> redis]
=============================================================================
