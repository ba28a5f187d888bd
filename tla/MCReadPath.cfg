SPECIFICATION FairReadSpec
CONSTANTS
  a1 = a1
  redis = redis
  Conversations = {c1}
  List = List
  Apis = {a1}
  Caches = {redis}
  CacheOf <- MCCacheOf
  Requests = {r1, r2}
  None = None
  Ttl = 2
  ReadMax = 1
  ReadFaults = {"hint", "bus", "cache", "db"}
  MaxWrites = 1
INVARIANTS
  ReadTypeOK
  StalenessBounded
PROPERTY
  CacheConverges
CHECK_DEADLOCK FALSE
