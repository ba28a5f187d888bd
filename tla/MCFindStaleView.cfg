SPECIFICATION FairLiveSpec
CONSTANTS
  a1 = a1
  redis = redis
  Conversations = {c1}
  List = List
  Apis = {a1}
  Caches = {redis}
  CacheOf <- MCCacheOf
  Requests = {r1, r2}
  Views = {v1}
  None = None
  Ttl = 1
  ReadMax = 2
  ReadFaults = {}
  UiFaults = {}
  MaxWrites = 1
  MaxVisits = 0
PROPERTY
  ViewsCatchUp
CHECK_DEADLOCK FALSE
