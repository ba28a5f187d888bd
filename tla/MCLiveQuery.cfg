SPECIFICATION FairLiveSpec
CONSTANTS
  a1 = a1
  redis = redis
  Conversations = {c1, c2}
  List = List
  Apis = {a1}
  Caches = {redis}
  CacheOf <- MCCacheOf
  Requests = {r1, r2}
  Views = {v1}
  None = None
  Ttl = 1
  ReadMax = 1
  ReadFaults = {"db"}
  UiFaults = {"stream"}
  MaxWrites = 1
  MaxVisits = 1
INVARIANTS
  LiveTypeOK
  ShowsItsQuery
PROPERTY
  EventuallyLoaded
CHECK_DEADLOCK FALSE
