SPECIFICATION FairPipelineSpec
CONSTANTS
  w1 = w1
  w2 = w2
  j1 = j1
  j2 = j2
  j3 = j3
  Messages = {m1}
  None = None
  Copies = {c1, c2, c3}
  Workers <- MCWorkers
  Jobs <- TwoAndOne
  ProcessOf <- TwoAndOneProcess
  Texts = {t1, t2}
  Prefetch = 2
  MaxReceiveCount = 2
  RetryDelay = 1
  StaleAfter = 2
  WorkMax = 1
  Faults = {"reply", "refused"}
  MaxPosts = 2
  MaxFaults = 0
PROPERTIES
  ImplementsExactlyOnceReply
  EventuallyRepliedOrParked
CHECK_DEADLOCK FALSE
