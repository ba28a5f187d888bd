SPECIFICATION PipelineSpec
CONSTANTS
  w1 = w1
  w2 = w2
  j1 = j1
  j2 = j2
  j3 = j3
  Messages = {m1}
  None = None
  Copies = {c1, c2, c3}
  Workers <- MCWorkers
  Jobs <- TwoAndOne
  ProcessOf <- TwoAndOneProcess
  Texts = {t1, t2}
  Prefetch = 2
  MaxReceiveCount = 2
  RetryDelay = 2
  StaleAfter = 3
  WorkMax = 2
  Faults = {"channel"}
  MaxPosts = 2
  MaxFaults = 1
INVARIANT
  AtMostOneSms
CHECK_DEADLOCK FALSE
