SPECIFICATION ContextSpec
CONSTANTS
  w1 = w1
  w2 = w2
  j1 = j1
  j2 = j2
  c1 = c1
  p1 = p1
  Past = {p1}
  Earlier <- MCEarlier
  Conversations = {c1}
  ConversationOf <- MCConversationOf
  HistoryLimit = 2
  Messages = {m1, m2}
  None = None
  Copies = {s1, s2, s3, s4}
  Workers <- MCWorkers
  Jobs <- MCJobs
  ProcessOf <- MCProcessOf
  Texts = {t1}
  Prefetch = 1
  MaxReceiveCount = 2
  RetryDelay = 1
  StaleAfter = 1
  WorkMax = 1
  Faults = {"stop", "channel"}
  MaxPosts = 1
  MaxFaults = 1
SYMMETRY SlotsAndMessages
INVARIANTS
  ContextTypeOK
  OwnTurnsExcluded
  ThreadWellFormed
  FollowUpsInContext
  RetriesExtendContext
CHECK_DEADLOCK FALSE
