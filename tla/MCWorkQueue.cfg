SPECIFICATION FairQueueSpec
CONSTANTS
  w1 = w1
  w2 = w2
  j1 = j1
  j2 = j2
  Messages = {m1}
  Copies = {c1, c2, c3, c4}
  Workers = {w1, w2}
  Jobs = {j1, j2}
  ProcessOf <- MCProcessOf
  None = None
  Prefetch = 2
  MaxReceiveCount = 2
  RetryDelay = 1
  Faults = {"channel", "stop", "nack"}
  MaxPosts = 1
  MaxFaults = 2
INVARIANTS
  QueueTypeOK
  NoLoss
  ParkedAfterAllAttempts
  DeliveriesOwned
  UnattendedExplained
PROPERTIES
  ImplementsAtLeastOnce
  EventuallyHandledOrParked
CHECK_DEADLOCK FALSE
