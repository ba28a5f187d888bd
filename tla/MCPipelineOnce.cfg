SPECIFICATION PipelineSpec
CONSTANTS
  w1 = w1
  w2 = w2
  j1 = j1
  j2 = j2
  j3 = j3
  Messages = {m1}
  None = None
  Copies = {c1, c2, c3}
  Workers <- MCWorkers
  Jobs <- OnePerWorker
  ProcessOf <- OnePerWorkerProcess
  Texts = {t1}
  Prefetch = 1
  MaxReceiveCount = 2
  RetryDelay = 1
  StaleAfter = 1
  WorkMax = 1
  Faults = {"reply", "refused", "channel", "stop", "nack"}
  MaxPosts = 2
  MaxFaults = 2
SYMMETRY SlotsAndTexts
INVARIANTS
  OneSmsPerFault
  ExclusiveProcessing
  SentTogether
PROPERTY
  SentIsFinal
CHECK_DEADLOCK FALSE
