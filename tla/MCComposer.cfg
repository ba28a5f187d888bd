SPECIFICATION FairComposerSpec
CONSTANTS
  Forms = {"chat", "new"}
  Texts = {t1, t2}
  Sends = {s1, s2}
  None = None
  MaxFaults = 1
INVARIANTS
  ComposerTypeOK
  SendingTrue
  DraftUntouched
  SendsExplained
  TakenIsQueued
PROPERTY
  SendingEnds
CHECK_DEADLOCK FALSE
