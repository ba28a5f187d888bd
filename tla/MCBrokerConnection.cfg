SPECIFICATION FairLinkSpec
CONSTANTS
  Services = {"queue", "changes"}
  Loops = {l1, l2, l3}
  Boot = boot
  Connections = {c1, c2, c3}
  None = None
  MaxFaults = 2
INVARIANTS
  LinkTypeOK
  FieldsOpen
  ConsumingIsTrue
  ConnectionsExplained
  NeverStranded
PROPERTIES
  NoDialAfterShutdown
  EventuallyServing
CHECK_DEADLOCK FALSE
