SPECIFICATION FairSpec
CONSTANTS
  MaxRequests = 3
  MaxEvents = 2
  MaxFaults = 2
  MaxCandidates = 2
CHECK_DEADLOCK FALSE
INVARIANTS
  TypeOK
  RequestsInOrder
  QueuedOnlyWhileDown
PROPERTIES
  EventsInOrder
  DeathIsNoticed
