SPECIFICATION FairSpec
CONSTANTS
  MaxRequests = 1
  MaxEvents = 0
  MaxFaults = 2
  MaxCandidates = 0
CHECK_DEADLOCK FALSE
PROPERTIES
  DeadSignalIsNoticed
