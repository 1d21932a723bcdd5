SPECIFICATION FairSpec
CONSTANTS
  c1 = c1
  c2 = c2
  r1 = r1
  r2 = r2
  Connects = {c1}
  Reconnects = {r1, r2}
  kMaxReconnectAttempts = 2
  MaxTransportFaults = 2
  MaxLeaves = 1
  MaxDisconnects = 0
INVARIANTS
  OneReconnector
PROPERTIES
  ServerLeaveIsFinal
  RecoveryEnds
  RetireDrains
