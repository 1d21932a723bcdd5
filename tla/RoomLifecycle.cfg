SPECIFICATION Spec
CONSTANTS
  c1 = c1
  c2 = c2
  r1 = r1
  r2 = r2
  Connects = {c1, c2}
  Reconnects = {r1}
  kMaxReconnectAttempts = 2
  MaxTransportFaults = 1
  MaxLeaves = 1
  MaxDisconnects = 1
SYMMETRY CallsSymmetry
INVARIANTS
  StateOwnsSession
  StaleBundleHasOwner
  NoOrphanSignal
  DrainedIsQuiet
PROPERTIES
  NoReconnectedAfterDisconnected
  RetiresLikeAGate
