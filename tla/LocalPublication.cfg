SPECIFICATION FairSpec
CONSTANTS
  t1 = t1
  t2 = t2
  Tracks = {t1, t2}
  SinglePC = FALSE
  MaxAttempts = 2
  MaxPublishes = 2
  MaxUnpublishes = 1
  MaxFaults = 1
CHECK_DEADLOCK FALSE
CONSTRAINT FirstTrack
INVARIANTS
  TypeOK
  CommitsAreNegotiated
  SendersAreOwned
  ServerReconciled
  RemovedStaysRemoved
  PublicationsSurvive
PROPERTIES
  NegotiationSettles
