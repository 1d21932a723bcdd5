SPECIFICATION FairSpec
CONSTANTS
  camera = camera
  microphone = microphone
  Tracks <- AllTracks
  Video <- VideoTracks
  MaxRevision = 2
  MaxFaults = 2
INVARIANTS
  ServerFollowsOrOvertaken
PROPERTIES
  SyncBeforeUpdates
  UpdatesDrain
CHECK_DEADLOCK FALSE
