SPECIFICATION FairSpec
CONSTANTS
  host = host
  guest = guest
  Authority = host
  Replicas = {guest}
  MaxPages = 2
  MaxPageObjects = 3
  MaxHistory = 2
  kMaxCommands = 4
  ChunkUnits = 6
  MaxLogEntries = 1
  MaxProposals = 1
  MaxPending = 1
  MaxDeltaEntries = 1
  MaxBuffered = 8
  EagerTimers = FALSE
  Kinds <- KindsUsed
  TextKinds = {FALSE}
  Assets = {}
  MaxIssued <- IssuedBound
  MaxControls = 0
  MaxJoins = 1
  MaxFaults = 0
  HostCommands = 3
  GuestCommands = 0
  HostKinds = {"Add", "Undo"}
  GuestKinds = {"Add", "Undo"}
CHECK_DEADLOCK FALSE
PROPERTIES
  LateJoinerCatchesUp
