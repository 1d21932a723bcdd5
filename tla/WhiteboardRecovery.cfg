SPECIFICATION FairSpec
CONSTANTS
  host = host
  guest = guest
  image = image
  Authority = host
  Replicas = {guest}
  MaxPages = 2
  MaxPageObjects = 3
  MaxHistory = 2
  kMaxCommands = 4
  ChunkUnits = 6
  MaxLogEntries = 1
  MaxProposals = 1
  MaxPending = 1
  MaxDeltaEntries = 1
  MaxBuffered = 8
  EagerTimers = FALSE
  Kinds <- KindsUsed
  TextKinds = {FALSE}
  Assets = {image}
  MaxIssued <- IssuedBound
  MaxControls = 1
  MaxJoins = 2
  MaxFaults = 1
  HostCommands = 1
  GuestCommands = 1
  HostKinds = {"Clear"}
  GuestKinds = {"Add"}
CHECK_DEADLOCK FALSE
PROPERTIES
  ProposalEnds
  CatchesUpOrIsStuck
