SPECIFICATION Spec
CONSTANTS
  host = host
  guest = guest
  image = image
  Authority = host
  Replicas = {guest}
  MaxPages = 2
  MaxPageObjects = 3
  MaxHistory = 2
  kMaxCommands = 5
  ChunkUnits = 2
  MaxLogEntries = 1
  MaxProposals = 1
  MaxPending = 1
  MaxDeltaEntries = 1
  MaxBuffered = 2
  EagerTimers = TRUE
  Kinds <- KindsUsed
  TextKinds = {FALSE}
  Assets = {image}
  MaxIssued <- IssuedBound
  MaxControls = 0
  MaxJoins = 1
  MaxFaults = 0
  HostCommands = 1
  GuestCommands = 3
  HostKinds = {"Add", "AddImagePage"}
  GuestKinds = {"Add", "Undo", "Redo", "Erase"}
CHECK_DEADLOCK FALSE
INVARIANTS
  TypeOK
  Agreement
  CommittedOnce
  BarrierRespected
