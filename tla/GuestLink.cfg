SPECIFICATION LinkSpec
CONSTANTS
  NoOne = NoOne
  NoSnapshot = NoSnapshot
  NoName = NoName
  Fresh = Fresh
  ada = ada
  ADA = ADA
  Lowercase <- MCLowercase
  ParticipantIds = {p1, p2}
  Names = {ada}
  GuestName = ada
  Nonces = {p1, p2}
  Grids = {g1}
  InitialGrid = g1
  PayloadSizes = {1}
  MaxParticipants = 2
  OutboundQueue = 1
  MaxReplayFrames = 2
  MaxReplayBytes = 2
  XtermAhead = FALSE
  MaxSequence = 2
  MaxInput = 2
  CommandQueue = 2
  MaxReconnectAttempts = 1
  WireCapacity = 1
  MaxIssued = 2
INVARIANT LinkTypeOK
INVARIANT NothingSkipped
INVARIANT InputOnceInOrder
PROPERTY PromiseKept
CONSTRAINT LinkScope
CHECK_DEADLOCK FALSE
SYMMETRY IdsSymmetry
