SPECIFICATION Spec
CONSTANTS
  ada = ada
  ADA = ADA
  Lowercase <- MCLowercase
  NoOne = NoOne
  NoSnapshot = NoSnapshot
  NoName = NoName
  Fresh = Fresh
  ParticipantIds = {p1, p2}
  Names = {ada, ADA}
  Nonces = {n1, n2}
  Grids = {g1, g2}
  InitialGrid = g1
  PayloadSizes <- MCSizes
  MaxParticipants = 3
  OutboundQueue = 2
  MaxReplayFrames = 2
  MaxReplayBytes = 3
  XtermAhead = FALSE
  MaxSequence = 4
  MaxInput = 1
SYMMETRY IdsAndNonces
INVARIANT TypeOK
INVARIANT ControllerCoherent
INVARIANT NonceAdmitsOnce
INVARIANT NothingAfterClosed
INVARIANT RoleNoticesConverge
INVARIANT ReplayOrdered
INVARIANT ReplayBytesExact
INVARIANT StreamIntact
INVARIANT GridConverges
CHECK_DEADLOCK FALSE
CONSTRAINT Scope
