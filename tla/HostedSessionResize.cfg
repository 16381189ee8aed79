SPECIFICATION Spec
CONSTANTS
  ada = ada
  ADA = ADA
  Lowercase <- MCLowercase
  NoOne = NoOne
  NoSnapshot = NoSnapshot
  NoName = NoName
  Fresh = Fresh
  ParticipantIds = {p1}
  Names = {ada}
  Nonces = {n1}
  Grids = {g1, g2}
  InitialGrid = g1
  PayloadSizes <- MCSizes
  MaxParticipants = 3
  OutboundQueue = 2
  MaxReplayFrames = 2
  MaxReplayBytes = 3
  XtermAhead = TRUE
  MaxSequence = 2
  MaxInput = 0
CHECK_DEADLOCK FALSE
CONSTRAINT StreamScope
INVARIANT GridConverges
