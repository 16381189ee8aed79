CONSTANTS
  MaxPending = 2
  JoinsReader = FALSE
  Nothing = Nothing
  MaxUnits = 1
  MaxShares = 0
  MaxCaptures = 0
SPECIFICATION FairSpec
CHECK_DEADLOCK FALSE
PROPERTY LastLineSent
CONSTRAINT PaneStays
