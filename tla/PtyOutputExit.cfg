CONSTANTS
  MaxPending = 2
  JoinsReader = TRUE
  Nothing = Nothing
  MaxUnits = 1
  MaxShares = 0
  MaxCaptures = 0
SPECIFICATION Spec
CHECK_DEADLOCK FALSE
INVARIANT ExitAfterOutput
