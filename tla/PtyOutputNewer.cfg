CONSTANTS
  MaxPending = 2
  JoinsReader = TRUE
  Nothing = Nothing
  MaxUnits = 1
  MaxShares = 1
  MaxCaptures = 1
SPECIFICATION Spec
CHECK_DEADLOCK FALSE
INVARIANT OnlyNewerFollows
