SPECIFICATION Spec
CONSTANTS
  Files = {1, 2}
  Unfit = {2}
  MaxVersions = 3
  MaxFaults = 2
  MaxPreviews = 2
CHECK_DEADLOCK FALSE
INVARIANTS
  TypeOK
  ForeignKept
  OutcomeTrue
PROPERTY
  OnlyReviewed
