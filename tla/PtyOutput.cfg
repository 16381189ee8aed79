CONSTANTS
  MaxPending = 2
  JoinsReader = FALSE
  Nothing = Nothing
  MaxUnits = 3
  MaxShares = 2
  MaxCaptures = 2
SPECIFICATION FairSpec
CHECK_DEADLOCK FALSE
INVARIANTS TypeOK NoSilentGap SnapshotComplete
PROPERTIES ReadIsSent FeedSpec
CONSTRAINT PipelineScope
