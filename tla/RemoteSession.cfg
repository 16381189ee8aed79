SPECIFICATION RemoteFairSpec
CONSTANTS
  new = new
  note = note
  again = again
  drop = drop
  memo = memo
  s1 = s1
  Commands = {new, note, again, drop, memo}
  Mine = {new, note, again}
  Sessions = {s1}
  NoRun = NoRun
  NoView = NoView
  NoPoll = NoPoll
  NoSession = NoSession
  NoTurn = NoTurn
  NoLive = NoLive
  Payload <- MCPayload
  Followup <- MCFollowup
  Emits <- MCEmits
  GeneratesTitles = FALSE
  HasBranches = FALSE
  MaxFaults = 0
  MaxCrashes = 1
  MaxEvents = 1
  MaxLosses = 1
INVARIANTS RemoteTypeOK NothingForgotten FollowupKept TranscriptFaithful
INVARIANT StartedIsAccepted
PROPERTY CatchesUp
CHECK_DEADLOCK FALSE
CONSTRAINT RetryUnsavedScope
