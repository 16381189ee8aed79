SPECIFICATION FairSpec
CONSTANTS
  new = new
  ask = ask
  again = again
  allow = allow
  deny = deny
  open = open
  plan = plan
  reply = reply
  build = build
  halt = halt
  pack = pack
  tune = tune
  s1 = s1
  s2 = s2
  Commands = {new, ask, again, allow, deny, open, plan, reply, build, halt, pack, tune}
  Sessions = {s1, s2}
  NoRun = NoRun
  NoView = NoView
  NoSession = NoSession
  NoTurn = NoTurn
  NoLive = NoLive
  Payload <- MCPayload
  Emits <- MCEmits
  GeneratesTitles = TRUE
  HasBranches = TRUE
  MaxFaults = 1
  MaxCrashes = 1
  MaxEvents = 1
INVARIANTS TypeOK OutputKept LiveIsCurrent StoppedBeforeNext CheckoutIdle DecisionTold QuietWhenOver
PROPERTIES LedgerSpec TurnsEnd CloseEnds
CONSTRAINT Scope
CHECK_DEADLOCK FALSE
