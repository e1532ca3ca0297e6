\* Every call may fail, the process may die, the pair may be removed.
CONSTANTS
  tc = tc
  bc = bc
  short = short
  long = long
  TgChat = {tc}
  BaleChat = {bc}
  MaxId = 4
  Text <- TwoTexts
  Group = {}
  NoGroup = NoGroup
  BaleMode = "user"
  PairId <- OnePair
  TgOf <- TgOfPair
  BaleOf <- BaleOfPair
  InitModes <- ForthModes
  Admin <- FaultAdmin
  NoMsg = NoMsg
  Chunks <- LongInTwo
  EarlyEcho = FALSE
  Echoes <- FaultEchoes
  Faulty <- AllFail
  UserEdits <- TgSources
  UserDeletes <- FaultDeletes
  Repeats = TRUE
  MaxPosts = 1
  MaxTurns = 2
  MaxCrashes = 1
SPECIFICATION Spec
INVARIANTS MapSound JustifiedRemoval NeverWithoutCopy
CHECK_DEADLOCK FALSE
