\* Bale to Telegram: an edit that Telegram refuses, then a send that fails.
CONSTANTS
  tc = tc
  bc = bc
  short = short
  long = long
  TgChat = {tc}
  BaleChat = {bc}
  MaxId = 3
  Text <- TwoTexts
  Group = {}
  NoGroup = NoGroup
  BaleMode = "user"
  PairId <- OnePair
  TgOf <- TgOfPair
  BaleOf <- BaleOfPair
  InitModes <- BackModes
  Admin <- None
  NoMsg = NoMsg
  Chunks <- OneChunk
  EarlyEcho = FALSE
  Echoes <- None
  Faulty <- TgEditsFail
  UserEdits <- BaleSources
  UserDeletes <- None
  Repeats = FALSE
  MaxPosts = 1
  MaxTurns = 1
  MaxCrashes = 0
SPECIFICATION Spec
INVARIANTS SurvivesFailure
CHECK_DEADLOCK FALSE
