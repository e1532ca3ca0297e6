\* Two-way pair: Bale may report a post of the bridge before the call returns.
CONSTANTS
  tc = tc
  bc = bc
  short = short
  long = long
  TgChat = {tc}
  BaleChat = {bc}
  MaxId = 3
  Text <- TwoTexts
  Group = {}
  NoGroup = NoGroup
  BaleMode = "user"
  PairId <- OnePair
  TgOf <- TgOfPair
  BaleOf <- BaleOfPair
  InitModes <- BothModes
  Admin <- None
  NoMsg = NoMsg
  Chunks <- OneChunk
  EarlyEcho = TRUE
  Echoes <- BaleNews
  Faulty <- None
  UserEdits <- None
  UserDeletes <- None
  Repeats = FALSE
  MaxPosts = 1
  MaxTurns = 1
  MaxCrashes = 0
SPECIFICATION Spec
INVARIANT NoReflection
CHECK_DEADLOCK FALSE
