\* Two-way pair: Bale reports the edit the bridge made there.
CONSTANTS
  tc = tc
  bc = bc
  short = short
  long = long
  TgChat = {tc}
  BaleChat = {bc}
  MaxId = 3
  Text <- TwoTexts
  Group = {}
  NoGroup = NoGroup
  BaleMode = "user"
  PairId <- OnePair
  TgOf <- TgOfPair
  BaleOf <- BaleOfPair
  InitModes <- BothModes
  Admin <- None
  NoMsg = NoMsg
  Chunks <- OneChunk
  EarlyEcho = FALSE
  Echoes <- BaleEdits
  Faulty <- None
  UserEdits <- TgSources
  UserDeletes <- None
  Repeats = FALSE
  MaxPosts = 1
  MaxTurns = 1
  MaxCrashes = 0
SPECIFICATION Spec
INVARIANT JustifiedRemoval
CHECK_DEADLOCK FALSE
