\* One-way pairs, either way: edits and deletions of sources, edits that fail.
CONSTANTS
  tc = tc
  bc = bc
  short = short
  long = long
  TgChat = {tc}
  BaleChat = {bc}
  MaxId = 4
  Text <- TwoTexts
  Group = {}
  NoGroup = NoGroup
  BaleMode = "user"
  PairId <- OnePair
  TgOf <- TgOfPair
  BaleOf <- BaleOfPair
  InitModes <- OneWayModes
  Admin <- None
  NoMsg = NoMsg
  Chunks <- OneChunk
  EarlyEcho = FALSE
  Echoes <- AllEchoes
  Faulty <- EditsFail
  UserEdits <- Sources
  UserDeletes <- Sources
  Repeats = TRUE
  MaxPosts = 1
  MaxTurns = 3
  MaxCrashes = 0
SPECIFICATION FairSpec
INVARIANTS CopyTracked AgreeAtRest
PROPERTIES Converges OneWay
CHECK_DEADLOCK FALSE
