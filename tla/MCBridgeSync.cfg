\* A two-way pair, no failing call: posts on both sides, deletions anywhere.
CONSTANTS
  tc = tc
  bc = bc
  short = short
  long = long
  TgChat = {tc}
  BaleChat = {bc}
  MaxId = 3
  Text <- TwoTexts
  Group = {}
  NoGroup = NoGroup
  BaleMode = "user"
  PairId <- OnePair
  TgOf <- TgOfPair
  BaleOf <- BaleOfPair
  InitModes <- BothModes
  Admin <- SyncAdmin
  NoMsg = NoMsg
  Chunks <- OneChunk
  EarlyEcho = FALSE
  Echoes <- SyncEchoes
  Faulty <- None
  UserEdits <- None
  UserDeletes <- AnyDeletes
  Repeats = FALSE
  MaxPosts = 2
  MaxTurns = 2
  MaxCrashes = 0
SPECIFICATION FairSpec
INVARIANTS TypeOK NoReflection
PROPERTIES Converges
CHECK_DEADLOCK FALSE
