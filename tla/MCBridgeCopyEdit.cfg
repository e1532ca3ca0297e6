\* Two-way pair: a user edits the Telegram copy of a Bale post.
CONSTANTS
  tc = tc
  bc = bc
  short = short
  long = long
  TgChat = {tc}
  BaleChat = {bc}
  MaxId = 3
  Text <- TwoTexts
  Group = {}
  NoGroup = NoGroup
  BaleMode = "user"
  PairId <- OnePair
  TgOf <- TgOfPair
  BaleOf <- BaleOfPair
  InitModes <- BothModes
  Admin <- None
  NoMsg = NoMsg
  Chunks <- OneChunk
  EarlyEcho = FALSE
  Echoes <- NewEchoes
  Faulty <- None
  UserEdits <- TgCopies
  UserDeletes <- None
  Repeats = FALSE
  MaxPosts = 1
  MaxTurns = 1
  MaxCrashes = 0
SPECIFICATION Spec
INVARIANT MapSound
CHECK_DEADLOCK FALSE
