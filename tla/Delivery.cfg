\* One Telegram channel with three messages, in an album or not.
CONSTANTS
  TgChat = {tc}
  BaleChat = {}
  MaxId = 3
  Text = {txt}
  Group = {g}
  NoGroup = NoGroup
  BaleMode = "bot"
  MaxTurns = 2
SPECIFICATION FairSpec
INVARIANTS QueueTypeOK TimerIffPending AccountedOnce SinglesInOrder AlbumJobsSorted
PROPERTY EveryPostHandled
CHECK_DEADLOCK FALSE
