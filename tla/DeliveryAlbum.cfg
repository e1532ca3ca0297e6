\* An album item whose author edits or deletes it at once.
CONSTANTS
  TgChat = {tc}
  BaleChat = {}
  MaxId = 1
  Text = {txt}
  Group = {g}
  NoGroup = NoGroup
  BaleMode = "bot"
  MaxTurns = 1
SPECIFICATION Spec
INVARIANT EveryLifeInOrder
CHECK_DEADLOCK FALSE
