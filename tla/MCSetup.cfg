SPECIFICATION Spec
CONSTANTS
  User = {u1, u2}
  NoUser = NoUser
  Phone = {p1, p2}
  BaleNumber = {b1}
  NoPhone = NoPhone
  Envs <- MCEnvs
  TgChan = {t1, t2}
  BaleChan = {c1}
  NoChan = NoChan
  Direction = {both}
  MaxPairs = 1
  MaxCrashes = 1
INVARIANTS TypeOK DialogueHasData OneOwner LoginRecorded
PROPERTIES PairsAsChosen ReadyBoots
CHECK_DEADLOCK FALSE
