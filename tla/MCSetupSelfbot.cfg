SPECIFICATION Spec
CONSTANTS
  User = {u1}
  NoUser = NoUser
  Phone = {p1}
  BaleNumber = {b1}
  NoPhone = NoPhone
  Envs <- MinimalEnvs
  TgChan = {t1}
  BaleChan = {c1}
  NoChan = NoChan
  Direction = {both}
  MaxPairs = 0
  MaxCrashes = 0
PROPERTIES SelfbotBoots
CHECK_DEADLOCK FALSE
