CONSTANTS
  N = 2
  InitMax = 2
  Announced = {}
  AckDup = 2
  MaxRetries = 0
  FxRetries = 1
  Cooldown = 3
  PassWait = 2
  Holders = {1}
  Players = {1}
  Losses = 1
SPECIFICATION SwitchSpec
PROPERTY AllPassesEnd
