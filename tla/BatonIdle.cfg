CONSTANTS
  N = 3
  InitMax = 4
  Announced = {}
  AckDup = 3
  MaxRetries = 4
  FxRetries = 1
  Cooldown = 5
  PassWait = 2
  Holders = {1}
  Players = {}
  Losses = 2
SPECIFICATION Spec
INVARIANTS TypeOK OneBaton
PROPERTY HandsOver
