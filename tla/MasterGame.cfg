CONSTANTS
  N = 2
  InitMax = 2
  Announced = {2}
  AckDup = 1
  MaxRetries = 0
  FxRetries = 1
  Cooldown = 1
  PassWait = 2
  Holders = {1, 2}
  Players = {1, 2}
  Losses = 0
  Known = 2
  MaxDup = 1
  Beacons = 2
  Passes = 2
  Pause = 1
  Silence = 1
SPECIFICATION MasterSpec
INVARIANTS MasterTypeOK
PROPERTY Restored
CHECK_DEADLOCK FALSE
