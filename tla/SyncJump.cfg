SPECIFICATION FairSpec
CONSTANTS
  Redraw = 3
  Major = 2
  Latency = 1
  Skews <- Clocks
  Skew = 14
  Restarts = 1
  Pause = 16
INVARIANT TypeOK
PROPERTIES KeepsLocked JumpSyncs
