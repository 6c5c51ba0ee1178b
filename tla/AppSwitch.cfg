SPECIFICATION AppsFairSpec
CONSTANTS
  Launcher = launcher
  None = none
  Apps = {launcher, oscope}
  Presses = 6
INVARIANTS AppsTypeOK NoAssert
PROPERTIES Switches ComesUp
CHECK_DEADLOCK FALSE
