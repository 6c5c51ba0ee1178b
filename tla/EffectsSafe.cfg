SPECIFICATION FairSpec
CONSTANTS
  FxMax = 3
  Duration <- Durations
  Safety = 1
  Strobe = 2
  Mole = 0
  LongAgo = 2
  Volts = {"full", "safety"}
  Levels = {0}
  Requests = 2
INVARIANTS TypeOK StopSafe
PROPERTIES LitAgain TempEnds SafetyMode
