SPECIFICATION Spec
CONSTANTS
  SectorCount = 4
  Audit = audit
  Config = config
  Entries = 2
  Tests = {t1, t2}
  Results = {pass, fail}
  Settings = {d, v}
  Default = d
  Blank = Blank
  Zero = Zero
  Sig = Sig
  Youngest = 4
  AuditMoves = 4
  ConfigMoves = 2
  Moves <- MovesOf
  Cuts = 2
INVARIANTS TypeOK AuditTruth OneEntry
PROPERTY SettingsKept
SYMMETRY Symm
CHECK_DEADLOCK FALSE
