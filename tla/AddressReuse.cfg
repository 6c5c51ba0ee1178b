CONSTANTS
  Cubes = {c1, c2}
  None = None
  MaxAssignable = 3
  Default = 3
  Blank = 5
  Settings = {2}
  Upsets = 3
SPECIFICATION Spec
INVARIANTS TypeOK OnlyRecentReused
SYMMETRY Alike
