CONSTANTS
  Gene = b1
  Threads = {t1}
  Blocks = {b1, b2}
  Values = {v1}
  SectorCount = 4
  Words = 2
  Youngest = 2
  Shell = t1
  Events = t1
  Blank = Blank
  NoBlock = NoBlock
SPECIFICATION Spec
SYMMETRY Symm
INVARIANTS TypeOK NoAssert
PROPERTIES NewestKept ImplementsBlockStore
