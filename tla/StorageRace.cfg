CONSTANTS
  Gene = b1
  Threads = {shell, events}
  Shell = shell
  Events = events
  Blocks = {b1, b2}
  Values = {v1}
  SectorCount = 4
  Words = 2
  Youngest = 2
  Blank = Blank
  NoBlock = NoBlock
SPECIFICATION RaceSpec
INVARIANT NoAssert
