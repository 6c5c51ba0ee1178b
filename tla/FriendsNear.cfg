SPECIFICATION FairSpec
CONSTANTS
  Names = {a, b}
  MaxFriends = 1
  InitCredit = 4
  MaxCredit = 12
  MinGap = 3
  MaxGap = 7
  Grace = 9
  Losses = 1
  Moves = 3
INVARIANT TypeOK
PROPERTIES NearKept Noticed Forgotten
