SPECIFICATION IoSpec
CONSTANTS
  Secs = {port, switch}
  Locs = {x10}
  NoLoc = NoLoc
  Vals = {v1, v2}
  IoMaxEntries = 3
  IntMax = 7
  MaxIo = 5
INVARIANTS IoTypeOK KeysUnique MostRecentLast
PROPERTY KeepsRecency
