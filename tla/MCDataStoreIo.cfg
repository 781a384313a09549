SPECIFICATION Spec
CONSTANTS
  v1 = v1
  v2 = v2
  v3 = v3
  b1 = b1
  b2 = b2
  Secs <- MCSecs
  Locs <- MCLocs
  NoLoc = NoLoc
  Vals <- MCVals
  IoMaxEntries = 2
  IntMax = 7
  MaxIo = 4
  AddrSpace = 8
  BytesPerLine = 2
  InitialCapacity = 1
  Bytes <- MCBytes
  NoByte = NoByte
  Starts <- MCStarts
  MaxDump = 2
  AllocMayFail = FALSE
  JsonLines <- MCJsonLines
  PARSER_MAX_VAL_LEN = 6
  MaxTotal = 4
  CpuMaxEntries = 2
  PageSize = 2
  PageChunk = 2
  MaxFlags = 1
  TextRows = 1
  AnnCount = 2
  DisasmMaxLines = 2
  StackMaxEntries = 3
  Cut <- MCCut
  Atoi <- MCAtoi
  NoVal = NoVal
  PageLines = 1
  MaxDetail = 2
  TabHeights = {8}
  Z80 = v2
INVARIANT NewestAtBottom
