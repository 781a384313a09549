SPECIFICATION MemSpec
CONSTANTS
  AddrSpace = 8
  BytesPerLine = 2
  InitialCapacity = 1
  Bytes = {b1, b2}
  NoByte = NoByte
  Starts <- MCStarts
  MaxDump = 2
  AllocMayFail = TRUE
INVARIANTS MemTypeOK LinesSorted ValidCounted RangeCovers
PROPERTY HoldsLastBytes
