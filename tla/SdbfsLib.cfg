SPECIFICATION LiveSpec
CONSTANTS
  Images <- MCImages
  SDBFS_DEPTH = 3
  MaxRecords = 5
  Keys <- MCKeys
  NoAddr = NoAddr
  Accesses = {"mapped", "method"}
  Tools = {"list", "cat", "find", "extract"}
  Buf = 2
  Offsets = {0, 1, 3}
  MaxRuns = 2
INVARIANTS
  ScanInOrder
  OpenFindsFirst
  ReadFaithful
PROPERTIES
  CallReturns
CHECK_DEADLOCK FALSE
