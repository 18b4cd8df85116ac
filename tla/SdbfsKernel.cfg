SPECIFICATION LiveSpec
CONSTANTS
  Owners = {"sdb-fakedev", "sdb-iomem"}
  Given <- MCGiven
  Image <- MCImage
  Dirs <- MCDirs
  Procs = {p, q}
  Kbuf = 2
  Counts = {2, 3}
  Room = 3
  Leftovers <- UsedInodes
  MaxLoads = 2
  MaxUses = 3
INVARIANTS
  DevicePinned
  NamesRight
  ListingComplete
  ReadExact
PROPERTIES
  CallReturns
CHECK_DEADLOCK FALSE
