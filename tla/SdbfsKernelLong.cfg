SPECIFICATION Spec
CONSTANTS
  Owners = {"sdb-fakedev", "sdb-iomem"}
  Given <- MCGiven
  Image <- MCImage
  Dirs <- MCDirs
  Procs = {p}
  Kbuf = 2
  Counts = {3}
  Room = 3
  Leftovers <- CleanInodes
  MaxLoads = 1
  MaxUses = 2
INVARIANTS
  ReadFaithful
CHECK_DEADLOCK FALSE
