SPECIFICATION Spec
CONSTANTS
  Trees <- MCTrees
  Devsizes = {0, 10, 64}
  blocksize = 4
  RECORD = 2
  ULONG = 256
  Unset = Unset
  Growth = 1
INVARIANTS TablesReadBack FilesReadBack AreaOwned DataFits
CHECK_DEADLOCK FALSE
