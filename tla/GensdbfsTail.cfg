SPECIFICATION Spec
CONSTANTS
  Trees <- MCTail
  Devsizes = {0}
  blocksize = 4
  RECORD = 2
  ULONG = 256
  Unset = Unset
  Growth = 0
INVARIANTS FilesReadBack
CHECK_DEADLOCK FALSE
