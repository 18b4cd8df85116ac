SPECIFICATION Spec
CONSTANTS
  Cards       = {d1, d2, d3, d4}
  NoCard      = nobody
  max_devices = 3
  MINORS      = 16
SYMMETRY Symmetry
INVARIANTS
  ModuleClean
  InOrder
  Published
PROPERTIES
  RefusedOnlyWhenFull
