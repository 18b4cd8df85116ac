SPECIFICATION FairSpec
CONSTANTS
  Cards   = {"pcie_wb", "spec_wb", "vme_wb"}
  Files   = {f1, f2}
  NoFile  = nobody
  Windows = {0, 1}
  Lows    = {0}
  Bytes   = {0, 1, 2}
  Records <- SomeRecords
INVARIANTS
  OneCycle
  AccessFaithful
  Isolated
PROPERTIES
  ImplementsBus
  NoStarvation
