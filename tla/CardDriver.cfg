SPECIFICATION Spec
CONSTANTS
  Drivers = {"pcie_wb", "spec_wb", "vme_wb"}
  Users = {u, v, w}
  MaxBinds = 2
INVARIANTS
  NothingHeld
  CardReachable
  InterruptHandled
CHECK_DEADLOCK FALSE
