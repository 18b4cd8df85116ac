SPECIFICATION Spec
CONSTANTS
  fakedac    = fakedac
  wb_onewire = wb_onewire
  fakeadc    = fakeadc
  byclass    = byclass
  Drivers    = {fakeadc, wb_onewire}
  NoDriver   = NoDriver
  Table      <- Tables
  Failing    = {wb_onewire}
  Images     <- Cards
  MaxRecords = 3
  Looks      <- Memory
  AnyId      <- AllOnes
  NoClass    <- AllOnes
INVARIANT
  OneOwner
