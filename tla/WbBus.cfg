SPECIFICATION Spec
CONSTANTS
  fakedac    = fakedac
  wb_onewire = wb_onewire
  fakeadc    = fakeadc
  byclass    = byclass
  Drivers    = {fakedac, wb_onewire, byclass}
  NoDriver   = NoDriver
  Table      <- Tables
  Failing    = {wb_onewire}
  Images     <- Cards
  MaxRecords = 3
  Looks      <- Memory
  AnyId      <- AllOnes
  NoClass    <- AllOnes
INVARIANTS
  OneOwner
  BusMatches
  NoneMissed
