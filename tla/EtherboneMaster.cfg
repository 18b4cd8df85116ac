SPECIFICATION FairSpec
CONSTANTS
  RING_SIZE  = 32
  MaxCount   = 2
  AddrSpace  = 16
  Streams    <- UserStreams
  Lookalikes <- Headers
  IovLens    = {1, 16}
  Faulty     <- FaultyStreams
  FaultAt    = {6}
  MaxOpens   = 1
INVARIANTS
  RingOrder
  NoWedge
  ReplyFaithful
  BusFaithful
  CycleBalanced
PROPERTIES
  ImplementsPipe
  Delivered
CHECK_DEADLOCK FALSE
