SPECIFICATION FairSpec
CONSTANTS
  MaxCount   = 3
  Messages  <- SomeMessages
  Greetings <- AllGreetings
  ReadLens   = {24}
  WriteLens  = {3, 10}
  MSI        = {TRUE, FALSE}
  MaxPending = 2
INVARIANTS
  AnsweredOnce
  BuffersFit
  Framed
  SleeperNotified
PROPERTIES
  SleeperWakes
