------------------------------- MODULE MCWbBus -------------------------------
(***************************************************************************)
(* Instances of WbBus for TLC: the id tables of the drivers of the         *)
(* repository, and small cards.                                            *)
(***************************************************************************)
EXTENDS WbBus

CONSTANTS fakeadc, fakedac, wb_onewire, byclass

AllOnes == 255    \* ~0, of WB_ANY_VENDOR, WB_ANY_DEVICE and WB_NO_CLASS

Id32(v, d, c) == [vendor |-> v, device |-> d, class |-> c]
Entry(v, d)   == Id32(v, d, AllOnes)

\* fakeadc.c, wb_1wire.c and fakedac.c, which has here a second entry, and a
\* driver that claims a class of devices.
Tables ==
  [drv \in Drivers |->
     CASE drv = fakedac -> <<Entry(0, 2), Entry(0, 3)>>
       [] drv = byclass -> <<Id32(5, 9, 7)>>
       [] OTHER         -> <<Entry(0, 1)>>]

Card(ids) == [head |-> TRUE, records |-> ids]

Cards ==
  {Card(<<Id32(0, 1, 0), Id32(0, 3, 0)>>),
   Card(<<Id32(0, 2, 0), Id32(5, 4, 7), Id32(0, 1, 0)>>),
   [head |-> FALSE, records |-> <<>>]}

\* The bus itself may look like one more device of a driver.
Memory == {Id32(0, 0, 0), Id32(0, 2, 0)}

\* Without fakeadc, which claims what wb_1wire does, no device is for two.
ASSUME InstanceAssumption ==
  /\ fakeadc \notin Drivers => TablesDisjoint
  /\ TablesRead
=============================================================================
