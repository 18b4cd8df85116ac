-------------------------------- MODULE WbBus --------------------------------
(***************************************************************************)
(* The earlier Wishbone bus of historic/driver: wishbone.c, the bus that   *)
(* fake_wb_bus.c registers, and the drivers (fakeadc.c, fakedac.c,         *)
(* wb_1wire.c) that claim its devices by their id tables.                  *)
(*                                                                         *)
(* The module that brings the bus and those that bring drivers come and go *)
(* in parallel.  Linux calls wb_bus_match for every pair of a device and a *)
(* driver, and calls wb_drv_probe, with the device locked, if no driver is *)
(* bound to the device.  A driver that is loaded asks for the match before *)
(* it takes the lock, so other steps come in between.                      *)
(***************************************************************************)
EXTENDS Integers, Sequences, SequencesExt, FiniteSetsExt

CONSTANTS
  Drivers, NoDriver,  \* the driver modules
  Table,      \* their id tables, without the empty entry at the end
  Failing,    \* those whose probe may fail
  Images,     \* what a card may hold: a header and device records
  MaxRecords, \* bound on the records of a card
  Looks,      \* what the memory before a struct wb_bus may look like
  AnyId,      \* WB_ANY_VENDOR and WB_ANY_DEVICE
  NoClass     \* WB_NO_CLASS

ASSUME BusAssumption ==
  /\ NoDriver \notin Drivers /\ Failing \subseteq Drivers
  /\ \A drv \in Drivers : \A n \in DOMAIN Table[drv] :
       Table[drv][n].vendor # 0 \/ Table[drv][n].device # 0
  /\ MaxRecords \in Nat
  /\ \A img \in Images : /\ img.records \in Seq(ToSet(img.records))
                        /\ Len(img.records) <= MaxRecords

\* Device n > 0 is the n-th record; 0 is the bus itself, which is put on
\* the same bus type as its devices.
Devices == 0..MaxRecords
Gone    == -1

VARIABLES
  image, looks,    \* what the bus finds, and is taken for
  busPc,           \* where loading or unloading the bus is
  ptr,             \* the next record: wbd_ptr
  devices, ndev,   \* bus->devices, bus->ndev
  firmware,        \* whether the firmware image is held
  attach,          \* the device being registered, drivers not asked yet
  mode, visit, at, \* per driver: its state, devices to visit, the one at hand
  driver,          \* wb_dev->driver
  present, bound,  \* Linux: registered devices, and dev->driver
  held             \* history: drivers that were probed and not removed

bus   == <<image, looks, busPc, ptr, devices, ndev, firmware>>
loads == <<mode, visit, at>>
core  == <<driver, present, bound, held>>
vars  == <<bus, attach, loads, core>>

(***************************************************************************)
(* Matching.                                                               *)
(***************************************************************************)
Id(d) == IF d = 0 THEN looks ELSE image.records[d]

\* The local variable device is set only by an entry without a vendor.
CarriedDevice(t, n) ==
  LET zero == {m \in 1..n : t[m].vendor = 0}
  IN  IF zero = {} THEN 0 ELSE t[Max(zero)].device

\* Mutant: only the first entry is looked at.
wb_match_device_first(drv, id) ==
  LET e == Table[drv][1] IN e.vendor = id.vendor /\ e.device = id.device

wb_match_device(drv, id) ==
  \E n \in DOMAIN Table[drv] :
    LET e == Table[drv][n]
        device == CarriedDevice(Table[drv], n)
    IN  \/ e.class # NoClass /\ e.class = id.class
        \/ e.vendor \in {AnyId, id.vendor} /\ device \in {AnyId, id.device}

\* Mutant: the driver is noted before the match is known.
wb_bus_match_early(d, drv) ==
  driver' = [driver EXCEPT ![d] = drv]

\* A device that matches notes the driver, whoever it is bound to.
wb_bus_match(d, drv) ==
  driver' = IF wb_match_device(drv, Id(d))
            THEN [driver EXCEPT ![d] = drv] ELSE driver

\* Linux binds drv to d; wb_drv_probe calls the driver noted in the device.
wb_drv_probe(d, drv) ==
  LET asked == driver'[d]
  IN  \/ /\ bound' = [bound EXCEPT ![d] = drv]
         /\ held'  = [held EXCEPT ![d] = @ \cup {asked}]
      \/ asked \in Failing /\ UNCHANGED <<bound, held>>

\* Linux unbinds the devices ds; wb_drv_remove calls the driver noted.
wb_drv_remove(ds) ==
  LET freed == {d \in ds : bound[d] # NoDriver}
  IN  /\ bound' = [d \in Devices |-> IF d \in freed THEN NoDriver ELSE bound[d]]
      /\ held'  = [d \in Devices |->
                     IF d \in freed THEN held[d] \ {driver[d]} ELSE held[d]]

(***************************************************************************)
(* Registering and unregistering one device.                               *)
(***************************************************************************)
Loaded == {drv \in Drivers : mode[drv] \in {"attach", "probe", "in"}}

\* Drivers that are visiting the devices will also visit the new one.
device_register(d) ==
  /\ present' = present \cup {d}
  /\ visit'   = [drv \in Drivers |-> IF mode[drv] \in {"attach", "probe"}
                                     THEN visit[drv] \cup {d} ELSE visit[drv]]
  /\ attach'  = [dev |-> d, todo |-> Loaded]
  /\ UNCHANGED <<mode, at, driver, bound, held>>

\* The device is freed; a driver that waits for its lock finds it gone.
device_unregister(d) ==
  /\ present' = present \ {d}
  /\ driver' = [driver EXCEPT ![d] = NoDriver]
  /\ at' = [drv \in Drivers |-> IF at[drv] = d THEN Gone ELSE at[drv]]
  /\ wb_drv_remove({d})
  /\ UNCHANGED <<attach, mode, visit>>

Attached == bound[attach.dev] # NoDriver \/ attach.todo \cap Loaded = {}

\* The device being registered is offered to the next driver.
device_attach ==
  /\ ~Attached
  /\ \E drv \in attach.todo \cap Loaded :
       /\ attach' = [attach EXCEPT !.todo = @ \ {drv}]
       /\ wb_bus_match(attach.dev, drv)
       /\ IF wb_match_device(drv, Id(attach.dev))
          THEN wb_drv_probe(attach.dev, drv) ELSE UNCHANGED <<bound, held>>
  /\ UNCHANGED <<bus, loads, present>>

(***************************************************************************)
(* The bus: fake_wb_bus.c and the scan.                                    *)
(***************************************************************************)
fake_wb_bus_init ==
  /\ busPc = "out"
  /\ busPc' = "register" /\ firmware' = TRUE
  /\ UNCHANGED <<image, looks, ptr, devices, ndev, attach, loads, core>>

wb_register_bus ==
  /\ busPc = "register"
  /\ devices' = <<>> /\ ndev' = 0 /\ ptr' = 1
  /\ \/ busPc' = "head" /\ device_register(0)
     \/ busPc' = "release" /\ UNCHANGED <<attach, loads, core>>
  /\ UNCHANGED <<image, looks, firmware>>

\* The header of the card must be one.
wb_scan_head ==
  /\ busPc = "head" /\ Attached
  /\ attach' = [attach EXCEPT !.todo = {}]
  /\ busPc' = IF image.head THEN "scan" ELSE "unregister"
  /\ UNCHANGED <<image, looks, ptr, devices, ndev, firmware, loads, core>>

\* The scan ends at the first record that is none, and, without an error,
\* when there is no memory for the device.
wb_scan_end ==
  /\ busPc = "scan"
  /\ busPc' = "in"
  /\ UNCHANGED <<image, looks, ptr, devices, ndev, firmware, attach, loads,
                 core>>

wb_register_device ==
  /\ busPc = "scan" /\ ptr <= Len(image.records)
  /\ \/ busPc' = "added" /\ device_register(ptr)
     \/ busPc' = "error" /\ UNCHANGED <<attach, loads, core>>
  /\ UNCHANGED <<image, looks, ptr, devices, ndev, firmware>>

wb_scan_next ==
  /\ busPc = "added" /\ Attached
  /\ devices' = <<ptr>> \o devices
  /\ ndev' = ndev + 1
  /\ ptr' = ptr + 1
  /\ attach' = [attach EXCEPT !.todo = {}]
  /\ busPc' = "scan"
  /\ UNCHANGED <<image, looks, firmware, loads, core>>

\* Mutant: the devices that were registered before are forgotten.
err_wbdev_register_forgets ==
  /\ busPc = "error"
  /\ ndev' = 0 /\ devices' = <<>> /\ busPc' = "unregister"
  /\ UNCHANGED <<image, looks, ptr, firmware, attach, loads, core>>

\* A scan that fails takes back, one by one, what it registered.
err_wbdev_register ==
  /\ busPc = "error"
  /\ \/ /\ devices # <<>>
        /\ devices' = Tail(devices)
        /\ device_unregister(Head(devices))
        /\ UNCHANGED <<busPc, ndev>>
     \/ /\ devices = <<>>
        /\ ndev' = 0 /\ busPc' = "unregister"
        /\ UNCHANGED <<devices, attach, loads, core>>
  /\ UNCHANGED <<image, looks, ptr, firmware>>

fake_wb_bus_exit ==
  /\ busPc = "in"
  /\ busPc' = "exit"
  /\ UNCHANGED <<image, looks, ptr, devices, ndev, firmware, attach, loads,
                 core>>

wb_unregister_bus ==
  /\ busPc = "exit"
  /\ \/ /\ devices # <<>>
        /\ device_unregister(Head(devices))
        /\ devices' = Tail(devices)
        /\ UNCHANGED busPc
     \/ /\ devices = <<>>
        /\ busPc' = "unregister"
        /\ UNCHANGED <<devices, attach, loads, core>>
  /\ UNCHANGED <<image, looks, ptr, ndev, firmware>>

\* A failure and the exit end alike; then the module's memory is gone.
unregister_bus_device ==
  /\ busPc = "unregister"
  /\ device_unregister(0)
  /\ busPc' = "release"
  /\ UNCHANGED <<image, looks, ptr, devices, ndev, firmware>>

release_firmware ==
  /\ busPc = "release"
  /\ firmware' = FALSE /\ busPc' = "out"
  /\ devices' = <<>> /\ ndev' = 0 /\ ptr' = 1
  /\ attach' = [dev |-> 0, todo |-> {}]
  /\ UNCHANGED <<image, looks, loads, core>>

(***************************************************************************)
(* The drivers.                                                            *)
(***************************************************************************)
wb_register_driver(drv) ==
  /\ mode[drv] = "out"
  /\ mode'  = [mode EXCEPT ![drv] = "attach"]
  /\ visit' = [visit EXCEPT ![drv] = present]
  /\ UNCHANGED <<bus, attach, at, core>>

\* The driver visits the devices in the order of their registration.
driver_attach(drv) ==
  LET todo == visit[drv] \cap present
      d    == Min(todo)
  IN  /\ mode[drv] = "attach" /\ todo # {}
      /\ visit' = [visit EXCEPT ![drv] = todo \ {d}]
      /\ wb_bus_match(d, drv)
      /\ IF wb_match_device(drv, Id(d))
         THEN /\ mode' = [mode EXCEPT ![drv] = "probe"]
              /\ at'   = [at EXCEPT ![drv] = d]
         ELSE UNCHANGED <<mode, at>>
      /\ UNCHANGED <<bus, attach, present, bound, held>>

\* With the device locked: it may be bound, or gone, by now.
driver_probe_device(drv) ==
  LET d == at[drv]
  IN  /\ mode[drv] = "probe"
      /\ mode' = [mode EXCEPT ![drv] = "attach"]
      /\ UNCHANGED driver
      /\ IF d \in present /\ bound[d] = NoDriver
         THEN wb_drv_probe(d, drv) ELSE UNCHANGED <<bound, held>>
      /\ at' = [at EXCEPT ![drv] = Gone]
      /\ UNCHANGED <<bus, attach, visit, present>>

driver_registered(drv) ==
  /\ mode[drv] = "attach" /\ visit[drv] \cap present = {}
  /\ mode' = [mode EXCEPT ![drv] = "in"]
  /\ visit' = [visit EXCEPT ![drv] = {}]
  /\ UNCHANGED <<bus, attach, at, core>>

wb_unregister_driver(drv) ==
  /\ mode[drv] = "in"
  /\ mode' = [mode EXCEPT ![drv] = "detach"]
  /\ UNCHANGED <<bus, attach, visit, at, core>>

\* Linux unbinds the devices bound to the driver, one by one.
driver_detach(drv) ==
  LET mine == {d \in present : bound[d] = drv}
  IN  /\ mode[drv] = "detach"
      /\ IF mine # {}
         THEN (\E d \in mine : wb_drv_remove({d})) /\ UNCHANGED mode
         ELSE UNCHANGED <<bound, held>> /\ mode' = [mode EXCEPT ![drv] = "out"]
      /\ UNCHANGED <<bus, attach, visit, at, driver, present>>

Init ==
  /\ image \in Images /\ looks \in Looks
  /\ busPc = "out" /\ ptr = 1 /\ devices = <<>> /\ ndev = 0
  /\ firmware = FALSE
  /\ attach = [dev |-> 0, todo |-> {}]
  /\ mode = [drv \in Drivers |-> "out"]
  /\ visit = [drv \in Drivers |-> {}] /\ at = [drv \in Drivers |-> Gone]
  /\ driver = [d \in Devices |-> NoDriver]
  /\ present = {} /\ bound = [d \in Devices |-> NoDriver]
  /\ held = [d \in Devices |-> {}]

BusStep ==
  \/ fake_wb_bus_init
  \/ wb_register_bus
  \/ device_attach
  \/ wb_scan_head
  \/ wb_scan_end
  \/ wb_register_device
  \/ wb_scan_next
  \/ err_wbdev_register
  \/ fake_wb_bus_exit
  \/ wb_unregister_bus
  \/ unregister_bus_device
  \/ release_firmware

DriverStep(drv) ==
  \/ wb_register_driver(drv)
  \/ driver_attach(drv)
  \/ driver_probe_device(drv)
  \/ driver_registered(drv)
  \/ wb_unregister_driver(drv)
  \/ driver_detach(drv)

Next == BusStep \/ \E drv \in Drivers : DriverStep(drv)

Spec == Init /\ [][Next]_vars

(***************************************************************************)
(* Properties.                                                             *)
(***************************************************************************)
\* The driver that set a device up is the one it is bound to, and its code
\* is still there; when the device is unbound, because the bus or the driver
\* goes, nothing stays set up.
OneOwner ==
  \A d \in Devices :
    /\ held[d] = {bound[d]} \ {NoDriver}
    /\ held[d] \subseteq {drv \in Drivers : mode[drv] # "out"}

\* A loaded bus has registered records from the first on without a gap, and
\* counted them; a bus that failed, at whatever step, or is gone has left
\* nothing behind.
BusMatches ==
  /\ busPc = "in" => /\ present = {0} \cup ToSet(devices)
                     /\ devices = [n \in 1..ndev |-> ndev + 1 - n]
                     /\ ndev <= Len(image.records)
  /\ busPc = "out" => present = {} /\ ~firmware /\ \A d \in Devices : held[d] = {}

\* The id table says that the driver is for this device.
Claims(drv, id) ==
  \E n \in DOMAIN Table[drv] :
    LET e == Table[drv][n]
    IN  \/ e.class # NoClass /\ e.class = id.class
        \/ e.vendor \in {AnyId, id.vendor} /\ e.device \in {AnyId, id.device}

\* Whichever comes first, and whatever is loaded in parallel, a device whose
\* driver is there is bound, unless its probe may fail.
NoneMissed ==
  \A d \in present, drv \in Drivers \ Failing :
    /\ mode[drv] = "in" /\ Claims(drv, Id(d))
    /\ attach.dev = d => Attached
    => bound[d] # NoDriver

(***************************************************************************)
(* What the proofs ask of the id tables; the code does not see to it.      *)
(***************************************************************************)
Ids == Looks \cup UNION {ToSet(img.records) : img \in Images}

\* No device is for two drivers.
TablesDisjoint ==
  \A id \in Ids : \A drv1, drv2 \in Drivers :
    wb_match_device(drv1, id) /\ wb_match_device(drv2, id) => drv1 = drv2

\* An entry is not misread because device was set by an entry before it.
TablesRead ==
  \A id \in Ids, drv \in Drivers : \A n \in DOMAIN Table[drv] :
    LET e == Table[drv][n]
    IN  e.vendor \in {AnyId, id.vendor} /\ e.device \in {AnyId, id.device}
          => CarriedDevice(Table[drv], n) \in {AnyId, id.device}
=============================================================================
