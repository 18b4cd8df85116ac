----------------------------- MODULE WbBusProofs -----------------------------
(***************************************************************************)
(* Proofs about WbBus, for every set of drivers, id tables and cards: what *)
(* is left when loading fails or the bus goes, who owns a device, and that *)
(* no device is missed.  That no device is for two drivers is a hypothesis *)
(* of them all: the run historic_shared shows what happens otherwise.      *)
(***************************************************************************)
EXTENDS WbBus, SequenceTheorems, WellFoundedInduction, TLAPS

\* The driver is for the device.
For(drv, d) == wb_match_device(drv, Id(d))

(***************************************************************************)
(* The inductive invariant.                                                *)
(***************************************************************************)
BusType ==
  /\ image \in Images /\ looks \in Looks
  /\ busPc \in {"out", "register", "head", "scan", "added", "error", "in",
                "exit", "unregister", "release"}
  /\ ptr \in 1..MaxRecords + 1
  /\ firmware \in BOOLEAN

DriverType ==
  /\ attach \in [dev : Devices, todo : SUBSET Drivers]
  /\ mode \in [Drivers -> {"out", "attach", "probe", "in", "detach"}]
  /\ visit \in [Drivers -> SUBSET Devices]
  /\ at \in [Drivers -> Devices \cup {Gone}]
  /\ driver \in [Devices -> Drivers \cup {NoDriver}]
  /\ present \in SUBSET Devices
  /\ bound \in [Devices -> Drivers \cup {NoDriver}]
  /\ held \in [Devices -> SUBSET Drivers]

TypeOK == BusType /\ DriverType

\* The list of the first k records.
Newest(k) == [n \in 1..k |-> k + 1 - n]

Listed(k) == /\ k \in 0..Len(image.records)
             /\ devices = Newest(k) /\ present = {0} \cup 1..k

\* What is registered and listed while the bus comes and goes.
BusOK ==
  /\ firmware <=> busPc # "out"
  /\ busPc \in {"out", "register", "release"} => present = {}
  /\ busPc \in {"head", "unregister"} => Listed(0)
  /\ busPc = "head" => ptr = 1 /\ ndev = 0
  /\ busPc \in {"scan", "in"} => ndev = ptr - 1 /\ Listed(ndev)
  /\ busPc = "added" =>
       /\ ndev = ptr - 1 /\ ptr <= Len(image.records)
       /\ devices = Newest(ndev) /\ present = {0} \cup 1..ptr
  /\ busPc \in {"error", "exit"} => \E k \in 0..MaxRecords : Listed(k)

\* The device that is offered to the drivers is the one just registered.
Offered ==
  CASE busPc = "head"  -> attach.dev = 0
    [] busPc = "added" -> attach.dev = ptr
    [] OTHER           -> attach.todo = {}

\* A driver is noted in a device only if it is for it, and a driver about to
\* probe a device is noted there.
Noted ==
  /\ \A d \in Devices : driver[d] # NoDriver => For(driver[d], d)
  /\ \A drv \in Drivers : at[drv] # Gone =>
       mode[drv] = "probe" /\ at[drv] \in present /\ driver[at[drv]] = drv

\* A device that is bound is set up by the driver noted there, and that only.
Owned ==
  \A d \in Devices :
    /\ held[d] = {bound[d]} \ {NoDriver}
    /\ bound[d] # NoDriver =>
         /\ d \in present /\ driver[d] = bound[d]
         /\ mode[bound[d]] # "out"

\* A device is bound, or every driver that is for it will still come to it.
Reached ==
  \A d \in present, drv \in Drivers \ Failing : For(drv, d) =>
    \/ bound[d] # NoDriver
    \/ mode[drv] \in {"out", "detach"}
    \/ attach.dev = d /\ drv \in attach.todo
    \/ mode[drv] \in {"attach", "probe"} /\ d \in visit[drv]
    \/ at[drv] = d

DriversOK == DriverType /\ Noted /\ Owned /\ Reached

IInv == BusType /\ BusOK /\ Offered /\ DriversOK

(***************************************************************************)
(* Devices and the drivers that are for them.                              *)
(***************************************************************************)
\* Every set of numbers has a least one.
LEMMA Least ==
  ASSUME NEW T, T \subseteq Nat, T # {}
  PROVE  Min(T) \in T
<1> DEFINE R == {p \in Nat \X Nat : p[1] < p[2]}
<1>1. IsWellFoundedOn(R, Nat)
  BY NatLessThanWellFounded, Zenon DEF OpToRel
<1> HIDE DEF R
<1>2. PICK x \in T : \A y \in T : <<y, x>> \notin R
  BY <1>1, WFMin
<1>3. ASSUME NEW y \in T PROVE x <= y
  <2>1. x \in Nat /\ y \in Nat
    OBVIOUS
  <2>2. y < x => <<y, x>> \in R
    BY <2>1 DEF R
  <2>3. ~(y < x)
    BY <2>2, <1>2
  <2> QED BY <2>1, <2>3
<1> QED BY <1>3 DEF Min

\* What is on the card, and what the bus is taken for, does not change.
LEMMA ForStays ==
  ASSUME UNCHANGED <<image, looks>>, NEW drv, NEW d
  PROVE  For(drv, d)' <=> For(drv, d)
BY DEF For, Id, wb_match_device

LEMMA CardBounds ==
  ASSUME TypeOK
  PROVE  /\ Len(image.records) \in Nat /\ Len(image.records) <= MaxRecords
         /\ MaxRecords \in Nat /\ 0 \in Devices /\ Gone \notin Devices
         /\ \A n \in 1..Len(image.records) :
               n \in Devices /\ image.records[n] \in Ids
<1>1. /\ image \in Images /\ image.records \in Seq(ToSet(image.records))
      /\ Len(image.records) <= MaxRecords /\ MaxRecords \in Nat
  BY BusAssumption DEF TypeOK, BusType, DriverType
<1>2. Len(image.records) \in Nat
  BY <1>1
<1>3. \A n \in 1..Len(image.records) : image.records[n] \in Ids
  BY <1>1, <1>2 DEF Ids
<1>4. \A n \in 1..Len(image.records) : n \in Devices
  BY <1>1, <1>2 DEF Devices
<1> QED BY <1>1, <1>2, <1>3, <1>4 DEF Devices, Gone

\* The devices that are registered are the bus and records of the card.
LEMMA PresentIds ==
  ASSUME TypeOK, BusOK, NEW d \in present
  PROVE  Id(d) \in Ids
<1> DEFINE n == Len(image.records)
<1>1. n \in Nat /\ \A k \in 1..n : image.records[k] \in Ids
  BY CardBounds
<1>2. looks \in Ids
  BY DEF TypeOK, BusType, DriverType, Ids
<1> HIDE DEF n
<1>3. d = 0 \/ d \in 1..n
  <2>1. CASE busPc \in {"out", "register", "release"}
    BY <2>1 DEF BusOK
  <2>2. CASE busPc \in {"head", "unregister", "scan", "in", "error", "exit"}
    <3>1. PICK k \in 0..n : present = {0} \cup 1..k
      BY <2>2 DEF BusOK, Listed, n
    <3> QED BY <1>1, <3>1
  <2>3. CASE busPc = "added"
    <3>1. ptr \in Nat /\ ptr <= n /\ present = {0} \cup 1..ptr
      BY <2>3 DEF BusOK, TypeOK, BusType, n
    <3> QED BY <1>1, <3>1
  <2> QED BY <2>1, <2>2, <2>3 DEF TypeOK, BusType, DriverType
<1> QED BY <1>1, <1>2, <1>3 DEF Id, n

LEMMA OneDriver ==
  ASSUME TablesDisjoint, TypeOK, BusOK, NEW d \in present,
         NEW drv1 \in Drivers, NEW drv2 \in Drivers,
         For(drv1, d), For(drv2, d)
  PROVE  drv1 = drv2
BY PresentIds DEF TablesDisjoint, For

(***************************************************************************)
(* What registering and unregistering a device keep.                       *)
(***************************************************************************)
\* A step of the bus that touches no device, or leaves one that every driver
\* has been asked for.
LEMMA Quiet ==
  ASSUME DriversOK, UNCHANGED <<image, looks, loads, core>>,
         \/ attach' = attach
         \/ attach' = [attach EXCEPT !.todo = {}] /\ Attached
         \/ attach' = [dev |-> 0, todo |-> {}] /\ attach.todo = {}
  PROVE  DriversOK'
<1>1. /\ mode' = mode /\ visit' = visit /\ at' = at /\ driver' = driver
      /\ present' = present /\ bound' = bound /\ held' = held
  BY DEF loads, core
<1>2. \A drv, d : For(drv, d)' <=> For(drv, d)
  BY ForStays
<1>3. DriverType'
  <2>1. 0 \in Devices
    BY BusAssumption DEF Devices
  <2>2. attach' \in [dev : Devices, todo : SUBSET Drivers]
    BY <2>1 DEF DriversOK, DriverType
  <2> QED BY <1>1, <2>2 DEF DriversOK, DriverType
<1>4. Noted'
  BY <1>1, <1>2 DEF DriversOK, Noted
<1>5. Owned'
  BY <1>1 DEF DriversOK, Owned
<1>6. Reached'
  <2> SUFFICES ASSUME NEW d \in present, NEW drv \in Drivers \ Failing,
                      For(drv, d)
               PROVE  \/ bound[d] # NoDriver
                      \/ mode[drv] \in {"out", "detach"}
                      \/ attach'.dev = d /\ drv \in attach'.todo
                      \/ mode[drv] \in {"attach", "probe"} /\ d \in visit[drv]
                      \/ at[drv] = d
    BY <1>1, <1>2 DEF Reached
  <2>1. \/ bound[d] # NoDriver
        \/ mode[drv] \in {"out", "detach"}
        \/ attach.dev = d /\ drv \in attach.todo
        \/ mode[drv] \in {"attach", "probe"} /\ d \in visit[drv]
        \/ at[drv] = d
    BY DEF DriversOK, Reached
  <2>2. CASE attach.dev = d /\ drv \in attach.todo /\ Attached
    <3>1. bound[d] # NoDriver \/ drv \notin Loaded
      BY <2>2 DEF Attached
    <3>2. mode[drv] \in {"out", "attach", "probe", "in", "detach"}
      BY DEF DriversOK, DriverType
    <3> QED BY <3>1, <3>2 DEF Loaded
  <2>3. CASE attach' = attach
    BY <2>1, <2>3
  <2> QED BY <2>1, <2>2, <2>3
<1> QED BY <1>3, <1>4, <1>5, <1>6 DEF DriversOK

LEMMA Registered ==
  ASSUME DriversOK, UNCHANGED <<image, looks>>, NEW d \in Devices,
         attach.todo = {}, device_register(d)
  PROVE  DriversOK' /\ present' = present \cup {d}
<1>1. /\ mode' = mode /\ at' = at /\ driver' = driver
      /\ present' = present \cup {d} /\ bound' = bound /\ held' = held
      /\ visit' = [drv \in Drivers |->
                     IF mode[drv] \in {"attach", "probe"}
                     THEN visit[drv] \cup {d} ELSE visit[drv]]
      /\ attach' = [dev |-> d, todo |-> Loaded]
  BY DEF device_register
<1>2. \A drv, e : For(drv, e)' <=> For(drv, e)
  BY ForStays
<1>3. DriverType'
  <2>1. attach' \in [dev : Devices, todo : SUBSET Drivers]
    BY <1>1 DEF Loaded
  <2>2. visit' \in [Drivers -> SUBSET Devices]
    BY <1>1 DEF DriversOK, DriverType
  <2> QED BY <1>1, <2>1, <2>2 DEF DriversOK, DriverType
<1>4. Noted'
  BY <1>1, <1>2 DEF DriversOK, Noted
<1>5. Owned'
  BY <1>1 DEF DriversOK, Owned
<1>6. Reached'
  <2> SUFFICES ASSUME NEW e \in present', NEW drv \in Drivers \ Failing,
                      For(drv, e)
               PROVE  \/ bound[e] # NoDriver
                      \/ mode[drv] \in {"out", "detach"}
                      \/ attach'.dev = e /\ drv \in attach'.todo
                      \/ mode[drv] \in {"attach", "probe"} /\ e \in visit'[drv]
                      \/ at[drv] = e
    BY <1>1, <1>2 DEF Reached
  <2>1. CASE e = d
    <3>1. mode[drv] \in {"out", "attach", "probe", "in", "detach"}
      BY DEF DriversOK, DriverType
    <3> QED BY <1>1, <2>1, <3>1 DEF Loaded
  <2>2. CASE e # d
    <3>1. e \in present
      BY <1>1, <2>2
    <3>2. \/ bound[e] # NoDriver
          \/ mode[drv] \in {"out", "detach"}
          \/ mode[drv] \in {"attach", "probe"} /\ e \in visit[drv]
          \/ at[drv] = e
      BY <3>1 DEF DriversOK, Reached
    <3> QED BY <1>1, <3>2
  <2> QED BY <2>1, <2>2
<1> QED BY <1>1, <1>3, <1>4, <1>5, <1>6 DEF DriversOK

LEMMA Unregistered ==
  ASSUME DriversOK, UNCHANGED <<image, looks>>, NEW d \in Devices,
         device_unregister(d)
  PROVE  DriversOK' /\ present' = present \ {d} /\ attach' = attach
<1>1. /\ mode' = mode /\ visit' = visit /\ attach' = attach
      /\ present' = present \ {d}
      /\ driver' = [driver EXCEPT ![d] = NoDriver]
      /\ at' = [drv \in Drivers |-> IF at[drv] = d THEN Gone ELSE at[drv]]
  BY DEF device_unregister
<1>2. \A drv, e : For(drv, e)' <=> For(drv, e)
  BY ForStays
<1>3. Gone \notin Devices
  BY BusAssumption DEF Gone, Devices
<1>4. /\ bound' = [e \in Devices |-> IF e = d THEN NoDriver ELSE bound[e]]
      /\ \A e \in Devices \ {d} : held'[e] = held[e]
      /\ held'[d] = {} /\ held' \in [Devices -> SUBSET Drivers]
  <2> DEFINE freed == {e \in {d} : bound[e] # NoDriver}
  <2>1. /\ bound' = [e \in Devices |->
                       IF e \in freed THEN NoDriver ELSE bound[e]]
        /\ held' = [e \in Devices |->
                      IF e \in freed THEN held[e] \ {driver[e]} ELSE held[e]]
    BY DEF device_unregister, wb_drv_remove
  <2>2. held[d] = {bound[d]} \ {NoDriver}
        /\ (bound[d] # NoDriver => driver[d] = bound[d])
    BY DEF DriversOK, Owned
  <2>3. bound \in [Devices -> Drivers \cup {NoDriver}]
        /\ held \in [Devices -> SUBSET Drivers]
    BY DEF DriversOK, DriverType
  <2>4. bound' = [e \in Devices |-> IF e = d THEN NoDriver ELSE bound[e]]
    BY <2>1
  <2>5. \A e \in Devices \ {d} : held'[e] = held[e]
    BY <2>1
  <2>6. held'[d] = IF bound[d] # NoDriver THEN held[d] \ {driver[d]}
                   ELSE held[d]
    BY <2>1
  <2>7. held' \in [Devices -> SUBSET Drivers]
    BY <2>1, <2>3
  <2> QED BY <2>2, <2>4, <2>5, <2>6, <2>7
<1>5. DriverType'
  <2>1. /\ driver' \in [Devices -> Drivers \cup {NoDriver}]
        /\ at' \in [Drivers -> Devices \cup {Gone}]
        /\ bound' \in [Devices -> Drivers \cup {NoDriver}]
        /\ present' \in SUBSET Devices
    BY <1>1, <1>4 DEF DriversOK, DriverType
  <2> QED BY <1>1, <1>4, <2>1 DEF DriversOK, DriverType
<1>6. Noted'
  <2>1. ASSUME NEW e \in Devices, driver'[e] # NoDriver
        PROVE  For(driver'[e], e)
    <3>1. e # d /\ driver'[e] = driver[e]
      BY <1>1, <2>1 DEF DriversOK, DriverType
    <3> QED BY <2>1, <3>1 DEF DriversOK, Noted
  <2>2. ASSUME NEW drv \in Drivers, at'[drv] # Gone
        PROVE  /\ mode[drv] = "probe" /\ at'[drv] \in present'
               /\ driver'[at'[drv]] = drv
    <3>1. at[drv] # d /\ at[drv] # Gone /\ at'[drv] = at[drv]
      BY <1>1, <2>2
    <3>2. mode[drv] = "probe" /\ at[drv] \in present /\ driver[at[drv]] = drv
      BY <3>1 DEF DriversOK, Noted
    <3> QED BY <1>1, <3>1, <3>2 DEF DriversOK, DriverType
  <2> QED BY <1>1, <1>2, <2>1, <2>2 DEF Noted
<1>7. Owned'
  <2> SUFFICES ASSUME NEW e \in Devices
               PROVE  /\ held'[e] = {bound'[e]} \ {NoDriver}
                      /\ bound'[e] # NoDriver =>
                           /\ e \in present' /\ driver'[e] = bound'[e]
                           /\ mode[bound'[e]] # "out"
    BY <1>1 DEF Owned
  <2>1. CASE e = d
    BY <1>4, <2>1
  <2>2. CASE e # d
    <3>1. held'[e] = held[e] /\ bound'[e] = bound[e] /\ driver'[e] = driver[e]
      BY <1>1, <1>4, <2>2 DEF DriversOK, DriverType
    <3> QED BY <1>1, <2>2, <3>1 DEF DriversOK, Owned
  <2> QED BY <2>1, <2>2
<1>8. Reached'
  <2> SUFFICES ASSUME NEW e \in present', NEW drv \in Drivers \ Failing,
                      For(drv, e)
               PROVE  \/ bound'[e] # NoDriver
                      \/ mode[drv] \in {"out", "detach"}
                      \/ attach.dev = e /\ drv \in attach.todo
                      \/ mode[drv] \in {"attach", "probe"} /\ e \in visit[drv]
                      \/ at'[drv] = e
    BY <1>1, <1>2 DEF Reached
  <2>1. e \in present /\ e # d /\ e \in Devices
    BY <1>1 DEF DriversOK, DriverType
  <2>2. bound'[e] = bound[e] /\ (at[drv] = e => at'[drv] = e)
    BY <1>1, <1>4, <2>1
  <2>3. \/ bound[e] # NoDriver
        \/ mode[drv] \in {"out", "detach"}
        \/ attach.dev = e /\ drv \in attach.todo
        \/ mode[drv] \in {"attach", "probe"} /\ e \in visit[drv]
        \/ at[drv] = e
    BY <2>1 DEF DriversOK, Reached
  <2> QED BY <2>2, <2>3
<1> QED BY <1>1, <1>5, <1>6, <1>7, <1>8 DEF DriversOK

\* The driver for a device that is not bound sets it up, or fails.
LEMMA Probed ==
  ASSUME DriversOK, UNCHANGED <<image, looks, present>>,
         NEW d \in present, NEW drv \in Drivers, For(drv, d),
         bound[d] = NoDriver, mode[drv] # "out",
         driver' = [driver EXCEPT ![d] = drv],
         wb_drv_probe(d, drv),
         \A a \in Drivers : mode'[a] # "out" <=> mode[a] # "out"
  PROVE  /\ Owned' /\ bound' \in [Devices -> Drivers \cup {NoDriver}]
         /\ held' \in [Devices -> SUBSET Drivers]
         /\ \A e \in Devices : bound[e] # NoDriver => bound'[e] # NoDriver
         /\ drv \notin Failing => bound'[d] # NoDriver
<1>1. /\ d \in Devices /\ drv # NoDriver
      /\ bound \in [Devices -> Drivers \cup {NoDriver}]
      /\ held \in [Devices -> SUBSET Drivers]
      /\ driver \in [Devices -> Drivers \cup {NoDriver}]
      /\ mode \in [Drivers -> {"out", "attach", "probe", "in", "detach"}]
  BY BusAssumption DEF DriversOK, DriverType
<1>2. driver'[d] = drv /\ \A e \in Devices : e # d => driver'[e] = driver[e]
  BY <1>1
<1>3. held[d] = {}
  BY <1>1 DEF DriversOK, Owned
<1>4. \/ /\ bound' = [bound EXCEPT ![d] = drv]
         /\ held' = [held EXCEPT ![d] = {drv}]
      \/ drv \in Failing /\ bound' = bound /\ held' = held
  <2>1. \/ /\ bound' = [bound EXCEPT ![d] = drv]
           /\ held' = [held EXCEPT ![d] = held[d] \cup {drv}]
        \/ drv \in Failing /\ bound' = bound /\ held' = held
    BY <1>2 DEF wb_drv_probe
  <2>2. held[d] \cup {drv} = {drv}
    BY <1>3
  <2> QED BY <2>1, <2>2
<1>5. Owned'
  <2> SUFFICES ASSUME NEW e \in Devices
               PROVE  /\ held'[e] = {bound'[e]} \ {NoDriver}
                      /\ bound'[e] # NoDriver =>
                           /\ e \in present /\ driver'[e] = bound'[e]
                           /\ mode'[bound'[e]] # "out"
    BY DEF Owned
  <2>1. /\ held[e] = {bound[e]} \ {NoDriver}
        /\ bound[e] # NoDriver =>
             /\ e \in present /\ driver[e] = bound[e]
             /\ mode[bound[e]] # "out"
    BY DEF DriversOK, Owned
  <2>2. CASE bound'[e] = bound[e] /\ held'[e] = held[e]
    <3>1. bound[e] # NoDriver => e # d /\ bound[e] \in Drivers
      BY <1>1
    <3> QED BY <1>2, <2>1, <2>2, <3>1
  <2>3. CASE e = d /\ bound'[e] = drv /\ held'[e] = {drv}
    BY <1>1, <1>2, <2>3
  <2> QED BY <1>1, <1>4, <2>2, <2>3
<1> QED BY <1>1, <1>4, <1>5

(***************************************************************************)
(* The steps of the drivers, and of the device being registered.           *)
(***************************************************************************)
LEMMA Matched ==
  ASSUME NEW d, NEW drv, wb_bus_match(d, drv)
  PROVE  driver' = IF For(drv, d) THEN [driver EXCEPT ![d] = drv] ELSE driver
BY DEF wb_bus_match, For

\* Noting the driver in a device that it is for changes no other driver's
\* intent.
LEMMA StillNoted ==
  ASSUME TablesDisjoint, BusType, BusOK, DriversOK, UNCHANGED <<image, looks>>,
         NEW d \in present, NEW drv \in Drivers,
         driver' = IF For(drv, d) THEN [driver EXCEPT ![d] = drv] ELSE driver
  PROVE  /\ driver' \in [Devices -> Drivers \cup {NoDriver}]
         /\ \A e \in Devices : driver'[e] # NoDriver => For(driver'[e], e)
         /\ \A e \in present : driver[e] # NoDriver => driver'[e] = driver[e]
<1>1. /\ driver \in [Devices -> Drivers \cup {NoDriver}]
      /\ present \subseteq Devices
  BY DEF DriversOK, DriverType
<1>2. \A e \in Devices : driver[e] # NoDriver => For(driver[e], e)
  BY DEF DriversOK, Noted
<1>3. CASE For(drv, d)
  <2>1. driver' = [driver EXCEPT ![d] = drv]
    BY <1>3
  <2>2. driver' \in [Devices -> Drivers \cup {NoDriver}]
    BY <1>1, <2>1
  <2>3. \A e \in Devices : driver'[e] # NoDriver => For(driver'[e], e)
    BY <1>1, <1>2, <1>3, <2>1
  <2>4. driver[d] # NoDriver => driver[d] = drv
    <3>1. driver[d] # NoDriver => driver[d] \in Drivers /\ For(driver[d], d)
      BY <1>1, <1>2
    <3> QED BY <1>3, <3>1, OneDriver DEF TypeOK, DriversOK
  <2> QED BY <1>1, <2>1, <2>2, <2>3, <2>4
<1>4. CASE ~For(drv, d)
  BY <1>1, <1>2, <1>4
<1> QED BY <1>3, <1>4

LEMMA Attaching ==
  ASSUME TablesDisjoint, BusType, BusOK, DriversOK, attach.dev \in present,
         device_attach
  PROVE  DriversOK'
<1> DEFINE d == attach.dev
<1>1. PICK drv \in attach.todo \cap Loaded :
        /\ attach' = [attach EXCEPT !.todo = @ \ {drv}]
        /\ wb_bus_match(d, drv)
        /\ IF wb_match_device(drv, Id(d))
           THEN wb_drv_probe(d, drv) ELSE UNCHANGED <<bound, held>>
  BY DEF device_attach
<1>2. /\ mode' = mode /\ visit' = visit /\ at' = at /\ present' = present
      /\ image' = image /\ looks' = looks /\ bound[d] = NoDriver
  BY DEF device_attach, Attached, bus, loads
<1>3. /\ drv \in Drivers /\ mode[drv] # "out"
      /\ mode[drv] \in {"attach", "probe", "in"}
  BY <1>1 DEF Loaded
<1>4. driver' = IF For(drv, d) THEN [driver EXCEPT ![d] = drv] ELSE driver
  BY <1>1, Matched
<1>5. \A a, e : For(a, e)' <=> For(a, e)
  BY <1>2, ForStays
<1> HIDE DEF d
<1>6. /\ driver' \in [Devices -> Drivers \cup {NoDriver}]
      /\ \A e \in Devices : driver'[e] # NoDriver => For(driver'[e], e)
      /\ \A e \in present : driver[e] # NoDriver => driver'[e] = driver[e]
  BY <1>2, <1>3, <1>4, StillNoted DEF d
<1>7. Noted'
  <2>1. \A a \in Drivers : at[a] # Gone =>
          mode[a] = "probe" /\ at[a] \in present /\ driver'[at[a]] = a
    <3>1. \A a \in Drivers : a # NoDriver
      BY BusAssumption
    <3> QED BY <1>6, <3>1 DEF DriversOK, Noted
  <2> QED BY <1>2, <1>5, <1>6, <2>1 DEF Noted
<1>8. /\ Owned' /\ bound' \in [Devices -> Drivers \cup {NoDriver}]
      /\ held' \in [Devices -> SUBSET Drivers]
      /\ \A e \in Devices : bound[e] # NoDriver => bound'[e] # NoDriver
      /\ For(drv, d) /\ drv \notin Failing => bound'[d] # NoDriver
  <2>1. CASE For(drv, d)
    <3>1. wb_drv_probe(d, drv)
      BY <1>1, <2>1 DEF For, d
    <3> QED BY <1>2, <1>3, <1>4, <2>1, <3>1, Probed DEF d
  <2>2. CASE ~For(drv, d)
    <3>1. bound' = bound /\ held' = held /\ driver' = driver
      BY <1>1, <1>4, <2>2 DEF For, d
    <3> QED BY <1>2, <2>2, <3>1 DEF DriversOK, DriverType, Owned
  <2> QED BY <2>1, <2>2
<1>9. DriverType'
  <2>1. attach' \in [dev : Devices, todo : SUBSET Drivers]
    BY <1>1 DEF DriversOK, DriverType
  <2> QED BY <1>2, <1>6, <1>8, <2>1 DEF DriversOK, DriverType
<1>10. Reached'
  <2> SUFFICES ASSUME NEW e \in present, NEW a \in Drivers \ Failing, For(a, e)
               PROVE  \/ bound'[e] # NoDriver
                      \/ mode[a] \in {"out", "detach"}
                      \/ attach'.dev = e /\ a \in attach'.todo
                      \/ mode[a] \in {"attach", "probe"} /\ e \in visit[a]
                      \/ at[a] = e
    BY <1>2, <1>5 DEF Reached
  <2>1. \/ bound[e] # NoDriver
        \/ mode[a] \in {"out", "detach"}
        \/ attach.dev = e /\ a \in attach.todo
        \/ mode[a] \in {"attach", "probe"} /\ e \in visit[a]
        \/ at[a] = e
    BY DEF DriversOK, Reached
  <2>2. attach'.dev = attach.dev /\ attach'.todo = attach.todo \ {drv}
        /\ e \in Devices
    BY <1>1 DEF DriversOK, DriverType
  <2>3. CASE attach.dev = e /\ a = drv
    BY <1>8, <2>3 DEF d
  <2> QED BY <1>8, <2>1, <2>2, <2>3
<1> QED BY <1>7, <1>8, <1>9, <1>10 DEF DriversOK

LEMMA Loading ==
  ASSUME DriversOK, NEW drv \in Drivers, wb_register_driver(drv)
  PROVE  DriversOK'
<1>1. /\ mode[drv] = "out" /\ mode' = [mode EXCEPT ![drv] = "attach"]
      /\ visit' = [visit EXCEPT ![drv] = present]
      /\ at' = at /\ attach' = attach /\ driver' = driver /\ held' = held
      /\ present' = present /\ bound' = bound
      /\ image' = image /\ looks' = looks
  BY DEF wb_register_driver, bus, core
<1>2. /\ mode' \in [Drivers -> {"out", "attach", "probe", "in", "detach"}]
      /\ visit' \in [Drivers -> SUBSET Devices]
      /\ mode'[drv] = "attach" /\ visit'[drv] = present
      /\ \A a \in Drivers :
           a # drv => mode'[a] = mode[a] /\ visit'[a] = visit[a]
  BY <1>1 DEF DriversOK, DriverType
<1>3. DriverType'
  BY <1>1, <1>2 DEF DriversOK, DriverType
<1>4. Noted'
  BY <1>1, <1>2, ForStays DEF DriversOK, Noted
<1>5. Owned'
  <2>1. \A d \in Devices : bound[d] # NoDriver => bound[d] \in Drivers
    BY DEF DriversOK, DriverType
  <2> QED BY <1>1, <1>2, <2>1 DEF DriversOK, Owned
<1>6. Reached'
  <2>1. \A a, d : For(a, d)' <=> For(a, d)
    BY <1>1, ForStays
  <2> QED BY <1>1, <1>2, <2>1 DEF DriversOK, Reached
<1> QED BY <1>3, <1>4, <1>5, <1>6 DEF DriversOK

LEMMA Visiting ==
  ASSUME TablesDisjoint, BusType, BusOK, DriversOK, NEW drv \in Drivers,
         driver_attach(drv)
  PROVE  DriversOK'
<1> DEFINE todo == visit[drv] \cap present
           d == Min(todo)
<1>1. d \in todo
  <2>1. todo \subseteq Nat
    BY BusAssumption DEF DriversOK, DriverType, Devices
  <2>2. todo # {}
    BY DEF driver_attach
  <2> QED BY <2>1, <2>2, Least
<1>2. /\ mode[drv] = "attach"
      /\ visit' = [visit EXCEPT ![drv] = todo \ {d}]
      /\ wb_bus_match(d, drv)
      /\ attach' = attach /\ present' = present
      /\ bound' = bound /\ held' = held
      /\ image' = image /\ looks' = looks
      /\ IF For(drv, d) THEN /\ mode' = [mode EXCEPT ![drv] = "probe"]
                             /\ at' = [at EXCEPT ![drv] = d]
         ELSE mode' = mode /\ at' = at
  BY DEF driver_attach, bus, For
<1>3. driver' = IF For(drv, d) THEN [driver EXCEPT ![d] = drv] ELSE driver
  BY <1>2, Matched
<1>4. todo \subseteq present /\ todo \subseteq visit[drv]
      /\ \A e \in visit[drv] \cap present : e \in todo
  OBVIOUS
<1> HIDE DEF d, todo
<1>5. d \in present /\ d \in Devices
  BY <1>1, <1>4 DEF DriversOK, DriverType
<1>6. /\ driver' \in [Devices -> Drivers \cup {NoDriver}]
      /\ \A e \in Devices : driver'[e] # NoDriver => For(driver'[e], e)
      /\ \A e \in present : driver[e] # NoDriver => driver'[e] = driver[e]
  BY <1>2, <1>3, <1>5, StillNoted
<1>7. \A a, e : For(a, e)' <=> For(a, e)
  BY <1>2, ForStays
<1>8. at[drv] = Gone
  BY <1>2 DEF DriversOK, Noted
<1>9. /\ mode' \in [Drivers -> {"out", "attach", "probe", "in", "detach"}]
      /\ at' \in [Drivers -> Devices \cup {Gone}]
      /\ visit' \in [Drivers -> SUBSET Devices]
      /\ visit'[drv] = todo \ {d}
      /\ \A a \in Drivers : a # drv => /\ mode'[a] = mode[a] /\ at'[a] = at[a]
                                       /\ visit'[a] = visit[a]
      /\ IF For(drv, d) THEN mode'[drv] = "probe" /\ at'[drv] = d
         ELSE mode'[drv] = "attach" /\ at'[drv] = Gone
  <2>1. todo \in SUBSET Devices
    BY <1>4 DEF DriversOK, DriverType
  <2> QED BY <1>2, <1>5, <1>8, <2>1 DEF DriversOK, DriverType
<1>10. DriverType'
  BY <1>2, <1>6, <1>9 DEF DriversOK, DriverType
<1>11. Noted'
  <2> SUFFICES ASSUME NEW a \in Drivers, at'[a] # Gone
               PROVE  /\ mode'[a] = "probe" /\ at'[a] \in present
                      /\ driver'[at'[a]] = a
    BY <1>2, <1>6, <1>7 DEF Noted
  <2>1. CASE a = drv
    <3>1. For(drv, d) /\ driver' = [driver EXCEPT ![d] = drv]
      BY <1>3, <1>9, <2>1
    <3>2. driver'[d] = drv
      BY <1>5, <3>1 DEF DriversOK, DriverType
    <3> QED BY <1>5, <1>9, <2>1, <3>1, <3>2
  <2>2. CASE a # drv
    <3>1. mode[a] = "probe" /\ at[a] \in present /\ driver[at[a]] = a
      BY <1>9, <2>2 DEF DriversOK, Noted
    <3>2. a # NoDriver
      BY BusAssumption
    <3> QED BY <1>6, <1>9, <2>2, <3>1, <3>2
  <2> QED BY <2>1, <2>2
<1>12. Owned'
  <2> SUFFICES ASSUME NEW e \in Devices
               PROVE  /\ held[e] = {bound[e]} \ {NoDriver}
                      /\ bound[e] # NoDriver =>
                           /\ e \in present /\ driver'[e] = bound[e]
                           /\ mode'[bound[e]] # "out"
    BY <1>2 DEF Owned
  <2>1. /\ held[e] = {bound[e]} \ {NoDriver}
        /\ bound[e] # NoDriver =>
             /\ e \in present /\ driver[e] = bound[e]
             /\ mode[bound[e]] # "out" /\ bound[e] \in Drivers
    BY DEF DriversOK, Owned, DriverType
  <2>2. \A a \in Drivers : mode[a] # "out" => mode'[a] # "out"
    BY <1>9
  <2> QED BY <1>6, <2>1, <2>2
<1>13. Reached'
  <2> SUFFICES ASSUME NEW e \in present, NEW a \in Drivers \ Failing, For(a, e)
               PROVE  \/ bound[e] # NoDriver
                      \/ mode'[a] \in {"out", "detach"}
                      \/ attach.dev = e /\ a \in attach.todo
                      \/ mode'[a] \in {"attach", "probe"} /\ e \in visit'[a]
                      \/ at'[a] = e
    BY <1>2, <1>7 DEF Reached
  <2>1. \/ bound[e] # NoDriver
        \/ mode[a] \in {"out", "detach"}
        \/ attach.dev = e /\ a \in attach.todo
        \/ mode[a] \in {"attach", "probe"} /\ e \in visit[a]
        \/ at[a] = e
    BY DEF DriversOK, Reached
  <2>2. CASE a # drv
    BY <1>9, <2>1, <2>2
  <2>3. CASE a = drv /\ e \in visit[drv]
    <3>1. e \in todo
      BY <1>4, <2>3
    <3>2. CASE e = d
      BY <1>9, <2>3, <3>2
    <3>3. CASE e # d
      BY <1>9, <2>3, <3>1, <3>3
    <3> QED BY <3>2, <3>3
  <2>4. CASE a = drv /\ e \notin visit[drv]
    <3>1. e # Gone
      BY CardBounds DEF DriversOK, DriverType, TypeOK
    <3> QED BY <1>2, <1>8, <2>1, <2>4, <3>1
  <2> QED BY <2>2, <2>3, <2>4
<1> QED BY <1>10, <1>11, <1>12, <1>13 DEF DriversOK

LEMMA Probing ==
  ASSUME BusType, DriversOK, NEW drv \in Drivers, driver_probe_device(drv)
  PROVE  DriversOK'
<1> DEFINE d == at[drv]
<1>1. /\ mode[drv] = "probe" /\ mode' = [mode EXCEPT ![drv] = "attach"]
      /\ at' = [at EXCEPT ![drv] = Gone]
      /\ IF d \in present /\ bound[d] = NoDriver
         THEN wb_drv_probe(d, drv) ELSE UNCHANGED <<bound, held>>
      /\ driver' = driver /\ attach' = attach /\ visit' = visit
      /\ present' = present /\ image' = image /\ looks' = looks
  BY DEF driver_probe_device, bus
<1>2. d \in present => /\ d \in Devices /\ driver[d] = drv /\ For(drv, d)
                       /\ driver' = [driver EXCEPT ![d] = drv]
  <2>1. Gone \notin Devices /\ drv # NoDriver
    BY CardBounds, BusAssumption DEF TypeOK, DriversOK
  <2>2. d \in present => d # Gone /\ d \in Devices
    BY <2>1 DEF DriversOK, DriverType
  <2>3. d \in present => driver[d] = drv /\ For(drv, d)
    BY <2>1, <2>2 DEF DriversOK, Noted
  <2>4. d \in present => driver' = [driver EXCEPT ![d] = drv]
    BY <1>1, <2>2, <2>3 DEF DriversOK, DriverType
  <2> QED BY <2>2, <2>3, <2>4
<1> HIDE DEF d
<1>3. /\ mode' \in [Drivers -> {"out", "attach", "probe", "in", "detach"}]
      /\ at' \in [Drivers -> Devices \cup {Gone}]
      /\ mode'[drv] = "attach" /\ at'[drv] = Gone
      /\ \A a \in Drivers : a # drv => mode'[a] = mode[a] /\ at'[a] = at[a]
  BY <1>1 DEF DriversOK, DriverType
<1>4. \A a \in Drivers : mode'[a] # "out" <=> mode[a] # "out"
  BY <1>1, <1>3
<1>5. /\ Owned' /\ bound' \in [Devices -> Drivers \cup {NoDriver}]
      /\ held' \in [Devices -> SUBSET Drivers]
      /\ \A e \in Devices : bound[e] # NoDriver => bound'[e] # NoDriver
      /\ d \in present /\ drv \notin Failing => bound'[d] # NoDriver
  <2>1. CASE d \in present /\ bound[d] = NoDriver
    <3>1. wb_drv_probe(d, drv)
      BY <1>1, <2>1
    <3> QED BY <1>1, <1>2, <1>4, <2>1, <3>1, Probed
  <2>2. CASE ~(d \in present /\ bound[d] = NoDriver)
    <3>1. bound' = bound /\ held' = held
      BY <1>1, <2>2
    <3>2. \A e \in Devices : bound[e] # NoDriver => bound[e] \in Drivers
      BY DEF DriversOK, DriverType
    <3>3. Owned'
      BY <1>1, <1>4, <3>1, <3>2 DEF DriversOK, Owned
    <3> QED BY <2>2, <3>1, <3>3 DEF DriversOK, DriverType
  <2> QED BY <2>1, <2>2
<1>6. DriverType'
  BY <1>1, <1>3, <1>5 DEF DriversOK, DriverType
<1>7. \A a, e : For(a, e)' <=> For(a, e)
  BY <1>1, ForStays
<1>8. Noted'
  BY <1>1, <1>3, <1>7 DEF DriversOK, Noted
<1>9. Reached'
  <2> SUFFICES ASSUME NEW e \in present, NEW a \in Drivers \ Failing, For(a, e)
               PROVE  \/ bound'[e] # NoDriver
                      \/ mode'[a] \in {"out", "detach"}
                      \/ attach.dev = e /\ a \in attach.todo
                      \/ mode'[a] \in {"attach", "probe"} /\ e \in visit[a]
                      \/ at'[a] = e
    BY <1>1, <1>7 DEF Reached
  <2>1. \/ bound[e] # NoDriver
        \/ mode[a] \in {"out", "detach"}
        \/ attach.dev = e /\ a \in attach.todo
        \/ mode[a] \in {"attach", "probe"} /\ e \in visit[a]
        \/ at[a] = e
    BY DEF DriversOK, Reached
  <2>2. e \in Devices
    BY DEF DriversOK, DriverType
  <2>3. CASE a = drv /\ at[a] = e
    BY <1>5, <2>3 DEF d
  <2> QED BY <1>1, <1>3, <1>5, <2>1, <2>2, <2>3
<1> QED BY <1>5, <1>6, <1>8, <1>9 DEF DriversOK

\* The driver has come to every device, or begins to go.
LEMMA ModeSteps ==
  ASSUME DriversOK, NEW drv \in Drivers,
         driver_registered(drv) \/ wb_unregister_driver(drv)
  PROVE  DriversOK'
<1>1. /\ mode[drv] \in {"attach", "in"}
      /\ at' = at /\ attach' = attach /\ driver' = driver /\ held' = held
      /\ present' = present /\ bound' = bound
      /\ image' = image /\ looks' = looks
  BY DEF driver_registered, wb_unregister_driver, bus, core
<1>2. /\ mode' \in [Drivers -> {"out", "attach", "probe", "in", "detach"}]
      /\ visit' \in [Drivers -> SUBSET Devices]
      /\ mode'[drv] \in {"in", "detach"}
      /\ mode'[drv] = "in" =>
           mode[drv] = "attach" /\ visit[drv] \cap present = {}
      /\ \A a \in Drivers :
           a # drv => mode'[a] = mode[a] /\ visit'[a] = visit[a]
  BY DEF driver_registered, wb_unregister_driver, bus, core, DriversOK,
     DriverType
<1>3. DriverType'
  BY <1>1, <1>2 DEF DriversOK, DriverType
<1>4. \A a, d : For(a, d)' <=> For(a, d)
  BY <1>1, ForStays
<1>5. Noted'
  BY <1>1, <1>2, <1>4 DEF DriversOK, Noted
<1>6. Owned'
  <2>1. \A d \in Devices : bound[d] # NoDriver => bound[d] \in Drivers
    BY DEF DriversOK, DriverType
  <2> QED BY <1>1, <1>2, <2>1 DEF DriversOK, Owned
<1>7. Reached'
  <2> SUFFICES ASSUME NEW e \in present, NEW a \in Drivers \ Failing, For(a, e)
               PROVE  \/ bound[e] # NoDriver
                      \/ mode'[a] \in {"out", "detach"}
                      \/ attach.dev = e /\ a \in attach.todo
                      \/ mode'[a] \in {"attach", "probe"} /\ e \in visit'[a]
                      \/ at[a] = e
    BY <1>1, <1>4 DEF Reached
  <2>1. \/ bound[e] # NoDriver
        \/ mode[a] \in {"out", "detach"}
        \/ attach.dev = e /\ a \in attach.todo
        \/ mode[a] \in {"attach", "probe"} /\ e \in visit[a]
        \/ at[a] = e
    BY DEF DriversOK, Reached
  <2> QED BY <1>1, <1>2, <2>1
<1> QED BY <1>3, <1>5, <1>6, <1>7 DEF DriversOK

LEMMA Detaching ==
  ASSUME TablesDisjoint, BusType, BusOK, DriversOK, NEW drv \in Drivers,
         driver_detach(drv)
  PROVE  DriversOK'
<1> DEFINE mine == {d \in present : bound[d] = drv}
<1>1. /\ mode[drv] = "detach" /\ drv # NoDriver
      /\ visit' = visit /\ at' = at /\ attach' = attach /\ driver' = driver
      /\ present' = present /\ image' = image /\ looks' = looks
  BY BusAssumption DEF driver_detach, bus
<1>2. \A a, d : For(a, d)' <=> For(a, d)
  BY <1>1, ForStays
<1>3. CASE mine # {}
  <2>1. PICK d \in mine : wb_drv_remove({d})
    BY <1>3 DEF driver_detach
  <2>2. mode' = mode
    BY <1>3 DEF driver_detach
  <2>3. /\ d \in present /\ d \in Devices /\ bound[d] = drv
        /\ driver[d] = drv /\ held[d] = {drv}
    BY <1>1 DEF DriversOK, DriverType, Owned
  <2>4. {e \in {d} : bound[e] # NoDriver} = {d}
    BY <1>1, <2>3
  <2>5. /\ bound' = [e \in Devices |-> IF e = d THEN NoDriver ELSE bound[e]]
        /\ held' = [e \in Devices |->
                      IF e = d THEN held[e] \ {driver[e]} ELSE held[e]]
    BY <2>1, <2>4 DEF wb_drv_remove
  <2>6. /\ held'[d] = {} /\ bound'[d] = NoDriver
        /\ \A e \in Devices :
             e # d => held'[e] = held[e] /\ bound'[e] = bound[e]
    BY <2>3, <2>5
  <2>7. DriverType'
    <3>1. /\ bound' \in [Devices -> Drivers \cup {NoDriver}]
          /\ held' \in [Devices -> SUBSET Drivers]
      BY <2>5 DEF DriversOK, DriverType
    <3> QED BY <1>1, <2>2, <3>1 DEF DriversOK, DriverType
  <2>8. Noted'
    BY <1>1, <1>2, <2>2 DEF DriversOK, Noted
  <2>9. Owned'
    BY <1>1, <2>2, <2>6 DEF DriversOK, Owned
  <2>10. Reached'
    <3> SUFFICES ASSUME NEW e \in present, NEW a \in Drivers \ Failing,
                        For(a, e)
                 PROVE  \/ bound'[e] # NoDriver
                        \/ mode[a] \in {"out", "detach"}
                        \/ attach.dev = e /\ a \in attach.todo
                        \/ mode[a] \in {"attach", "probe"} /\ e \in visit[a]
                        \/ at[a] = e
      BY <1>1, <1>2, <2>2 DEF Reached
    <3>1. CASE e = d
      <4>1. For(drv, d)
        BY <1>1, <2>3 DEF DriversOK, Noted
      <4>2. a = drv
        BY <2>3, <3>1, <4>1, OneDriver DEF TypeOK, DriversOK
      <4> QED BY <1>1, <4>2
    <3>2. CASE e # d
      <4>1. e \in Devices
        BY DEF DriversOK, DriverType
      <4> QED BY <2>6, <3>2, <4>1 DEF DriversOK, Reached
    <3> QED BY <3>1, <3>2
  <2> QED BY <2>7, <2>8, <2>9, <2>10 DEF DriversOK
<1>4. CASE mine = {}
  <2>1. /\ bound' = bound /\ held' = held
        /\ mode' = [mode EXCEPT ![drv] = "out"]
    BY <1>4 DEF driver_detach
  <2>2. /\ mode' \in [Drivers -> {"out", "attach", "probe", "in", "detach"}]
        /\ mode'[drv] = "out"
        /\ \A a \in Drivers : a # drv => mode'[a] = mode[a]
    BY <2>1 DEF DriversOK, DriverType
  <2>3. DriverType'
    BY <1>1, <2>1, <2>2 DEF DriversOK, DriverType
  <2>4. Noted'
    BY <1>1, <1>2, <2>2 DEF DriversOK, Noted
  <2>5. Owned'
    <3>1. \A d \in Devices : bound[d] # NoDriver =>
            bound[d] \in Drivers /\ bound[d] # drv
      BY <1>4 DEF DriversOK, DriverType, Owned
    <3> QED BY <1>1, <2>1, <2>2, <3>1 DEF DriversOK, Owned
  <2>6. Reached'
    BY <1>1, <1>2, <2>1, <2>2 DEF DriversOK, Reached
  <2> QED BY <2>3, <2>4, <2>5, <2>6 DEF DriversOK
<1> QED BY <1>3, <1>4

(***************************************************************************)
(* The list of the registered records, the newest first.                   *)
(***************************************************************************)
LEMMA NewestIs ==
  ASSUME NEW k \in Nat
  PROVE  /\ Newest(k) \in Seq(Nat) /\ Len(Newest(k)) = k
         /\ \A n \in 1..k : Newest(k)[n] = k + 1 - n
BY DEF Newest

LEMMA NewestEmpty ==
  ASSUME NEW k \in Nat
  PROVE  Newest(k) = <<>> <=> k = 0
<1>1. Newest(k) \in Seq(Nat) /\ Len(Newest(k)) = k
  BY NewestIs
<1> QED BY <1>1

LEMMA NewestMore ==
  ASSUME NEW k \in Nat
  PROVE  <<k + 1>> \o Newest(k) = Newest(k + 1)
<1> DEFINE a == <<k + 1>>
           s == Newest(k)
           t == Newest(k + 1)
<1>1. a \in Seq(Nat) /\ Len(a) = 1 /\ a[1] = k + 1
  OBVIOUS
<1>2. s \in Seq(Nat) /\ Len(s) = k /\ \A n \in 1..k : s[n] = k + 1 - n
  BY NewestIs
<1>3. /\ t \in Seq(Nat) /\ Len(t) = k + 1
      /\ \A n \in 1..k + 1 : t[n] = k + 2 - n
  <2>1. k + 1 \in Nat /\ \A n \in 1..k + 1 : (k + 1) + 1 - n = k + 2 - n
    OBVIOUS
  <2> QED BY <2>1, NewestIs
<1> HIDE DEF a, s, t
<1>4. /\ a \o s \in Seq(Nat) /\ Len(a \o s) = 1 + k
      /\ \A n \in 1..1 + k : (a \o s)[n] = IF n <= 1 THEN a[n] ELSE s[n - 1]
  <2>1. /\ a \o s \in Seq(Nat) /\ Len(a \o s) = Len(a) + Len(s)
        /\ \A n \in 1..Len(a) + Len(s) :
             (a \o s)[n] = IF n <= Len(a) THEN a[n] ELSE s[n - Len(a)]
    <3>1. a \in Seq(Nat) /\ s \in Seq(Nat)
      BY <1>1, <1>2
    <3> QED BY <3>1, ConcatProperties
  <2> QED BY <1>1, <1>2, <2>1
<1>5. ASSUME NEW n \in 1..1 + k PROVE (a \o s)[n] = t[n]
  <2>1. t[n] = k + 2 - n
    BY <1>3
  <2>2. CASE n = 1
    BY <1>1, <1>4, <2>1, <2>2
  <2>3. CASE n # 1
    <3>1. n - 1 \in 1..k /\ ~(n <= 1) /\ k + 1 - (n - 1) = k + 2 - n
      BY <2>3
    <3>2. (a \o s)[n] = s[n - 1]
      BY <1>4, <3>1
    <3> QED BY <1>2, <2>1, <3>1, <3>2
  <2> QED BY <2>2, <2>3
<1>6. 1 + k = k + 1
  OBVIOUS
<1>7. a \o s = t
  <2> DEFINE c == a \o s
  <2>1. /\ c \in Seq(Nat) /\ t \in Seq(Nat) /\ Len(c) = Len(t)
        /\ \A n \in 1..Len(c) : c[n] = t[n]
    BY <1>3, <1>4, <1>5, <1>6
  <2> HIDE DEF c
  <2>2. c = t
    BY <2>1, SeqEqual
  <2> QED BY <2>2 DEF c
<1> QED BY <1>7 DEF a, s, t

LEMMA NewestTail ==
  ASSUME NEW k \in Nat, k > 0
  PROVE  Head(Newest(k)) = k /\ Tail(Newest(k)) = Newest(k - 1)
<1> DEFINE s == Newest(k)
           t == Newest(k - 1)
           r == Tail(s)
<1>1. s \in Seq(Nat) /\ Len(s) = k /\ \A n \in 1..k : s[n] = k + 1 - n
  BY NewestIs
<1>2. /\ t \in Seq(Nat) /\ Len(t) = k - 1
      /\ \A n \in 1..k - 1 : t[n] = k - n
  <2>1. k - 1 \in Nat /\ \A n \in 1..k - 1 : (k - 1) + 1 - n = k - n
    OBVIOUS
  <2> QED BY <2>1, NewestIs
<1>3. s # <<>>
  BY NewestEmpty
<1> HIDE DEF s, t
<1>4. Head(s) = k
  BY <1>1, <1>3
<1>5. /\ r \in Seq(Nat) /\ Len(r) = k - 1
      /\ \A n \in 1..k - 1 : r[n] = s[n + 1]
  BY <1>1, <1>3, HeadTailProperties
<1> HIDE DEF r
<1>6. ASSUME NEW n \in 1..k - 1 PROVE r[n] = t[n]
  <2>1. n + 1 \in 1..k /\ k + 1 - (n + 1) = k - n
    OBVIOUS
  <2> QED BY <1>1, <1>2, <1>5, <2>1
<1>7. r = t
  BY <1>2, <1>5, <1>6, SeqEqual
<1> QED BY <1>4, <1>7 DEF s, t, r

LEMMA ListedTail ==
  ASSUME TypeOK, NEW k \in 0..MaxRecords, Listed(k), devices # <<>>
  PROVE  /\ Head(devices) = k /\ Tail(devices) = Newest(k - 1)
         /\ k \in Devices /\ k - 1 \in 0..MaxRecords
         /\ k - 1 \in 0..Len(image.records)
         /\ present \ {k} = {0} \cup 1..k - 1
<1>1. k \in Nat /\ k # 0
  BY NewestEmpty, CardBounds DEF Listed
<1>2. Head(devices) = k /\ Tail(devices) = Newest(k - 1)
  BY <1>1, NewestTail DEF Listed
<1>3. Len(image.records) \in Nat /\ MaxRecords \in Nat
  BY CardBounds
<1>4. present \ {k} = {0} \cup 1..k - 1
  BY <1>1 DEF Listed
<1> QED BY <1>1, <1>2, <1>3, <1>4 DEF Listed, Devices

(***************************************************************************)
(* The steps of the bus.                                                   *)
(***************************************************************************)
LEMMA DriverSteps ==
  ASSUME TablesDisjoint, IInv, \E drv \in Drivers : DriverStep(drv)
  PROVE  IInv'
<1>1. PICK drv \in Drivers : DriverStep(drv)
  OBVIOUS
<1>2. DriversOK'
  BY <1>1, Loading, Visiting, Probing, ModeSteps, Detaching
     DEF DriverStep, IInv
<1>3. UNCHANGED <<bus, attach, present>>
  BY <1>1 DEF DriverStep, wb_register_driver, driver_attach,
     driver_probe_device, driver_registered, wb_unregister_driver,
     driver_detach, core
<1>4. BusType' /\ BusOK' /\ Offered'
  BY <1>3 DEF IInv, BusType, BusOK, Offered, Listed, bus
<1> QED BY <1>2, <1>4 DEF IInv

LEMMA AttachStep ==
  ASSUME TablesDisjoint, IInv, device_attach
  PROVE  IInv'
<1>1. UNCHANGED <<bus, present>> /\ attach'.dev = attach.dev
      /\ attach.todo # {}
  BY DEF device_attach, Attached, IInv, DriversOK, DriverType
<1>2. attach.dev \in present
  <2>1. CASE busPc = "head"
    BY <2>1 DEF IInv, BusOK, Offered, Listed
  <2>2. CASE busPc = "added"
    <3>1. ptr \in 1..ptr
      BY BusAssumption DEF IInv, BusType
    <3> QED BY <2>2, <3>1 DEF IInv, BusOK, Offered
  <2> QED BY <1>1, <2>1, <2>2 DEF IInv, Offered
<1>3. DriversOK'
  BY <1>2, Attaching DEF IInv
<1>4. BusType' /\ BusOK' /\ Offered'
  BY <1>1 DEF IInv, BusType, BusOK, Offered, Listed, bus
<1> QED BY <1>3, <1>4 DEF IInv

\* The steps that register a device.
LEMMA RegisterBus ==
  ASSUME IInv, wb_register_bus
  PROVE  IInv'
<1>1. /\ busPc = "register" /\ devices' = <<>> /\ ndev' = 0 /\ ptr' = 1
      /\ image' = image /\ looks' = looks /\ firmware' = firmware
      /\ attach.todo = {} /\ present = {} /\ firmware
  BY DEF wb_register_bus, IInv, BusOK, Offered
<1>2. /\ MaxRecords \in Nat /\ 0 \in Devices
      /\ Len(image.records) \in Nat
  BY CardBounds DEF IInv, DriversOK, TypeOK
<1>3. Newest(0) = <<>> /\ {0} \cup 1..0 = {0}
  BY NewestEmpty
<1>4. BusType'
  BY <1>1, <1>2 DEF wb_register_bus, IInv, BusType
<1>5. CASE busPc' = "head" /\ device_register(0)
  <2>1. DriversOK' /\ present' = {0} /\ attach'.dev = 0
    BY <1>1, <1>2, <1>5, Registered DEF IInv, device_register
  <2>2. Listed(0)'
    BY <1>1, <1>2, <1>3, <2>1 DEF Listed
  <2> QED BY <1>1, <1>4, <1>5, <2>1, <2>2 DEF IInv, BusOK, Offered
<1>6. CASE busPc' = "release" /\ UNCHANGED <<attach, loads, core>>
  <2>1. DriversOK'
    BY <1>1, <1>6, Quiet DEF IInv
  <2>2. present' = {} /\ attach' = attach
    BY <1>1, <1>6 DEF core
  <2> QED BY <1>1, <1>4, <1>6, <2>1, <2>2 DEF IInv, BusOK, Offered
<1> QED BY <1>5, <1>6 DEF wb_register_bus

LEMMA RegisterDevice ==
  ASSUME IInv, wb_register_device
  PROVE  IInv'
<1>1. /\ busPc = "scan" /\ ptr <= Len(image.records)
      /\ devices' = devices /\ ndev' = ndev /\ ptr' = ptr
      /\ image' = image /\ looks' = looks /\ firmware' = firmware
      /\ attach.todo = {} /\ firmware
      /\ ndev = ptr - 1 /\ Listed(ndev)
  BY DEF wb_register_device, IInv, BusOK, Offered
<1>2. /\ MaxRecords \in Nat /\ Len(image.records) \in Nat
      /\ Len(image.records) <= MaxRecords /\ ptr \in Nat \ {0}
  BY CardBounds DEF IInv, DriversOK, TypeOK, BusType
<1>3. BusType'
  BY <1>1 DEF wb_register_device, IInv, BusType
<1>4. CASE busPc' = "added" /\ device_register(ptr)
  <2>1. ptr \in Devices
    BY <1>1, <1>2 DEF Devices
  <2>2. DriversOK' /\ present' = present \cup {ptr} /\ attach'.dev = ptr
    BY <1>1, <1>4, <2>1, Registered DEF IInv, device_register
  <2>3. present' = {0} \cup 1..ptr
    BY <1>1, <1>2, <2>2 DEF Listed
  <2> QED BY <1>1, <1>3, <1>4, <2>2, <2>3 DEF IInv, BusOK, Offered, Listed
<1>5. CASE busPc' = "error" /\ UNCHANGED <<attach, loads, core>>
  <2>1. DriversOK'
    BY <1>1, <1>5, Quiet DEF IInv
  <2>2. present' = present /\ attach' = attach
    BY <1>5 DEF core
  <2>3. ndev \in 0..MaxRecords /\ Listed(ndev)'
    BY <1>1, <1>2, <2>2 DEF Listed
  <2> QED BY <1>1, <1>3, <1>5, <2>1, <2>2, <2>3 DEF IInv, BusOK, Offered
<1> QED BY <1>4, <1>5 DEF wb_register_device

\* The steps that unregister one.
LEMMA UnregisterNext ==
  ASSUME IInv, busPc \in {"error", "exit"}, devices # <<>>,
         devices' = Tail(devices), device_unregister(Head(devices)),
         busPc' = busPc,
         UNCHANGED <<image, looks, ptr, firmware>>
  PROVE  IInv'
<1>1. PICK k \in 0..MaxRecords : Listed(k)
  BY DEF IInv, BusOK
<1>2. /\ Head(devices) = k /\ devices' = Newest(k - 1)
      /\ k \in Devices /\ k - 1 \in 0..MaxRecords
      /\ k - 1 \in 0..Len(image.records)
      /\ present \ {k} = {0} \cup 1..k - 1
  BY <1>1, ListedTail DEF IInv, DriversOK, TypeOK
<1>3. DriversOK' /\ present' = present \ {k} /\ attach' = attach
  BY <1>2, Unregistered DEF IInv
<1>4. Listed(k - 1)'
  BY <1>2, <1>3 DEF Listed
<1>5. BusType' /\ BusOK' /\ Offered'
  BY <1>2, <1>3, <1>4 DEF IInv, BusType, BusOK, Offered
<1> QED BY <1>3, <1>5 DEF IInv

LEMMA UnregisterLast ==
  ASSUME IInv, busPc \in {"error", "exit"}, devices = <<>>,
         busPc' = "unregister", UNCHANGED <<image, looks, ptr, firmware>>,
         UNCHANGED <<devices, attach, loads, core>>
  PROVE  IInv'
<1>1. PICK k \in 0..MaxRecords : Listed(k)
  BY DEF IInv, BusOK
<1>2. MaxRecords \in Nat
  BY BusAssumption
<1>3. k = 0
  BY <1>1, <1>2, NewestEmpty DEF Listed
<1>4. DriversOK'
  BY Quiet DEF IInv
<1>5. Listed(0)' /\ attach' = attach
  BY <1>1, <1>3 DEF Listed, core
<1> QED BY <1>4, <1>5 DEF IInv, BusType, BusOK, Offered

LEMMA UnregisterBus ==
  ASSUME IInv, unregister_bus_device
  PROVE  IInv'
<1>1. /\ busPc = "unregister" /\ busPc' = "release" /\ device_unregister(0)
      /\ UNCHANGED <<image, looks, ptr, devices, ndev, firmware>>
      /\ present = {0} \cup 1..0
  BY DEF unregister_bus_device, IInv, BusOK, Listed
<1>2. 0 \in Devices
  BY CardBounds DEF IInv, DriversOK, TypeOK
<1>3. DriversOK' /\ present' = present \ {0} /\ attach' = attach
  BY <1>1, <1>2, Unregistered DEF IInv
<1>4. present' = {}
  BY <1>1, <1>3
<1> QED BY <1>1, <1>3, <1>4 DEF IInv, BusType, BusOK, Offered

\* The scan lists the device that was registered.
LEMMA ScanNext ==
  ASSUME IInv, wb_scan_next
  PROVE  IInv'
<1>1. /\ busPc = "added" /\ busPc' = "scan" /\ Attached
      /\ devices' = <<ptr>> \o devices /\ ndev' = ndev + 1 /\ ptr' = ptr + 1
      /\ attach' = [attach EXCEPT !.todo = {}]
      /\ UNCHANGED <<image, looks, firmware, loads, core>>
      /\ ndev = ptr - 1 /\ ptr <= Len(image.records) /\ firmware
      /\ devices = Newest(ndev) /\ present = {0} \cup 1..ptr
  BY DEF wb_scan_next, IInv, BusOK
<1>2. /\ MaxRecords \in Nat /\ Len(image.records) \in Nat
      /\ Len(image.records) <= MaxRecords /\ ptr \in Nat \ {0}
  BY CardBounds DEF IInv, DriversOK, TypeOK, BusType
<1>3. DriversOK'
  BY <1>1, Quiet DEF IInv
<1>4. devices' = Newest(ptr)
  <2>1. ndev \in Nat /\ ptr = ndev + 1
    BY <1>1, <1>2
  <2> QED BY <1>1, <2>1, NewestMore
<1>5. ndev' = ptr /\ ptr' = ptr + 1 /\ ptr' \in 1..MaxRecords + 1
      /\ ndev' = ptr' - 1 /\ ndev' \in 0..Len(image.records)
  BY <1>1, <1>2
<1>6. Listed(ndev)'
  BY <1>1, <1>4, <1>5 DEF Listed, core
<1>7. attach'.todo = {}
  BY <1>1 DEF IInv, DriversOK, DriverType
<1>8. BusType'
  BY <1>1, <1>5 DEF IInv, BusType
<1> QED BY <1>1, <1>3, <1>5, <1>6, <1>7, <1>8 DEF IInv, BusOK, Offered

\* The steps that touch no device.
LEMMA ScanHead ==
  ASSUME IInv, wb_scan_head
  PROVE  IInv'
<1>1. /\ busPc = "head" /\ Attached
      /\ attach' = [attach EXCEPT !.todo = {}]
      /\ busPc' \in {"scan", "unregister"}
      /\ UNCHANGED <<image, looks, ptr, devices, ndev, firmware, loads, core>>
      /\ Listed(0) /\ ptr = 1 /\ ndev = 0
  BY DEF wb_scan_head, IInv, BusOK
<1>2. DriversOK'
  BY <1>1, Quiet DEF IInv
<1>3. Listed(0)' /\ attach'.todo = {} /\ ndev' = ptr' - 1
  BY <1>1 DEF Listed, core, IInv, DriversOK, DriverType
<1> QED BY <1>1, <1>2, <1>3 DEF IInv, BusType, BusOK, Offered

LEMMA QuietBus ==
  ASSUME IInv, fake_wb_bus_init \/ wb_scan_end \/ fake_wb_bus_exit
  PROVE  IInv'
<1>1. UNCHANGED <<image, looks, ptr, devices, ndev, attach, loads, core>>
  BY DEF fake_wb_bus_init, wb_scan_end, fake_wb_bus_exit
<1>2. DriversOK'
  BY <1>1, Quiet DEF IInv
<1>3. present' = present /\ attach' = attach
  BY <1>1 DEF core
<1>4. \A k : Listed(k)' <=> Listed(k)
  BY <1>1, <1>3 DEF Listed
<1>5. CASE fake_wb_bus_init
  BY <1>1, <1>2, <1>3, <1>5 DEF IInv, BusType, BusOK, Offered, fake_wb_bus_init
<1>6. CASE wb_scan_end
  BY <1>1, <1>2, <1>3, <1>4, <1>6
     DEF IInv, BusType, BusOK, Offered, wb_scan_end
<1>7. CASE fake_wb_bus_exit
  <2>1. /\ busPc = "in" /\ busPc' = "exit" /\ firmware' = firmware
    BY <1>7 DEF fake_wb_bus_exit
  <2>2. Listed(ndev)' /\ ndev \in 0..MaxRecords
    <3>1. Listed(ndev)
      BY <2>1 DEF IInv, BusOK
    <3>2. /\ MaxRecords \in Nat /\ Len(image.records) \in Nat
          /\ Len(image.records) <= MaxRecords
      BY CardBounds DEF IInv, DriversOK, TypeOK
    <3> QED BY <1>1, <1>3, <3>1, <3>2 DEF Listed
  <2> QED BY <1>1, <1>2, <1>3, <2>1, <2>2 DEF IInv, BusType, BusOK, Offered
<1> QED BY <1>5, <1>6, <1>7

LEMMA ReleaseFirmware ==
  ASSUME IInv, release_firmware
  PROVE  IInv'
<1>1. /\ busPc = "release" /\ busPc' = "out" /\ firmware' = FALSE
      /\ devices' = <<>> /\ ndev' = 0 /\ ptr' = 1
      /\ attach' = [dev |-> 0, todo |-> {}] /\ attach.todo = {}
      /\ UNCHANGED <<image, looks, loads, core>> /\ present = {}
  BY DEF release_firmware, IInv, BusOK, Offered
<1>2. DriversOK'
  BY <1>1, Quiet DEF IInv
<1>3. present' = {} /\ attach'.todo = {} /\ ptr' \in 1..MaxRecords + 1
  BY <1>1, BusAssumption DEF core
<1> QED BY <1>1, <1>2, <1>3 DEF IInv, BusType, BusOK, Offered

LEMMA BusSteps ==
  ASSUME TablesDisjoint, IInv, BusStep
  PROVE  IInv'
<1>1. CASE err_wbdev_register
  <2>1. UNCHANGED <<image, looks, ptr, firmware>> /\ busPc = "error"
    BY <1>1 DEF err_wbdev_register
  <2>2. CASE devices # <<>>
    BY <1>1, <2>1, <2>2, UnregisterNext DEF err_wbdev_register
  <2>3. CASE devices = <<>>
    BY <1>1, <2>1, <2>3, UnregisterLast DEF err_wbdev_register
  <2> QED BY <2>2, <2>3
<1>2. CASE wb_unregister_bus
  <2>1. UNCHANGED <<image, looks, ptr, firmware>> /\ busPc = "exit"
    BY <1>2 DEF wb_unregister_bus
  <2>2. CASE devices # <<>>
    BY <1>2, <2>1, <2>2, UnregisterNext DEF wb_unregister_bus
  <2>3. CASE devices = <<>>
    BY <1>2, <2>1, <2>3, UnregisterLast DEF wb_unregister_bus
  <2> QED BY <2>2, <2>3
<1> QED BY <1>1, <1>2, RegisterBus, AttachStep, ScanHead, RegisterDevice,
           ScanNext, QuietBus, UnregisterBus, ReleaseFirmware DEF BusStep

(***************************************************************************)
(* The theorems.                                                           *)
(***************************************************************************)
LEMMA Initially ==
  ASSUME Init
  PROVE  IInv
<1>1. MaxRecords \in Nat /\ 0 \in Devices
  BY BusAssumption DEF Devices
<1>2. BusType
  BY <1>1 DEF Init, BusType
<1>3. DriverType
  BY <1>1 DEF Init, DriverType
<1>4. BusOK /\ Offered
  BY DEF Init, BusOK, Offered
<1>5. Noted /\ Owned /\ Reached
  BY DEF Init, Noted, Owned, Reached
<1> QED BY <1>2, <1>3, <1>4, <1>5 DEF IInv, DriversOK

\* The inductive invariant holds, whatever is loaded in parallel, if no device
\* is for two drivers.
THEOREM Invariance == TablesDisjoint => (Spec => []IInv)
<1> SUFFICES ASSUME TablesDisjoint PROVE Spec => []IInv
  OBVIOUS
<1>1. Init => IInv
  BY Initially
<1>2. IInv /\ [Next]_vars => IInv'
  <2>1. IInv /\ Next => IInv'
    BY DriverSteps, BusSteps DEF Next
  <2>2. IInv /\ UNCHANGED vars => IInv'
    BY DEF IInv, BusType, BusOK, Listed, Offered, DriversOK, DriverType, Noted,
       Owned, Reached, For, Id, wb_match_device, vars, bus, loads, core
  <2> QED BY <2>1, <2>2
<1> QED BY <1>1, <1>2, PTL DEF Spec

\* The driver that set a device up is the one it is bound to, and is there,
\* whatever comes and goes; for tables of which no two are for one device.
THEOREM OwnerIsBound == TablesDisjoint => (Spec => []OneOwner)
<1> SUFFICES ASSUME TablesDisjoint PROVE Spec => []OneOwner
  OBVIOUS
<1>1. IInv => OneOwner
  <2>1. ASSUME IInv, NEW d \in Devices
        PROVE  /\ held[d] = {bound[d]} \ {NoDriver}
               /\ held[d] \subseteq {drv \in Drivers : mode[drv] # "out"}
    BY <2>1 DEF IInv, DriversOK, DriverType, Owned
  <2> QED BY <2>1 DEF OneOwner
<1> QED BY <1>1, Invariance, PTL

\* A loaded bus has registered the records from the first on, and one that
\* failed or is gone has left no device registered, set up or with firmware.
THEOREM NothingLeftBehind == TablesDisjoint => (Spec => []BusMatches)
<1> SUFFICES ASSUME TablesDisjoint PROVE Spec => []BusMatches
  OBVIOUS
<1>1. IInv => BusMatches
  <2> SUFFICES ASSUME IInv PROVE BusMatches
    OBVIOUS
  <2>1. ASSUME busPc = "in"
        PROVE  /\ present = {0} \cup ToSet(devices)
               /\ devices = [n \in 1..ndev |-> ndev + 1 - n]
               /\ ndev <= Len(image.records)
    <3>1. Listed(ndev)
      BY <2>1 DEF IInv, BusOK
    <3>2. Len(image.records) \in Nat
      BY CardBounds DEF IInv, DriversOK, TypeOK
    <3>3. ndev \in Nat /\ ndev <= Len(image.records)
      BY <3>1, <3>2 DEF Listed
    <3>4. ToSet(devices) = 1..ndev
      <4>1. ToSet(devices) = {ndev + 1 - n : n \in 1..ndev}
        BY <3>1 DEF ToSet, Listed, Newest
      <4>2. \A n \in 1..ndev : ndev + 1 - n \in 1..ndev
        BY <3>3
      <4>3. \A m \in 1..ndev : /\ ndev + 1 - m \in 1..ndev
                               /\ m = ndev + 1 - (ndev + 1 - m)
        BY <3>3
      <4> QED BY <4>1, <4>2, <4>3
    <3> QED BY <3>1, <3>3, <3>4 DEF Listed, Newest
  <2>2. ASSUME busPc = "out"
        PROVE  present = {} /\ ~firmware /\ \A d \in Devices : held[d] = {}
    <3>1. present = {} /\ ~firmware
      BY <2>2 DEF IInv, BusOK
    <3>2. \A d \in Devices : held[d] = {bound[d]} \ {NoDriver}
                             /\ (bound[d] # NoDriver => d \in present)
      BY DEF IInv, DriversOK, Owned
    <3> QED BY <3>1, <3>2
  <2> QED BY <2>1, <2>2 DEF BusMatches
<1> QED BY <1>1, Invariance, PTL

\* A device is bound once its driver is loaded, in whatever order both come,
\* if besides the tables are read as they are meant.
THEOREM NoDeviceMissed ==
  TablesDisjoint /\ TablesRead => (Spec => []NoneMissed)
<1> SUFFICES ASSUME TablesDisjoint, TablesRead PROVE Spec => []NoneMissed
  OBVIOUS
<1>1. IInv => NoneMissed
  <2> SUFFICES ASSUME IInv, NEW d \in present, NEW drv \in Drivers \ Failing,
                      mode[drv] = "in", Claims(drv, Id(d)),
                      attach.dev = d => Attached
               PROVE  bound[d] # NoDriver
    BY DEF NoneMissed
  <2>1. For(drv, d)
    <3>1. Id(d) \in Ids
      BY PresentIds DEF IInv, DriversOK, TypeOK
    <3>2. PICK n \in DOMAIN Table[drv] :
            LET e == Table[drv][n]
            IN  \/ e.class # NoClass /\ e.class = Id(d).class
                \/ e.vendor \in {AnyId, Id(d).vendor}
                   /\ e.device \in {AnyId, Id(d).device}
      BY DEF Claims
    <3> QED BY <3>1, <3>2 DEF TablesRead, For, wb_match_device
  <2>2. \/ bound[d] # NoDriver
        \/ attach.dev = d /\ drv \in attach.todo
        \/ at[drv] = d
    BY <2>1 DEF IInv, DriversOK, Reached
  <2>3. at[drv] # d
    <3>1. d # Gone
      BY CardBounds DEF IInv, DriversOK, DriverType, TypeOK
    <3> QED BY <3>1 DEF IInv, DriversOK, Noted
  <2>4. attach.dev = d /\ drv \in attach.todo => bound[d] # NoDriver
    BY DEF Attached, Loaded
  <2> QED BY <2>2, <2>3, <2>4
<1> QED BY <1>1, Invariance, PTL
==============================================================================
