------------------------------- MODULE CardBus -------------------------------
(***************************************************************************)
(* The bus side of a Wishbone card, shared by all open files of its master *)
(* device: pcie-wb/pcie_wb.c, pcie-wb/spec_wb.c, vme-wb/vme_wb_external.c. *)
(* A file executes records (etherbone_master_process, modelled in          *)
(* EtherboneMaster): each selects byte lanes and accesses addresses, and   *)
(* the cycle it runs in spans records and system calls.  Files are used by *)
(* threads of their own; on a PCIe card the interrupt handler and the      *)
(* slave device write the control register too.  WishboneBus is what the   *)
(* three drivers promise.  Byte order is that of a little endian host.     *)
(***************************************************************************)
EXTENDS Integers, FiniteSets

CONSTANTS
  Cards,      \* drivers: "pcie_wb", "spec_wb", "vme_wb"
  Files,      \* open files of the master device
  NoFile,     \* nobody
  Windows,    \* values of the upper address bits; 2^16 in the code
  Lows,       \* values of the lower address bits
  Bytes,      \* values of one byte lane
  Records     \* [be, ops, cyc]: a record some file may execute

Lane    == 0..3
Address == Windows \X Lows
Data    == [Lane -> Bytes]
Access  == [write : {TRUE}, addr : Address, data : Data]
             \cup [write : {FALSE}, addr : Address]

\* The masks wb_byteenable knows: one byte, a half word, the word.
Legal == {{0}, {1}, {2}, {3}, {0, 1}, {2, 3}, Lane}

ASSUME BusAssumption ==
  /\ Cards \subseteq {"pcie_wb", "spec_wb", "vme_wb"}
  /\ NoFile \notin Files /\ 0 \in Windows /\ 0 \in Bytes
  /\ \A r \in Records : /\ r.be \subseteq Lane /\ r.cyc \in BOOLEAN
                        /\ r.len \in Nat
                        /\ \A k \in 1..r.len : r.ops[k] \in Access

VARIABLES
  card,          \* the driver of the card
  owner,         \* holder of dev->mutex
  window_offset, \* dev->window_offset
  lanes,         \* dev->width, dev->shift, dev->low_addr
  hw_cyc, hw_int,\* bits of the control register: cycle line, interrupt
  hw_window,     \* the window register
  hw_lanes,      \* the byte select register of a VME card
  mem,           \* memory on the bus
  state,         \* of each file: "closed", "idle" or "cycle"
  pc, rec, k,    \* of each file: next step, record, access in the record
  intended,      \* history: memory as the records ask for it
  seen           \* history: what a file wrote and read in its open cycle

dev  == <<owner, window_offset, lanes>>
hw   == <<hw_cyc, hw_int, hw_window, hw_lanes, mem>>
file == <<state, pc, rec, k>>
vars == <<card, dev, hw, file, intended, seen>>

NoRecord == [be |-> Lane, cyc |-> FALSE, len |-> 0, ops |-> <<>>]

\* Whether the driver has a line to raise and a window to move.
HasControl == card # "spec_wb"

\* The state that probe leaves the card and the structure in.
Init ==
  /\ card \in Cards /\ hw_lanes = {}
  /\ owner = NoFile /\ window_offset = 0 /\ hw_window = 0
  /\ lanes = [width |-> 4, shift |-> 0, low_addr |-> 0]
  /\ hw_cyc = FALSE /\ hw_int = FALSE
  /\ mem = [a \in Address |-> [n \in Lane |-> 0]]
  /\ state = [f \in Files |-> "closed"] /\ pc = [f \in Files |-> "rest"]
  /\ rec = [f \in Files |-> NoRecord] /\ k = [f \in Files |-> 0]
  /\ intended = mem /\ seen = [f \in Files |-> {}]

Goto(f, at) == pc' = [pc EXCEPT ![f] = at]

(***************************************************************************)
(* The control register: the card changes a bit only if the mask bit that  *)
(* is written with it is set.                                              *)
(***************************************************************************)
WriteControl(bits, mask) ==
  /\ hw_cyc' = IF "cyc" \in mask THEN "cyc" \in bits ELSE hw_cyc
  /\ hw_int' = IF "int" \in mask THEN "int" \in bits ELSE hw_int

\* Mutant: both bits are written.
pcie_int_enable_all(on) ==
  /\ card = "pcie_wb"
  /\ WriteControl(IF on THEN {"int"} ELSE {}, {"int", "cyc"})
  /\ UNCHANGED <<card, dev, hw_window, hw_lanes, mem, file, intended, seen>>

\* By the interrupt handler of a PCIe card, or a reader of the slave device, at any time.
pcie_int_enable(on) ==
  /\ card = "pcie_wb"
  /\ WriteControl(IF on THEN {"int"} ELSE {}, {"int"})
  /\ UNCHANGED <<card, dev, hw_window, hw_lanes, mem, file, intended, seen>>

(***************************************************************************)
(* A file is opened, executes records and is closed.                       *)
(***************************************************************************)
char_master_open(f) ==
  /\ state[f] = "closed"
  /\ state' = [state EXCEPT ![f] = "idle"]
  /\ UNCHANGED <<card, dev, hw, pc, rec, k, intended, seen>>

\* The last byte of a record has arrived.
record(f, r) ==
  /\ state[f] \in {"idle", "cycle"} /\ pc[f] = "rest"
  /\ rec' = [rec EXCEPT ![f] = r] /\ k' = [k EXCEPT ![f] = 1]
  /\ Goto(f, IF state[f] = "idle" THEN "lock" ELSE "byteenable")
  /\ UNCHANGED <<card, dev, hw, state, intended, seen>>

\* Mutant: the caller does not wait for its turn.
wb_cycle_lock_free(f) ==
  /\ pc[f] = "lock"
  /\ owner' = f
  /\ Goto(f, "raise")
  /\ UNCHANGED <<card, window_offset, lanes, hw, state, rec, k, intended, seen>>

\* wb_cycle(1): take dev->mutex, not interruptibly, ...
wb_cycle_lock(f) ==
  /\ pc[f] = "lock" /\ owner = NoFile
  /\ owner' = f
  /\ Goto(f, "raise")
  /\ UNCHANGED <<card, window_offset, lanes, hw, state, rec, k, intended, seen>>

\* ... then raise the line.  On a spec card the mutex is all there is.
wb_cycle_raise(f) ==
  /\ pc[f] = "raise"
  /\ IF HasControl THEN WriteControl({"cyc"}, {"cyc"})
     ELSE UNCHANGED <<hw_cyc, hw_int>>
  /\ state' = [state EXCEPT ![f] = "cycle"]
  /\ Goto(f, "byteenable")
  /\ UNCHANGED <<card, dev, hw_window, hw_lanes, mem, rec, k, intended, seen>>

Lowest(be) == CHOOSE n \in be : \A m \in be : n <= m

\* The table of wb_byteenable.
Select(be) == [width |-> Cardinality(be), shift |-> 8 * Lowest(be),
               low_addr |-> Lowest(be)]

\* Where the record continues after n accesses.
Resume(f, n) ==
  IF n < rec[f].len THEN IF HasControl THEN "window" ELSE "access"
  ELSE IF rec[f].cyc THEN "drop" ELSE "rest"

\* A PCI driver ignores a mask that is not legal: the lanes stay as they
\* were.
wb_byteenable(f) ==
  /\ pc[f] = "byteenable" /\ card # "vme_wb"
  /\ lanes' = IF rec[f].be \in Legal THEN Select(rec[f].be) ELSE lanes
  /\ Goto(f, Resume(f, 0))
  /\ UNCHANGED <<card, owner, window_offset, hw, state, rec, k, intended, seen>>

\* A VME card is told any mask.
vme_byteenable(f) ==
  /\ pc[f] = "byteenable" /\ card = "vme_wb"
  /\ hw_lanes' = rec[f].be
  /\ Goto(f, Resume(f, 0))
  /\ UNCHANGED <<card, dev, hw_cyc, hw_int, hw_window, mem, state, rec, k,
                 intended, seen>>

Op(f) == rec[f].ops[k[f]]

\* The place an access means: a spec driver drops the upper address bits.
Place(f) == <<IF HasControl THEN Op(f).addr[1] ELSE 0, Op(f).addr[2]>>

\* Mutant: the driver forgets which window it has set.
wb_window_stale(f) ==
  /\ pc[f] = "window"
  /\ IF Op(f).addr[1] # window_offset
     THEN hw_window' = Op(f).addr[1]
     ELSE UNCHANGED hw_window
  /\ Goto(f, "access")
  /\ UNCHANGED <<card, dev, hw_cyc, hw_int, hw_lanes, mem, state, rec, k, intended, seen>>

\* Both accesses of a card with a window first move the window if the address is outside it.
wb_window(f) ==
  /\ pc[f] = "window"
  /\ IF Op(f).addr[1] # window_offset
     THEN hw_window' = Op(f).addr[1] /\ window_offset' = Op(f).addr[1]
     ELSE UNCHANGED <<hw_window, window_offset>>
  /\ Goto(f, "access")
  /\ UNCHANGED <<card, owner, lanes, hw_cyc, hw_int, hw_lanes, mem, state, rec,
                 k, intended, seen>>

\* Where it goes: the window the card is set to, if it has one.
Target(f) == <<IF HasControl THEN hw_window ELSE 0, Op(f).addr[2]>>

\* The bytes of the bus word that an access of the selected width touches.
Touched == IF card = "vme_wb" THEN hw_lanes
           ELSE lanes.low_addr .. lanes.low_addr + lanes.width - 1

\* How far the place of a byte on the bus is above its place in the data:
\* iowrite8, 16 or 32 of data >> shift at low_addr.
Above == IF card = "vme_wb" THEN 0 ELSE lanes.low_addr - (lanes.shift \div 8)

\* What a write of d leaves in word w.
Written(w, d) == [n \in Lane |-> IF n \in Touched THEN d[n - Above] ELSE w[n]]

\* Mutant: the value read is not shifted back.
Returned_unshifted(w) ==
  [n \in Lane |-> IF n + lanes.low_addr \in Touched
                  THEN w[n + lanes.low_addr] ELSE 0]

\* The value that a read of word w returns.
Returned(w) ==
  [n \in Lane |-> IF n + Above \in Touched THEN w[n + Above] ELSE 0]

\* What the record asked for; under a mask that is ignored, what is done.
Asked(f) ==
  IF card = "vme_wb" \/ rec[f].be \in Legal THEN rec[f].be ELSE Touched

Remember(f, d) ==
  seen' = [seen EXCEPT ![f] =
             {t \in seen[f] : t[1] # Place(f) \/ t[2] \notin Asked(f)}
               \cup {<<Place(f), n, d[n]>> : n \in Asked(f)}]

Accessed(f) == Goto(f, Resume(f, k[f])) /\ k' = [k EXCEPT ![f] = k[f] + 1]

wb_write(f) ==
  /\ pc[f] = "access" /\ Op(f).write
  /\ mem' = [mem EXCEPT ![Target(f)] = Written(@, Op(f).data)]
  /\ intended' = [intended EXCEPT ![Place(f)] =
                    [n \in Lane |-> IF n \in Asked(f)
                                    THEN Op(f).data[n] ELSE @[n]]]
  /\ Remember(f, Op(f).data)
  /\ Accessed(f)
  /\ UNCHANGED <<card, dev, hw_cyc, hw_int, hw_window, hw_lanes, state, rec>>

wb_read(f) ==
  /\ pc[f] = "access" /\ ~Op(f).write
  /\ Remember(f, Returned(mem[Target(f)]))
  /\ Accessed(f)
  /\ UNCHANGED <<card, dev, hw, state, rec, intended>>

\* wb_cycle(0): drop the line ...
wb_cycle_drop(f) ==
  /\ pc[f] = "drop"
  /\ IF HasControl THEN WriteControl({}, {"cyc"})
     ELSE UNCHANGED <<hw_cyc, hw_int>>
  /\ Goto(f, "unlock")
  /\ UNCHANGED <<card, dev, hw_window, hw_lanes, mem, state, rec, k, intended,
                 seen>>

\* Mutant: on a PCIe card only a record that ends its cycle gives the mutex
\* up, a close does not.
wb_cycle_unlock_record(f) ==
  /\ pc[f] = "unlock"
  /\ owner' = IF card = "pcie_wb" /\ state[f] = "closing" THEN owner ELSE NoFile
  /\ state' = [state EXCEPT ![f] = IF @ = "closing" THEN "closed" ELSE "idle"]
  /\ seen' = [seen EXCEPT ![f] = {}]
  /\ rec' = [rec EXCEPT ![f] = NoRecord]
  /\ Goto(f, "rest")
  /\ UNCHANGED <<card, window_offset, lanes, hw, k, intended>>

\* ... then let the next file in.
wb_cycle_unlock(f) ==
  /\ pc[f] = "unlock"
  /\ owner' = NoFile
  /\ state' = [state EXCEPT ![f] = IF @ = "closing" THEN "closed" ELSE "idle"]
  /\ seen' = [seen EXCEPT ![f] = {}]
  /\ rec' = [rec EXCEPT ![f] = NoRecord]
  /\ Goto(f, "rest")
  /\ UNCHANGED <<card, window_offset, lanes, hw, k, intended>>

\* A close in the middle of a cycle drops it.
char_master_release(f) ==
  /\ pc[f] = "rest" /\ state[f] \in {"idle", "cycle"}
  /\ IF state[f] = "cycle"
     THEN state' = [state EXCEPT ![f] = "closing"] /\ Goto(f, "drop")
     ELSE state' = [state EXCEPT ![f] = "closed"] /\ UNCHANGED pc
  /\ UNCHANGED <<card, dev, hw, rec, k, intended, seen>>

\* The steps of a call that is running.
Running(f) ==
  \/ wb_cycle_raise(f) \/ wb_byteenable(f) \/ vme_byteenable(f)
  \/ wb_window(f) \/ wb_write(f) \/ wb_read(f)
  \/ wb_cycle_drop(f) \/ wb_cycle_unlock(f)

Next ==
  \/ \E on \in BOOLEAN : pcie_int_enable(on)
  \/ \E f \in Files :
       \/ char_master_open(f)
       \/ \E r \in Records : record(f, r)
       \/ wb_cycle_lock(f)
       \/ Running(f)
       \/ char_master_release(f)

Spec == Init /\ [][Next]_vars

\* Threads run on; a mutex that is free again and again is had in the end
\* (its waiters are queued).  Nothing is asked of the user.
Fairness ==
  \A f \in Files : WF_vars(Running(f)) /\ SF_vars(wb_cycle_lock(f))

FairSpec == Spec /\ Fairness

(***************************************************************************)
(* Properties.                                                             *)
(***************************************************************************)
\* The values of the variables of a card and its files; in particular the
\* width that wb_read and wb_write switch on is always one they know.
TypeOK ==
  /\ card \in Cards /\ hw_lanes \subseteq Lane
  /\ owner \in Files \cup {NoFile}
  /\ window_offset \in Windows /\ hw_window \in Windows
  /\ lanes \in [width : {1, 2, 4}, shift : {0, 8, 16, 24}, low_addr : Lane]
  /\ {hw_cyc, hw_int} \subseteq BOOLEAN
  /\ mem \in [Address -> Data] /\ intended \in [Address -> Data]
  /\ state \in [Files -> {"closed", "idle", "cycle", "closing"}]
  /\ pc \in [Files -> {"rest", "lock", "raise", "byteenable", "window",
                       "access", "drop", "unlock"}]
  /\ rec \in [Files -> Records \cup {NoRecord}] /\ k \in [Files -> Nat]
  /\ seen \in [Files -> SUBSET (Address \X Lane \X Bytes)]

\* Between its raise and its drop a file is in its cycle.
InCycle(f) == /\ state[f] \in {"cycle", "closing"}
              /\ pc[f] # "unlock"

\* The cycle line, of a card that has one, is up exactly while one file, the
\* holder of the mutex, is in a cycle that may span many calls; nobody else
\* accesses the bus.
OneCycle ==
  /\ \A f \in Files : InCycle(f) => (HasControl => hw_cyc) /\ owner = f
  /\ hw_cyc => \E f \in Files : InCycle(f)
  /\ \A f \in Files : pc[f] \in {"window", "access"} => InCycle(f)

\* dev->window_offset, shared by all files, is what the card is set to.
WindowShadow == window_offset = hw_window

\* Every access reached the place and the bytes that its record asked for whatever
\* other files did to the window and the lanes in between.
AccessFaithful == mem = intended

\* A cycle is atomic: what a file wrote or read in its open cycle is still
\* there, so that it may read, modify and write.
Isolated ==
  \A f \in Files : state[f] = "cycle" =>
    \A t \in seen[f] : mem[t[1]][t[2]] = t[3]

\* The driver is an implementation of a Wishbone bus: the mutex is its turn,
\* the bytes behind the window its memory.
Bus == INSTANCE WishboneBus WITH
         Users <- Files, Nobody <- NoFile, Address <- Address, Lane <- Lane,
         Bytes <- Bytes, holder <- owner, memory <- mem, seen <- seen

ImplementsBus == Bus!Spec

\* If no file stays in its cycle for ever, every file that waits for the
\* bus gets it, although the wait is not interruptible.
NoStarvation ==
  (\A g \in Files : []<>(state[g] # "cycle")) =>
    \A f \in Files : pc[f] = "lock" ~> pc[f] # "lock"
=============================================================================
