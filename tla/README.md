# fpga-config-space: a TLA+ model of the Wishbone drivers and of SDBFS

This directory holds TLA+ modules that model the repository's two programs, TLC
configurations that check them on small instances, and TLAPS proofs about eight of the
nine models of code. `PROJECT.json` is the index: components, runs, mutants, the map from
definitions to source lines, findings, hazards and theorems.

* Run a model: `tlc -config EtherboneMaster.cfg MCEtherboneMaster`
* Check proofs: `tlapm EtherboneMasterProofs.tla`, and so the other modules named `…Proofs`

Contents: [1 the system](#1-the-system) · [2 modules](#2-the-modules-and-the-code) ·
[3 runs](#3-the-runs) · [4 fairness](#4-fairness) · [5 proofs](#5-the-proofs) ·
[6 disagreements](#6-where-code-and-documents-disagree) ·
[7 what is left out](#7-what-is-not-modelled) · [8 plan](#8-plan)

## 1 The system

The repository has two programs that meet in one record format (SDB), and the bus driver
that one of them replaced.

**Wishbone host drivers** (`pcie-wb/`, `vme-wb/`). A card carries an FPGA with a Wishbone
bus. `wishbone.c` gives user space two character devices per card. Through the *master*
device a user writes Etherbone records, which the driver executes on the bus and answers.
Through the *slave* device the FPGA asks and user space answers. The card drivers
(`pcie_wb.c`, `spec_wb.c`, `vme_wb_external.c`) implement the bus operations that
`wishbone.c` calls through `struct wishbone_operations`.

**SDBFS** (`sdbfs/`). A file system in an SDB image: a library used in user space and in
bare-metal code, tools (`gensdbfs`, `sdb-read`, `sdb-extract`), and a read-only file
system for Linux with two kinds of device modules.

**The historic bus driver** (`historic/driver/`). An earlier Wishbone bus for Linux: it
scans a card's records, registers a device for each, and binds drivers to them by id
table.

| component | state | operations | interacts with | what makes it correct |
|---|---|---|---|---|
| Etherbone master file (`wishbone.c`) | ring of bytes, three cursors, state header/idle/cycle | open, close, read, write, poll; the record interpreter | bus operations of the card; one `context->mutex` | the ring is never corrupted or stuck; every complete record executed once, in order, and answered; the cycle line balanced |
| Etherbone slave file (`wishbone.c`) | `rbuf`, `wbuf`, negotiated, `pending_err`, `data` | open, close, read, write, poll | request queue of the card; woken by the interrupt handler | each request answered exactly once; framing kept; no wake-up lost |
| Card queue and interrupt (`pcie_wb.c`) | request queue, interrupt enable, MSI | `wb_request`, `wb_reply`, `irq_handler`, `pcie_int_enable` | slave file, shared interrupt line | as above |
| Card bus access (`pcie_wb.c`, `spec_wb.c`, `vme_wb_external.c`) | `dev->mutex`, cached window, width/shift/low_addr, control register | `wb_cycle`, `wb_byteenable`, `wb_write`, `wb_read` | every master file of the card; the interrupt handler | cycles exclude each other; each access reaches its own address and bytes; nobody waits for ever |
| Registry (`wishbone.c`) | list of cards, minor numbers, devices, module resources | module init and exit, `wishbone_register`, `wishbone_unregister` | card drivers, the kernel's device model | numbers unique and found again; failure leaves nothing behind |
| Binding to a card (the same files) | what was taken: regions, mappings, interrupt, bus | probe, its fail labels, remove | PCI or VME core, interrupt handler, users | nothing leaks; nobody finds the card gone |
| sdbfs library (`sdbfs/lib`) | `struct sdbfs`: scan position per level, open file, read offset | scan, open, find, read, close | storage mapped or by a method | the scan returns the image's records; open and read give the right bytes |
| gensdbfs | tree of entries, output file | place, write | its reader, the library | what is read back is what was put in |
| sdbfs in the kernel (`sdbfs/kernel`) | device list, superblock, inodes, directory arrays | register, mount, unmount, lookup, readdir, read | VFS, device modules | mounted devices stay; names, listings and data are the image's |
| Historic bus driver (`historic/driver`) | the bus's list of devices, `wb_dev->driver`, what Linux has bound | scan, match, probe, remove, register and unregister bus, device, driver | Linux's driver core, the drivers' modules | a device belongs to one driver, none is missed, a failed scan leaves nothing |
| wishbone-serial | USB port | open, close | USB core | see [7](#7-what-is-not-modelled) |

**What is hard to test.** System calls of several files interleave at one card whose lock
is held *between* calls. An interrupt handler changes a register that the cycle line
shares, without a lock, and races a thread that is about to sleep. Streams are cut at any
byte, wrap in a ring, and may fault half way. Probe and registration take steps that may
each fail. Positions in images are relative at one level and absolute at the next. Modules
unload while a mount looks for its device. `PROJECT.json` lists forty such hazards at
their lines, with the properties that watch them or the reason why none does.

## 2 The modules and the code

| module | models | checked by |
|---|---|---|
| `EtherboneWords` | the words of a stream and, as reference, what a stream of records means (bus operations) and what its answer is | used by EtherboneMaster |
| `EtherboneMaster` | one open master file | `master`, proofs |
| `EtherbonePipe` | what a master file promises its user: a tape of bytes, accepted, executed and taken in order | `master` (ImplementsPipe), proofs |
| `EtherboneSlave` | the slave file, the card's queue, its interrupt | `slave`, proofs |
| `CardBus` | files sharing the bus of one card, PCIe, SPEC or VME | `bus`, proofs |
| `WishboneBus` | what the bus operations promise: one user in a cycle, accesses that reach their bytes | `bus` (ImplementsBus), proofs |
| `WishboneRegistry` | the registry and module init/exit | `registry`, proofs |
| `CardDriver` | binding of pcie_wb, spec_wb and vme_wb | `card_driver`, proofs |
| `SdbfsLib` | library, sdb-read, sdb-extract | `sdbfs_lib`, proofs |
| `Gensdbfs` | image generator | `gensdbfs`, `gensdbfs_tail` |
| `SdbfsKernel` | kernel file system over sdb-fakedev or sdb-iomem | `sdbfs_kernel`, `sdbfs_kernel_long`, proofs |
| `WbBus` | the historic bus, its scan and its drivers | `historic`, `historic_shared`, proofs |
| `MC…` | constants of the instances | |
| `EtherboneMasterProofs`, `EtherboneSlaveProofs`, `CardBusProofs`, `WishboneRegistryProofs`, `CardDriverProofs`, `SdbfsLibProofs`, `SdbfsKernelProofs`, `WbBusProofs` | theorems | tlapm |

An action has the name of the function it models, or of the function and the step. A
definition whose name ends in `_something` and whose comment says *mutant* is a wrong
version of the definition that follows; `PROJECT.json` says which property notices it.

**EtherboneMaster.** `state`, `sent`, `processed`, `received` and `buf` are the fields of
`etherbone_master_context`; cursors count bytes modulo twice the ring, as in
`wishbone.h`. A byte is `<<word, n>>`, so that a word put together from bytes of different
words is seen as garbled. `pc` is where the holder of `context->mutex` is. A write copies
and then runs `etherbone_master_process`: `process_probe` answers the probe,
`process_record` executes one complete record and answers it in place, `process_done`
moves `processed`. Unread input bytes may be taken for any header in `Lookalikes`. A fault
while copying (`Copies`, on the streams in `Faulty`) leaves old bytes in the ring and moves
`received` all the same, because the code ignores the result. `bus`, `out`, `fed`, `taken`
are histories.

**EtherbonePipe** is what is left of the master file when ring, cursors and walk are taken
away: a tape without end, of which at most `Size` bytes are on their way. `EtherboneMaster`
maps its ring to it (`Tape`: the byte at position p of the stream is in the ring at p modulo
its size); bytes between `processed` and the walk are executed already. A pipe loses,
repeats and reorders nothing, executes no byte twice, and never alters an answer before it
is read.

**EtherboneSlave.** Threads of one process; `pc` and `caller` say which call has the mutex
and where it is. `wb_request` is two steps (dequeue, enable the interrupt), and poll
registers and looks in two; the card and the handler run in between. The interrupt is a
level gated by `int_en` on a shared line, or a message; `msi` is chosen at the start.
The values of requests are abstracted away, replies carry `data`. A user sends messages of
whole records; `Cuts` says which byte offsets may start one.

**CardBus.** The state of a card (`dev`), its registers and memory (`hw`), and of each file
its call; `card`, the driver, is chosen at the start. `record` stands for the last byte of a
record arriving; the accesses of the record follow one by one. `dev->mutex` is taken in one
call and given up in a later one. A PCIe card has a cycle line, a window and an interrupt
bit that share one register; a SPEC card has none of these, so upper address bits are
dropped; a VME card has a line, a window and a register for the byte mask. `intended` and
`seen` are histories: memory as the records ask for it, and what a file saw in its cycle.
`WriteControl`: a bit changes only if its mask bit is set, which is how the code uses the
register.

**WishboneBus** is what a caller of `struct wishbone_operations` may rely on: between
`cycle(1)` and `cycle(0)` it has the bus alone, each access changes or returns exactly the
bytes of its address and mask. `CardBus` implements it for each driver; what an access
returns is mapped from `seen`.

**WishboneRegistry.** Each card is a driver instance that registers and unregisters;
`holder` is `wishbone_mutex`. The four publications (two cdevs, two devices) are steps that
may fail, with the exits of the code. Module init and exit are walked step by step too: each
allocation names the one after it (`Allocated`) and the label that its failure jumps to
(`NotAllocated`); each label and each line of the exit frees one resource and falls through
to the next (`Frees`, `Onward`). `max_devices` is a constant, although the module parameter
can be written while the module is loaded.

**CardDriver.** `pcie_probe`, `spec_probe`, `vme_probe`, and the labels, failures and removes
of each, are the orders in the code; the actions walk along them. The handler runs and users
open whenever the code lets them. `vme_probe` returns 0 after two of its failures
(`Swallowed`): the card is then *lost*, and the model stops there.

**SdbfsLib.** `fs` is `struct sdbfs`. Addresses count records. `sdbfs_scan` is one operator
with the code's cases (restart, enter a bridge, next record, go up). A loop over it is one
step per record, so that tools may stop half way. `Contents` is the reference: the tree
of records in preorder with absolute addresses. It is a function on parts of directories
(`Part`: a level, a place, a base, a number of records left): the first record of the part,
what it leads to (`Under`), the rest.

**Gensdbfs.** The recursive passes `alloc_storage` and `write_sdb` with an explicit stack;
addresses count bytes; `last` wraps modulo `ULONG`. The reference reads the image the way
`sdbfs_scan` does.

**SdbfsKernel.** Device module (`owner`: sdb-fakedev or sdb-iomem; load, one turn of its
loops per step, unload), mount, unmount with the delayed `sdbfs_put`, lookup in two steps
(`iget_locked` makes an inode that others wait for), readdir, read turn by turn, reclaiming
inodes. The kernel holds the directory's mutex over lookup and readdir.

* A mount is several steps (`mount`): `get_by_name` goes down the list one device per step
  and holds no lock, `fill_super` then calls `try_module_get` on what was found. Devices come
  and go in between. `devlist` is a set: `list_add` puts a device at the head, so its order is
  that of the numbers, from the last down.
* Addresses count bytes. `INO` adds 2 and `OFFSET` clears the four lowest bits, as in
  `sdbfs-int.h`: what `sdbfs_iget` takes for the record at an address (`Taken`) is another
  stretch of bytes if the address is not a multiple of 16. `Dirs` tells a directory by the
  address of its first record and by what the addresses in its records are relative to.
* `sdbfs_alloc_inode` leaves `nfiles` and `files` unset: a new inode has one of `Leftovers`
  there, and `own` (a history) tells whether the array is its own.
* An entry that readdir gives is a record and a number, and the number is that of the
  directory's first record for all of them: `offset` is not moved in the loop.
* `undefined` is set, and the model stops, at the first use of memory that is gone or was
  never set: a step of the mount's walk at a device that was unregistered (whose links are
  poisoned) or is memory of a module that is gone; a lookup or listing in an array that is
  not the inode's; freeing such an array. Of all that happens before, the properties speak.

**WbBus.** The bus module goes through `busPc`; each driver module through `mode`. Linux's
part is external: it asks `wb_bus_match` for each pair of a device and a driver, without the
device's lock when a driver is loaded (`driver_attach`), and calls probe under it
(`driver_probe_device`), unless the device is bound by then. `driver` is the field that the
match writes, `bound` what Linux believes, `held` the history of which drivers were probed
and not removed. The bus is a device on the same bus type and is matched too; what its
memory looks like as a device (`looks`) is arbitrary.

## 3 The runs

Every run but the three marked *violation* passes. For each property of a passing run
there is a mutant, a plausible slip in the code, that TLC finds by that property.

| run | instance | states | shows |
|---|---|---|---|
| `master` | ring of 32 bytes, records of up to 7 words, 48 streams, calls of 1 and 16 bytes; one stream whose copies may fault after 6 bytes | 275 000 | RingOrder, NoWedge, ReplyFaithful, BusFaithful, CycleBalanced, ImplementsPipe, Delivered |
| `slave` | 7 messages, 3 greetings, writes of 3 and 10 bytes, two requests, both interrupt modes | 930 000 | AnsweredOnce, BuffersFit, Framed, SleeperNotified, SleeperWakes |
| `bus` | each of the three cards, two files, two windows, five records | 212 000 | OneCycle, AccessFaithful, Isolated, ImplementsBus, NoStarvation |
| `registry` | four cards, three numbers | 11 800, up to symmetry | ModuleClean, InOrder, Published, RefusedOnlyWhenFull |
| `card_driver` | one of three drivers, bound twice, three users | 1 900 | NothingHeld, CardReachable, InterruptHandled |
| `sdbfs_lib` | four images, two uses, mapped or by method | 8 000 | ScanInOrder, OpenFindsFirst, ReadFaithful, CallReturns |
| `gensdbfs` | 225 trees, three device sizes | 97 000 | TablesReadBack, FilesReadBack, AreaOwned, DataFits |
| `sdbfs_kernel` | sdb-fakedev with a wrong and a nested image, or sdb-iomem with one at an odd address whose name is given twice; two processes, a module loaded twice, three mounts or opens, clean and used inodes, short and long reads | 219 000 | DevicePinned, NamesRight, ListingComplete, ReadExact, CallReturns |
| `historic` | three drivers with disjoint tables, three cards, a bus that does or does not look like a device | 1 009 000 | OneOwner, BusMatches, NoneMissed |
| `gensdbfs_tail` | *violation* | | see 6 |
| `sdbfs_kernel_long` | *violation* | | see 6 |
| `historic_shared` | *violation* | | see 6 |

What each driver of a card, and the master file, implement is checked as a property of the
same runs: `ImplementsBus` is `WishboneBus` with CardBus's state put in, `ImplementsPipe` is
`EtherbonePipe` with the ring read as a tape.

**Why the bounds are enough.**

* *Master.* The ring is 32 bytes and the longest record 28, so the longest record
  just fits, as in the code (`MaxRecord <= RING_SIZE`): full and empty ring, records that
  wrap at each word and an incomplete record in a full ring all occur. Writes of one byte
  give every cut; 16 is longer than the free space in many states. One stream is three
  times the ring. Ring size, record size and stream are arbitrary in the proofs.
* *Slave.* 3 and 10 bytes cut messages inside headers and values and over record ends, and
  add up to every message but a bare greeting of 8 bytes; one is greeted with a record
  behind it. Two
  outstanding requests are enough to answer the wrong one or one too many.
* *Bus.* Two files are enough for every conflict over the mutex, lanes and window; the
  masks contain a whole word, halves, a byte and one that the driver refuses. The proofs
  hold for any number of files.
* *Registry.* Four cards for three numbers: full, refused, gaps at each place.
* *Card.* Bound twice, so that something left by the first binding is met by the second.
* *Library.* Levels up to `SDBFS_DEPTH` = 3; directories of up to five records, where the
  format allows 65535 (`MaxRecords`); bridges in the middle, last, leading nowhere,
  and into themselves; two uses in a row so that the second meets what the first left.
* *gensdbfs.* Three levels, sizes around the block size, empty files and directories.
* *Kernel.* Two processes: the third can only repeat what one of them does. The nested image
  has a subdirectory, a file cut by the end of the image and one beyond it, and before it in
  the order of the list there is one that holds no directory; sdb-fakedev finds its images'
  directories at address 0. sdb-iomem is given an area whose
  directory is at address 8, under a name that is taken. The module may be loaded twice
  (`MaxLoads`), so that a mount that began with the first load meets the second. Three
  mounts and opens together (`MaxUses`): a mount, and two uses of it, or two mounts and one.
  `UsedInodes`: the memory of a new inode is clean, or has the array of one that was freed.
  `Kbuf` is 2 for 16 in the code; reads of 2 and 3 bytes are one turn and two.
* *Historic bus.* A card with the devices of two drivers; one with a gap between them and a
  device that is claimed by its class; one that is no card. Three drivers, one of which may
  fail: any two steps of two drivers and the bus meet.

**What the passing runs assume of their inputs.** Streams that can be copied consist of
records. Library callers ask for whole names and for offsets within the file, and records
are read reliably. gensdbfs gets a power of two for its block size; its passing trees have
no directory whose last file is one byte longer than whole blocks and no records at the very
end of a device (both are findings or listed in 6). In the kernel, no record is in two
directories (`DirsApart`). Historic drivers have tables that do not overlap. A card's driver goes when no file is open, which the module
reference count ensures for module removal.

## 4 Fairness

* `master`: the holder of the mutex goes on (WF); a user who keeps calling read and write
  gets each through (SF: waiters of a mutex are queued). Nobody has to close.
* `slave`: interrupts are delivered, the handler ends, the mutex holder goes on, a woken
  thread runs (WF each). Nothing is asked of the user.
* `bus`: running calls go on (WF); a mutex that is free again and again is had in the end
  (SF). `NoStarvation` has the condition that no user stays in a cycle for ever: the code
  does not force one to end it.
* `sdbfs_lib`, `sdbfs_kernel`: a call that has begun runs on (WF).

## 5 The proofs

**EtherboneMasterProofs**, for every ring size that is a multiple of 4 and holds the
longest record, every stream, lengths of calls and places of faults (`RingAssumption`):

* `Invariance`: `IInv` is inductive. It is `TypeOK`, `HeadersOK` (what may be taken for a
  header has counts in range, so a record is at most `MaxRecord`), `UserOK` (what was
  accepted is a prefix of the stream), `ControlOK` (which step goes with which state, and
  less than `MaxRecord` bytes are unprocessed between calls), `RingOrder` and `WalkInStep`.
  RingOrder alone is not inductive: `process_done` moves `processed` by `size - left`,
  which only the walk's invariant bounds.
* `TypeCorrect`, `RingOrdered`, `WalkStaysInStep` follow. `NeverWedged` uses ControlOK: less
  than a record is unprocessed, so the ring is readable or writable.
* `AnswersAreStable` (an action property, `AnswersStable`): a write copies only to free
  bytes, and a record touches only its own; both by distances between cursors (`Offset`,
  `WriteKeeps`, `RecordKeeps`).
* `StreamStaysIntact`: if copies do not fault, unprocessed bytes are the user's.
* `CyclesBalanced`: cycle calls alternate, every access is inside a cycle, and one is open
  exactly when `state` says so. The invariant is about the whole history `bus`: an appended
  call is judged by `CycleUp` of its end, earlier ones keep theirs.

The ring arithmetic is done once, in lemmas about `RING_POS` and `RING_INDEX` (`PosCases`,
`Distances`, `Advance`, …), which turn the modulus into cases for the SMT solver.

The refinement, under the same assumptions: `PipeImplemented`, the file implements the
abstract pipe. It needs no invariant beyond `IInv` and `StreamIntact`: `Counts` derives how
far the reader and the executed part are on the tape from the distances between the
cursors, and `Behind` where in the ring a byte of the tape lies. Then each action is a step
of the pipe or a stutter, one lemma each: a write appends (`WriteAccepts`), a record or the
probe executes, `process_done` changes nothing that the pipe sees, a read takes (`ReadTakes`),
an open starts over. It rests on `Invariance` and `StreamStaysIntact`.

What the stream means: `BusIsFaithful` and `RepliesAreFaithful`. The code walks over
records in a ring, in pieces; `EtherboneWords` walks over the whole stream.

* A function defined by recursion has to be shown to exist before anything follows from its
  definition. `WalkExists` does it once for every walk that goes strictly forward: take the
  least k such that the function exists on all arguments at least k far, and show that k is
  0. Only the least-number principle is used (`Least`), not induction over an operator.
  From it come the equations that unfold each reference by one record, and `WalkType`.
* The invariant is `Faithful`: the bytes executed end where a record of the stream starts
  (`AtRecord`); however much of the stream comes, what it means is the history `bus` and then
  what the records from there on mean (`Executed`), and so for the answers, byte for byte,
  in the ring or read already (`AnsweredSoFar`); between calls no complete record is left
  (`CaughtUp`). Stated by what remains, a step unfolds the reference at its front.
  Each action keeps it: a record in the ring is the record of the stream by
  `StreamStaysIntact`, its answer replaces it in place, later records and earlier answers are
  not touched.
* `StreamsParse` is a hypothesis: a stream consists of records, that is, a set of places
  exists that has the first and with each the next. A word that is no header where one is
  due would be taken for whatever `Lookalikes` allows, and has no meaning to compare with.
  The MC module assumes it of its streams, so that TLC evaluates it.

**CardBusProofs**, for any number of files, windows and records and each driver
(`BusAssumption`): `Invariance` of TypeOK, `ControlOK` (which steps belong to which state),
`Owned` (who is past the lock owns `dev->mutex`, and the line, where there is one, is up
exactly in between), `Prepared` (the lanes are those of the running record, the window that
of its access), `WindowShadow`, `AccessFaithful`, `SeenOK`. `OneCycleAtATime`,
`WindowIsShadowed`, `AccessesAreFaithful`, `CyclesAreIsolated`, `TypeCorrect` follow.
`AccessFaithful` needs Prepared and that nobody else moves lanes or window while a file owns
the mutex; the shift and width tables are computed mask by mask (`Selected`, `Transfer`).
`BusImplemented`: each driver implements `WishboneBus`. Taking and dropping the line begin
and end the cycle, an access is one of the abstract bus by AccessFaithful and SeenOK, every
other step stutters.

**EtherboneSlaveProofs**, for any number of requests, any set of messages of whole records,
any lengths of calls, both interrupt modes (the ASSUME of EtherboneSlave): `Invariance` of
TypeOK, ControlOK (which step goes with which call and which thread), AnsweredOnce,
BuffersFit, `WakeUp` and `Frame`.

* `RequestsAnsweredOnce`: needs ControlOK, as what is owed is kept in `pending_err`, in the
  step between dequeue and count, or in release's loop variable.
* `BuffersNeverOverrun`: a header is acted on as soon as it is complete, so `wbuf` is
  shorter than its record or is a bare header.
* `RecordsStayFramed`: `Framed` speaks of states between calls only. `Frame` extends it to
  each step of the write loop: where in the message the record in `wbuf` began.
* `NoWakeUpLost`: SleeperNotified speaks of a sleeper. `WakeUp` extends it to the steps
  before: a poller that found nothing, and sleeps or is about to, has the interrupt armed
  (`Armed`: the next request will raise one), or the handler runs and will wake it.

**WishboneRegistryProofs**, for any number of cards and `max_devices`: `Invariance`.
`ListedOK` says which steps have a card in the list, `Spaced` that numbers ascend and are at
least the position, `GapFound` what the search has established for the holder of the mutex,
`OwnNumber` and `PublishedOK` what is published at each step of registering, undoing and
unregistering. `HeldAt` says
for each step of module init, of its labels and of module exit exactly what is held there:
from it `ModuleLeavesNothing` follows, that no label frees what is not held and nothing is
left at the end. Then `ListInOrder` (an insertion in the gap keeps the
order, as does a removal), `PublishedAsListed`, and `RefusedWhenFull`, an action property:
when the search runs out, the list is gapless up to the last number.

**CardDriverProofs**, for each of the three drivers and any set of users: `Invariance` has a
part for each phase. `Probing`, `Unwinding`, `Going`, `Bound`, `Gone`, `Lost` say what is
held at each position of the driver's tables, `Opened` and `Enabled` what users and the
interrupt add. `NothingLeftHeld`, `CardStaysReachable`, `InterruptIsHandled` follow. The
tables of labels and removals are finite; the proof goes through them entry by entry.

**WbBusProofs**, for any number of drivers, tables and cards with at most `MaxRecords`
records. `TablesDisjoint` is a hypothesis: no device matches two drivers. The code does not
see to it, and `historic_shared` shows what happens otherwise. Under it `Noted` (a driver
noted in a device is for it) and `Owned` (a device is set up by the driver it is bound to,
which is the one noted) are inductive together with the steps of the bus (`BusOK`) and of
the drivers (`DriversOK`): `OwnerIsBound`, `NothingLeftBehind`. The latter needs the
hypothesis as well: without it remove is called for the wrong driver, and the right one's
setup outlives the bus. `NoDeviceMissed` needs `Reached` (a device is bound, or each driver
that is for it will still come to it) and `TablesRead`: no entry of a table is misread
because of the entry before it (section 6).

**SdbfsLibProofs**, for any set of images, any depth, keys, buffers and uses, mapped storage
or a method (`SdbfsLibAssumption`; `ImageAssumption`: directories count the record that
starts them, files are not shorter than nothing, an image does not start with a bridge).

* The reference is a tree, listed by recursion. `TreeExists` shows that the listing exists,
  as `WalkExists` does for walks, for any parts that have a rank which falls below and after
  them; `ListingUnfolds` applies it: the level first, then the records left.
* `Stacked` says what the four arrays of `struct sdbfs` stand for: what comes, from each
  level, when all below it is done. `ToCome` is what is below the current record, then that.
  A scan that goes on returns the first of what is to come and leaves the rest
  (`ScanGoesOn`), whether it enters a directory (`Entering`), meets a bridge that leads
  nowhere, takes the next record or goes up (`EntryIsNext`, `GoesUp`); one that starts
  returns the first of all, whatever the arrays held (`ScanStarts`).
* `Invariance`: `Scanned` (what was returned and what is to come is what the image
  contains), `Chosen` (an open has passed by only what does not match, and stopped at what
  does), `Reading` (`read_offset` is where the last read ended, within the file), `Fresh`
  (sdb-extract finds no record of an earlier scan). ScanInOrder alone is not inductive: it
  does not say where the scan goes on.
* `ScansInOrder` follows without hypotheses. `FirstIsFound` and `ReadsAreFaithful` have
  `NamesWhole`: no name asked for is only the first words of the name of a record. The code
  does not see to it (`glue.c:204`, section 6); the MC module assumes it.

**SdbfsKernelProofs**, for any images whose directories are whole (`ImageAssumption`: counts
within the image, bridges that lead to directories), any number of processes, any room and
buffers.

* `DeviceInvariance`, `DevicesStay`: without hypotheses. `Turning`, `Backed` and `Kept` say
  what each position of the init and exit loops has registered and mapped, and which
  references exist; a module that is referred to is coming or live. `Sought` is about a mount
  under way: while the module it began with is coming or live, the device it is at is in the
  list. That is what makes the device it found still be there when `try_module_get` succeeds:
  a module that has begun to go refuses, and one that is gone is the undefined case.
* `MemoryInvariance`: without hypotheses. Every inode is what `sdbfs_iget` takes for the
  record at its number (`Made`); its array is that of its directory, or none, or what was in
  memory (`Filled`); each process is at an inode that is there, and an inode being made
  belongs to the one process that makes it (`Making`). `InMemory` is what lets `Evict` go.
* `NamesLeadRight` has `DirsApart`: no record is in two directories. An inode's number
  is the address of its record, so a record reached from two directories has one inode,
  which counts addresses from the first of them that was used. Where a directory starts at a
  multiple of 16, all its records do, and `Taken` is the record (`Aligned`); for others
  NamesRight only says which names exist.
* `ListingsAreComplete`: without hypotheses. What a process has is the first `pos` entries of
  the listing, wherever it stopped and whoever filled the array.
* `ReadsAreExact`: without hypotheses. `Repeats` is about calls of any length: what the turns
  store repeats with the size of the kernel's buffer. `Reading` follows `done` and `buf` while
  no call was longer than that buffer, where the one turn may end short at the end of the
  image; `ReadFaithful`, which says the same of all calls, is what `sdbfs_kernel_long` refutes.

All four are about the behaviour up to the first use of memory that is gone or was never set.

The hypotheses hold of the passing runs: the MC modules assume them, so that TLC evaluates
them.

**Only model-checked.** Liveness (Delivered, SleeperWakes, NoStarvation, CallReturns): it
needs ENABLED. All of gensdbfs (TablesReadBack, FilesReadBack, AreaOwned, DataFits): its
passes carry an explicit stack over a tree, twice, and what the second writes must be
compared with what the first placed and a third walk reads back. The method of
SdbfsLibProofs would carry over, with an invariant for each pass; it has not been done.

## 6 Where code and documents disagree

Three disagreements have a run that shows them (`findings` in `PROJECT.json`):

* `sdbfs_kernel_long`: `sdbfs_read` reads at `start + *offp` in every turn of its loop and
  moves `*offp` only after it (`sdbfs-file.c:41`), so a read of more than 16 bytes repeats
  the first 16.
* `gensdbfs_tail`: the address of a directory's last byte is taken for its size
  (`gensdbfs.c:382`), so the next file may be placed on that byte.
* `historic_shared`: `wb_bus_match` notes the driver in the device as soon as the tables
  match, whoever the device is bound to (`historic/driver/wishbone.c:339`), and probe and
  remove call the driver noted. `fakeadc` and `wb_1wire` have the same table: the second to
  be loaded is noted in devices that the first was probed with.

Others were met while modelling and are kept out of the passing runs by their inputs:

| code | disagrees with |
|---|---|
| `gensdbfs.c:399`: `addr_last` of a subdirectory's record is one less than its last byte (same cause as above) | `sdbfs.in:401` "the last byte encompassed by any files" |
| `gensdbfs.c:385`: the records of a subdirectory with `position` stay at the next place, only its base moves | `sdbfs.in:461` "the address where you'll find the SDB records" |
| `gensdbfs.c:579`, `584`: only file data counts for the device size: records past the end are not noticed, and the filling byte may hit the last record | `sdbfs.in:301` "will verify that data fits the requested size" |
| `gensdbfs.c:462`: space reserved after the last file is not written | `sdbfs.in:398` "The trailing space is filled with zeroes" |
| `glue.c:204`: a name matches a record whose name goes on after a blank | `sdbfs.in:219` "open a file according to its name" |
| `access.c:33`: a zero-based file system is read through a method it need not have | `sdbfs.in:170`, `libsdbfs.h:56` "zero is a valid data pointer" |
| `sdb-extract.c:195`: `new` has no value at first use (modelled: `extract_first` may crash) | its comment at 194 |
| `sdbfs-inode.c:193`: `nfiles` and `files` of a new inode are not set, so a directory may be listed from, and an inode free, the array of one that is gone (modelled: `Leftovers`, `undefined`) | `sdbfs.in:739` |
| `sdbfs-core.c:88`: a second mount shows the first device whatever name it gives (modelled in `Mount`) | `sdbfs.in:721` |
| `sdb-extract.c:75`: `create_file` ignores the base of the directory, so files of subdirectories get other bytes (modelled in `create_file`) | `sdbfs.in:650` "creates a directory with the contents of the filesystem" |
| `spec_wb.c:326`: the card stays enabled and bus master after removal (`Left` in CardDriver) | its comment at 328 |
| `historic/driver/wishbone.c:311`: the device is read from the table only for entries without a vendor; others are compared with that of an earlier entry, or 0 (modelled in `CarriedDevice`) | `wishbone.h` of the historic driver: "Vendor ID", "Device ID" of an entry |
| `historic/driver/wishbone.c:158`: without memory for a device the scan ends, and the bus is registered without it and those after it (modelled in `wb_scan_end`) | its comment at 241 "All devices on the bus" |

Other risks without a document that forbids them are among the hazards: a mount that walks the
list of devices while the device module goes (`sdbfs-client.c:24`, modelled: `undefined`);
inode numbers that keep addresses only up to 16 bytes, so that at an entry point that is no
multiple of 16 `sdbfs_iget` takes other bytes for the record (`sdbfs-int.h:20`, modelled in
`OFFSET`; NamesRight asks nothing of the inodes there); entries of a listing that all have
the number of the first record (`sdbfs-inode.c:131`, modelled in `EntryOf`); the deadlock of
one thread with two files (`pcie_wb.c:63`), files that stay open while the card goes,
negative counts for offsets past the end (`access.c:31`), references put twice when a mount
runs out of memory (`sdbfs-core.c:62`), inodes left locked after a failed read
(`sdbfs-inode.c:269`), reads of files in subdirectories at relative addresses
(`sdbfs-file.c:28`; the manual says that subdirectories are not supported there), block
sizes that are not powers of two (`gensdbfs.c:43`). On a VME card: labels that fall through,
0 returned for a failure, the control window left mapped and the bus registered
(`vme_wb_external.c:498`–`531`); every card asks for the interrupt `vector_num`, which is
how many vectors were given, so a second card fails and its labels free the handler of the
first (`vme_wb_external.c:507`, `518`); `init_ctrl_reg` resets the window register after
users may have moved it (`vme_wb_external.c:513`). sdb-iomem leaves an area mapped whose
name is taken (`sdb-iomem.c:118`, in the model). In the historic driver: a device is
unregistered, and freed, before it is taken off the list (`wishbone.c:289`), and freed
directly after `device_register` failed (`wishbone.c:229`); the bus, on the same bus type,
is cast to a device (`wishbone.c:331`); `wb_onewire_probe` ignores a failure.

## 7 What is not modelled

* `SleeperWakes` says that a sleeping thread is woken, not that it gets the request: another
  thread may have taken it by then.
* `AccessFaithful` compares with the bytes an access asks for. For a mask that the PCI cards
  refuse, the code leaves the lanes of the record before, and there the comparison is with
  what it touches: lanes that are stale for such a mask are not noticed, a stale window is.
* The historic bus ignores the result of `wb_read_cfg` (`historic/driver/wishbone.c:142`):
  the model's reads succeed, and each table ends at a record without the magic, as those of
  `wb_cfggen` do.
* VME cards: setting up the CR/CSR space is one step; interrupt vectors shared by several
  cards, and what happens to a card that is lost after its probe returned 0, are listed in 6.
* wishbone-serial: two USB messages around the port's open and close; the state is the USB
  core's.
* The historic bus driver's own init and exit, what its drivers do with their devices
  (`wb_1wire`'s bit banging, for instance), `wb_cfggen`, which writes a table from text.
* The list of file systems of the library, fstat; fwrite, which the manual says is missing.
* Byte order, option and configuration parsing, printing, build files: no state.
* Out of memory in the kernel file system and failed reads of records: what the code does
  then is listed in 6.

## 8 Plan

Done: the master file and the abstract pipe it implements; the slave; the bus of the three
cards and the abstract bus they implement; registry; binding of the three cards; SDBFS
library, generator, kernel file system over both device modules; the historic bus. Proofs of
the safety properties of all of these but the generator, and of both refinements.

Next, in this order:

1. Proofs: gensdbfs, whose `alloc_storage` places what does not overlap (AreaOwned) before
   what is read back; refusals of the SPEC and VME drivers as action properties; the
   hypotheses of WbBusProofs narrowed to the drivers that are loaded.
2. The composition of several master files (EtherbonePipe) with WishboneBus: what the
   answers are when other files change the memory between records.
3. Failed reads of records in SdbfsKernel, the library's list of file systems, the round trip
   from Gensdbfs to SdbfsLib, several VME cards that share a vector.
