--------------------------- MODULE SdbfsKernelProofs ---------------------------
(***************************************************************************)
(* Proofs about SdbfsKernel, for every set of images, device modules and   *)
(* processes: what is mounted stays, names lead to what the image says,    *)
(* listings are complete, and reads store the bytes that they should.      *)
(***************************************************************************)
EXTENDS SdbfsKernel, SequenceTheorems, WellFoundedInduction, TLAPS

(***************************************************************************)
(* The device module and its devices.                                      *)
(***************************************************************************)
MountRec ==
  [step : {"none", "find", "get"}, sd : Devs \cup {NoDev},
   name : DOMAIN Image \cup {""}, load : Nat]

DeviceType ==
  /\ owner \in Owners
  /\ module \in {"out", "coming", "live", "going"}
  /\ turn \in Nat
  /\ fw \in [Devs -> BOOLEAN] /\ ready \in [Devs -> BOOLEAN]
  /\ devlist \subseteq 1..Len(Fsimg)
  /\ refs \in Nat /\ puts \in Nat /\ sb \in Devs \cup {NoDev}
  /\ mount \in MountRec /\ bound \in [loads : Nat, uses : Nat]

\* The turn is at a name; a device that is listed was not taken back yet.
Turning ==
  /\ module \in {"coming", "going"} => turn \in 1..Len(Fsimg)
  /\ module = "going" => devlist \subseteq turn..Len(Fsimg)
  /\ module = "out" => devlist = {}

\* A listed device has what its files are read from, and is known as ready.
Backed ==
  \A d \in devlist : fw[d] /\ (owner = "sdb-iomem" => ready[d])

\* Whoever mounted a device keeps the module, which keeps its devices.
Kept ==
  /\ refs = puts + (IF sb = NoDev THEN 0 ELSE 1)
  /\ refs # 0 => module \in {"coming", "live"} /\ devlist # {}
  /\ sb # NoDev => sb \in devlist

\* A mount that looks for its device is at one of the list, unless the module
\* is gone, or going, or was loaded anew; the one it found has the name.
Sought ==
  mount.step # "none" =>
    /\ sb = NoDev /\ mount.load <= bound.loads
    /\ module \in {"coming", "live"} /\ mount.load = bound.loads =>
         mount.sd \in devlist
    /\ mount.step = "get" => Fsimg[mount.sd] = mount.name

DeviceOK == DeviceType /\ Turning /\ Backed /\ Kept /\ Sought

LEMMA GivenFacts ==
  ASSUME NEW o \in Owners
  PROVE  /\ Given[o] \in Seq(DOMAIN Image) /\ Len(Given[o]) \in Nat \ {0}
         /\ 1..Len(Given[o]) \subseteq Devs /\ NoDev \notin Devs
         /\ \A d \in 1..Len(Given[o]) : Given[o][d] \in DOMAIN Image
<1>1. \A q \in Owners : Given[q] \in Seq(DOMAIN Image) /\ Given[q] # <<>>
                        /\ DOMAIN Given[q] = 1..Len(Given[q])
                        /\ Len(Given[q]) \in Nat \ {0}
  BY SdbfsKernelAssumption, EmptySeq
<1>2. NoDev \notin Devs
  BY <1>1 DEF Devs, NoDev
<1>3. 1..Len(Given[o]) \subseteq Devs
  BY <1>1 DEF Devs
<1> QED BY <1>1, <1>2, <1>3

LEMMA NoMountFacts == NoMount \in MountRec /\ NoMount.step = "none"
<1>1. /\ "" \in DOMAIN Image \cup {""} /\ NoDev \in Devs \cup {NoDev} /\ 0 \in Nat
      /\ "none" \in {"none", "find", "get"}
  OBVIOUS
<1> QED BY <1>1 DEF NoMount, MountRec

LEMMA DeviceInit == Init => DeviceOK
<1> SUFFICES ASSUME Init PROVE DeviceOK
  OBVIOUS
<1>1. DeviceType
  BY NoMountFacts DEF Init, DeviceType
<1>2. Turning /\ Backed /\ Kept
  BY DEF Init, Turning, Backed, Kept
<1>3. Sought
  BY NoMountFacts DEF Init, Sought
<1> QED BY <1>1, <1>2, <1>3 DEF DeviceOK

\* What leaves the module, its devices and its references alone.
Still == UNCHANGED <<modvars, sbvars>>
         /\ (UNCHANGED bound \/ bound' = [bound EXCEPT !.uses = @ + 1])

LEMMA DeviceStill == DeviceOK /\ Still => DeviceOK'
<1> SUFFICES ASSUME DeviceOK, Still PROVE DeviceOK'
  OBVIOUS
<1> USE DEF DeviceOK
<1>1. bound' \in [loads : Nat, uses : Nat] /\ bound'.loads = bound.loads
  BY DEF Still, DeviceType
<1>2. DeviceType'
  BY <1>1 DEF DeviceType, Still, modvars, sbvars, Fsimg
<1>3. Turning' /\ Backed' /\ Kept' /\ Sought'
  BY <1>1 DEF Turning, Backed, Kept, Sought, Still, modvars, sbvars, Fsimg
<1> QED BY <1>2, <1>3

\* So does a mount that finds no device.
LEMMA DeviceUnmounted ==
  DeviceOK /\ UNCHANGED <<modvars, refs, puts, sb, bound>> /\ mount' = NoMount
    => DeviceOK'
<1> SUFFICES ASSUME DeviceOK, UNCHANGED <<modvars, refs, puts, sb, bound>>,
                    mount' = NoMount
             PROVE  DeviceOK'
  OBVIOUS
<1> USE DEF DeviceOK
<1>1. DeviceType'
  BY NoMountFacts DEF DeviceType, modvars, Fsimg
<1>2. Turning' /\ Backed' /\ Kept' /\ Sought'
  BY NoMountFacts DEF Turning, Backed, Kept, Sought, modvars, Fsimg
<1> QED BY <1>1, <1>2

LEMMA DeviceLoad == DeviceOK /\ Load => DeviceOK'
<1> SUFFICES ASSUME DeviceOK, Load PROVE DeviceOK'
  OBVIOUS
<1> USE DEF DeviceOK
<1>1. devlist = {} /\ refs = 0 /\ owner \in Owners
  BY DEF Load, Turning, Kept, DeviceType
<1>2. UNCHANGED <<refs, puts, sb, mount>>
      /\ bound' \in [loads : Nat, uses : Nat] /\ bound'.loads = bound.loads + 1
  BY DEF Load, sbvars, DeviceType
<1>3. DeviceType'
  BY <1>2 DEF Load, DeviceType, Fsimg
<1>4. Turning' /\ Backed'
  BY <1>1, GivenFacts DEF Load, Turning, Backed, Fsimg
<1>5. Kept'
  BY <1>1, <1>2 DEF Load, Kept
<1>6. Sought'
  <2>1. mount.load \in Nat /\ bound.loads \in Nat
    <3>1. mount \in MountRec /\ bound \in [loads : Nat, uses : Nat]
      BY DEF DeviceType
    <3> QED BY <3>1 DEF MountRec
  <2>2. mount.load <= bound.loads =>
          mount.load <= bound'.loads /\ mount.load # bound'.loads
    BY <1>2, <2>1
  <2> QED BY <1>2, <2>1, <2>2 DEF Load, Sought, Fsimg
<1> QED BY <1>3, <1>4, <1>5, <1>6

LEMMA DeviceFakedevInit == DeviceOK /\ fakedev_init => DeviceOK'
<1> SUFFICES ASSUME DeviceOK, fakedev_init PROVE DeviceOK'
  OBVIOUS
<1> USE DEF DeviceOK
<1>1. /\ owner \in Owners /\ turn \in 1..Len(Fsimg) /\ Len(Fsimg) \in Nat
      /\ 1..Len(Fsimg) \subseteq Devs /\ Fsimg' = Fsimg
  BY GivenFacts DEF DeviceType, Turning, Fsimg, fakedev_init
<1>2. devlist' = devlist \/ devlist' = devlist \union {turn}
  BY DEF fakedev_init, sdbfs_register_device
<1>3. /\ module' \in {"coming", "live"} /\ module = "coming"
      /\ module' = "coming" => turn < Len(Fsimg)
  BY DEF fakedev_init, Turned
<1>4. turn' = turn + 1 /\ owner' = owner /\ ready' = ready /\ refs' = refs
      /\ puts' = puts /\ sb' = sb /\ mount' = mount /\ bound' = bound
  BY DEF fakedev_init, Turned, sbvars
<1>5. fw' \in [Devs -> BOOLEAN]
  BY <1>1 DEF fakedev_init, DeviceType
<1>6. DeviceType'
  <2>1. devlist' \subseteq 1..Len(Fsimg')
    BY <1>1, <1>2 DEF DeviceType
  <2> QED BY <2>1, <1>1, <1>3, <1>4, <1>5 DEF DeviceType
<1>7. Turning'
  BY <1>1, <1>3, <1>4 DEF Turning
<1>8. Backed'
  BY <1>1 DEF fakedev_init, Backed, DeviceType, sdbfs_register_device
<1>9. Kept'
  BY <1>2, <1>3, <1>4 DEF Kept
<1>10. Sought'
  BY <1>1, <1>2, <1>3, <1>4 DEF Sought
<1> QED BY <1>6, <1>7, <1>8, <1>9, <1>10

LEMMA DeviceSdbmemInit == DeviceOK /\ sdbmem_init => DeviceOK'
<1> SUFFICES ASSUME DeviceOK, sdbmem_init PROVE DeviceOK'
  OBVIOUS
<1> USE DEF DeviceOK
<1>1. /\ owner \in Owners /\ turn \in 1..Len(Fsimg) /\ Len(Fsimg) \in Nat
      /\ 1..Len(Fsimg) \subseteq Devs /\ Fsimg' = Fsimg
  BY GivenFacts DEF DeviceType, Turning, Fsimg, sdbmem_init
<1>2. devlist' = devlist \/ devlist' = devlist \union {turn}
  BY DEF sdbmem_init, sdbfs_register_device
<1>3. turn' = turn + 1 /\ owner' = owner /\ refs' = refs /\ puts' = puts
      /\ sb' = sb /\ mount' = mount /\ bound' = bound
      /\ owner = "sdb-iomem" /\ module = "coming"
  BY DEF sdbmem_init, Turned, sbvars
<1>4. fw' \in [Devs -> BOOLEAN] /\ ready' \in [Devs -> BOOLEAN]
  BY <1>1 DEF sdbmem_init, DeviceType
<1>5. Backed'
  BY <1>1 DEF sdbmem_init, Backed, DeviceType, sdbfs_register_device
<1>6. /\ module' \in {"coming", "live", "out"}
      /\ module' = "coming" => turn < Len(Fsimg)
      /\ module' = "out" => ~\E d \in Devs : ready'[d]
  BY <1>3 DEF sdbmem_init, Turned
<1>7. DeviceType'
  <2>1. devlist' \subseteq 1..Len(Fsimg')
    BY <1>1, <1>2 DEF DeviceType
  <2> QED BY <2>1, <1>1, <1>3, <1>4, <1>6 DEF DeviceType
<1>8. module' = "out" => devlist' = {}
  BY <1>1, <1>3, <1>5, <1>6, <1>7 DEF Backed, DeviceType
<1>9. Turning'
  BY <1>1, <1>3, <1>6, <1>8 DEF Turning
<1>10. Kept'
  BY <1>2, <1>3, <1>6, <1>8 DEF Kept
<1>11. Sought'
  BY <1>1, <1>2, <1>3 DEF Sought
<1> QED BY <1>7, <1>9, <1>5, <1>10, <1>11

LEMMA DeviceUnload == DeviceOK /\ Unload => DeviceOK'
<1> SUFFICES ASSUME DeviceOK, Unload PROVE DeviceOK'
  OBVIOUS
<1> USE DEF DeviceOK
<1>1. Len(Fsimg) \in Nat \ {0}
  BY GivenFacts DEF DeviceType, Fsimg
<1>2. DeviceType' /\ Backed' /\ Kept' /\ Sought'
  BY DEF Unload, DeviceType, Backed, Kept, Sought, Fsimg, sbvars
<1>3. Turning'
  BY <1>1 DEF Unload, Turning, DeviceType, Fsimg
<1> QED BY <1>2, <1>3

\* The exit functions take back every device that is listed, in order.
LEMMA DeviceExit == DeviceOK /\ (fakedev_exit \/ sdbmem_exit) => DeviceOK'
<1> SUFFICES ASSUME DeviceOK, fakedev_exit \/ sdbmem_exit PROVE DeviceOK'
  OBVIOUS
<1> USE DEF DeviceOK
<1>1. /\ turn \in 1..Len(Fsimg) /\ Len(Fsimg) \in Nat /\ Fsimg' = Fsimg
      /\ 1..Len(Fsimg) \subseteq Devs
  BY GivenFacts DEF DeviceType, Turning, Fsimg, fakedev_exit, sdbmem_exit
<1>2. devlist' = devlist \ {turn}
  BY DEF fakedev_exit, sdbmem_exit, sdbfs_unregister_device, Backed
<1>3. /\ turn' = turn + 1 /\ owner' = owner /\ ready' = ready /\ refs' = refs
      /\ puts' = puts /\ sb' = sb /\ mount' = mount /\ bound' = bound
      /\ module = "going" /\ module' = IF turn < Len(Fsimg) THEN "going" ELSE "out"
  BY DEF fakedev_exit, sdbmem_exit, Turned, sbvars
<1>4. refs = 0
  BY <1>3 DEF Kept
<1>5. fw' \in [Devs -> BOOLEAN] /\ \A d \in devlist' : fw'[d] = fw[d]
  BY <1>1, <1>2 DEF fakedev_exit, sdbmem_exit, DeviceType
<1>6. DeviceType'
  BY <1>1, <1>2, <1>3, <1>5 DEF DeviceType
<1>7. Turning'
  BY <1>1, <1>2, <1>3 DEF Turning
<1>8. Backed'
  BY <1>2, <1>3, <1>5 DEF Backed
<1>9. Kept'
  BY <1>2, <1>3, <1>4 DEF Kept, DeviceType
<1>10. Sought'
  BY <1>1, <1>3 DEF Sought
<1> QED BY <1>6, <1>7, <1>8, <1>9, <1>10

\* A mount begins at a device of the list.
LEMMA DeviceMount ==
  ASSUME DeviceOK, NEW n \in DOMAIN Image, Mount(n)
  PROVE  DeviceOK'
<1> USE DEF DeviceOK
<1>1. bound' \in [loads : Nat, uses : Nat] /\ bound'.loads = bound.loads
  BY DEF Mount, DeviceType
<1>2. UNCHANGED <<modvars, refs, puts, sb>>
  BY DEF Mount
<1>3. \/ UNCHANGED mount
      \/ /\ sb = NoDev
         /\ \E d \in devlist \cap Devs :
              mount' = [step |-> "find", sd |-> d, name |-> n, load |-> bound.loads]
  BY DEF Mount, Foremost
<1>4. mount' \in MountRec
  <2>1. ASSUME NEW d \in Devs
        PROVE  [step |-> "find", sd |-> d, name |-> n, load |-> bound.loads] \in MountRec
    <3>1. bound.loads \in Nat /\ "find" \in {"none", "find", "get"}
          /\ d \in Devs \cup {NoDev} /\ n \in DOMAIN Image \cup {""}
      BY DEF DeviceType
    <3> QED BY <3>1 DEF MountRec
  <2> QED BY <1>3, <2>1 DEF DeviceType
<1>5. DeviceType'
  BY <1>1, <1>2, <1>4 DEF DeviceType, modvars, Fsimg
<1>6. Turning' /\ Backed' /\ Kept'
  BY <1>2 DEF Turning, Backed, Kept, modvars, Fsimg
<1>7. Sought'
  BY <1>1, <1>2, <1>3 DEF Sought, modvars, Fsimg, DeviceType
<1> QED BY <1>5, <1>6, <1>7

\* Its walk goes on while its device is one of the list.
LEMMA DeviceFind == DeviceOK /\ get_by_name => DeviceOK'
<1> SUFFICES ASSUME DeviceOK, get_by_name PROVE DeviceOK'
  OBVIOUS
<1> USE DEF DeviceOK
<1>1. UNCHANGED <<modvars, refs, puts, sb, bound>>
  BY DEF get_by_name, Crash, allvars, sbvars
<1>2. /\ mount \in MountRec /\ mount.step = "find"
      /\ \/ UNCHANGED mount
         \/ mount' = NoMount
         \/ Fsimg[mount.sd] = mount.name /\ mount' = [mount EXCEPT !.step = "get"]
         \/ \E c \in devlist \cap Devs : mount' = [mount EXCEPT !.sd = c]
  BY DEF get_by_name, Crash, allvars, sbvars, Foremost, DeviceType
<1>3. mount' \in MountRec
  <2>1. [mount EXCEPT !.step = "get"] \in MountRec
    BY <1>2 DEF MountRec
  <2>2. \A c \in Devs : [mount EXCEPT !.sd = c] \in MountRec
    BY <1>2 DEF MountRec
  <2> QED BY <1>2, <2>1, <2>2, NoMountFacts
<1>4. DeviceType'
  BY <1>1, <1>3 DEF DeviceType, modvars, Fsimg
<1>5. Turning' /\ Backed' /\ Kept'
  BY <1>1 DEF Turning, Backed, Kept, modvars, Fsimg
<1>6. Sought'
  <2> DEFINE g == [mount EXCEPT !.step = "get"]
  <2>1. /\ mount.sd = g.sd /\ mount.load = g.load /\ mount.name = g.name
        /\ \A c : LET h == [mount EXCEPT !.sd = c]
                 IN h.sd = c /\ h.load = mount.load /\ h.step = mount.step
    BY <1>2 DEF MountRec
  <2> HIDE DEF g
  <2>2. CASE Fsimg[mount.sd] = mount.name /\ mount' = g
    BY <1>1, <1>2, <2>1, <2>2 DEF Sought, modvars, Fsimg
  <2>3. ASSUME NEW c \in devlist, mount' = [mount EXCEPT !.sd = c] PROVE Sought'
    <3>1. mount'.sd = c /\ mount'.load = mount.load /\ mount'.step = "find"
      BY <1>2, <2>1, <2>3
    <3> QED BY <1>1, <1>2, <3>1 DEF Sought, modvars, Fsimg
  <2>4. CASE UNCHANGED mount \/ mount' = NoMount
    BY <1>1, <2>4, NoMountFacts DEF Sought, modvars, Fsimg
  <2> QED BY <1>2, <2>2, <2>3, <2>4 DEF g
<1> QED BY <1>4, <1>5, <1>6

\* The reference is taken of a module that is there and not going: the device
\* that was found is still in its list.
LEMMA DeviceFill == DeviceOK /\ fill_super => DeviceOK'
<1> SUFFICES ASSUME DeviceOK, fill_super PROVE DeviceOK'
  OBVIOUS
<1> USE DEF DeviceOK
<1>1. CASE Gone /\ Crash
  BY <1>1, DeviceStill DEF Crash, allvars, Still
<1>2. CASE ~Gone /\ ~try_module_get /\ UNCHANGED <<refs, puts, sb>>
  <2>1. UNCHANGED <<modvars, refs, puts, sb, bound>> /\ mount' = NoMount
    BY <1>2 DEF fill_super, Crash
  <2> QED BY <2>1, DeviceUnmounted
<1>3. CASE ~Gone /\ try_module_get
  <2>1. /\ refs' = refs + 1
        /\ \/ sb' = mount.sd /\ puts' = puts
           \/ sb' = sb /\ puts' = puts + 1
        /\ mount.step = "get" /\ UNCHANGED <<modvars, bound>> /\ mount' = NoMount
    BY <1>3 DEF fill_super
  <2>2. module \in {"coming", "live"} /\ mount.load = bound.loads
    BY <1>3 DEF Gone, try_module_get, DeviceType
  <2>3. mount.sd \in devlist /\ sb = NoDev /\ mount.sd \in Devs
    <3>1. mount.sd \in devlist /\ sb = NoDev
      BY <2>1, <2>2 DEF Sought
    <3> QED BY <3>1, GivenFacts DEF DeviceType, Fsimg
  <2>4. DeviceType'
    BY <2>1, <2>3, NoMountFacts DEF DeviceType, modvars, Fsimg
  <2>5. Turning' /\ Backed'
    BY <2>1 DEF Turning, Backed, modvars, Fsimg
  <2>6. NoDev \notin Devs
    BY GivenFacts DEF DeviceType
  <2>7. Kept'
    BY <2>1, <2>2, <2>3, <2>6 DEF Kept, modvars, DeviceType
  <2>8. Sought'
    BY <2>1, NoMountFacts DEF Sought
  <2> QED BY <2>4, <2>5, <2>7, <2>8
<1> QED BY <1>1, <1>2, <1>3 DEF fill_super

LEMMA DeviceRelease == DeviceOK /\ (Umount \/ sdbfs_put) => DeviceOK'
<1> SUFFICES ASSUME DeviceOK, Umount \/ sdbfs_put PROVE DeviceOK'
  OBVIOUS
<1> USE DEF DeviceOK
<1>0. CASE UNCHANGED allvars
  BY <1>0, DeviceStill DEF allvars, Still
<1>1. CASE \/ sb # NoDev /\ sb' = NoDev /\ puts' = puts + 1 /\ refs' = refs
              /\ UNCHANGED <<modvars, mount, bound>>
           \/ puts > 0 /\ puts' = puts - 1 /\ refs' = refs - 1
              /\ UNCHANGED <<modvars, sb, mount, bound>>
  <2>1. refs' \in Nat /\ puts' \in Nat /\ sb' \in Devs \cup {NoDev}
    BY <1>1 DEF DeviceType, Kept
  <2>2. DeviceType'
    BY <1>1, <2>1 DEF DeviceType, modvars, Fsimg
  <2>3. Turning' /\ Backed'
    BY <1>1 DEF Turning, Backed, modvars, Fsimg
  <2>4. Kept'
    BY <1>1 DEF Kept, modvars, DeviceType
  <2>5. Sought'
    BY <1>1 DEF Sought, modvars, Fsimg
  <2> QED BY <2>2, <2>3, <2>4, <2>5
<1> QED BY <1>0, <1>1 DEF Umount, sdbfs_put, Crash

\* What a process may do.
Steps(p) ==
  \/ Open(p) \/ Walk(p) \/ readdir_start(p) \/ Close(p) \/ Call(p)
  \/ \E n \in Names \ {"."} : lookup_start(p, n)
  \/ \E c \in Counts : read_start(p, c)

\* The rest of the file system leaves the devices alone.
LEMMA UsersAreStill ==
  ASSUME NEW p \in Procs, Steps(p)
  PROVE  Still
BY DEF Still, Steps, Open, Walk, readdir_start, Close, Call, lookup_start, read_start,
       sdbfs_lookup, sdbfs_iget, sdbfs_readdir, stale_dir, sdbfs_read, read_end,
       Crash, allvars

LEMMA DeviceStep == DeviceOK /\ [Next]_vars => DeviceOK'
<1> SUFFICES ASSUME DeviceOK, [Next]_vars PROVE DeviceOK'
  OBVIOUS
<1>1. CASE Load \/ fakedev_init \/ sdbmem_init
  BY <1>1, DeviceLoad, DeviceFakedevInit, DeviceSdbmemInit
<1>2. CASE Unload \/ fakedev_exit \/ sdbmem_exit
  BY <1>2, DeviceUnload, DeviceExit
<1>3. CASE \E n \in DOMAIN Image : Mount(n)
  BY <1>3, DeviceMount
<1>4. CASE get_by_name \/ fill_super \/ Umount \/ sdbfs_put
  BY <1>4, DeviceFind, DeviceFill, DeviceRelease
<1>5. ASSUME NEW e \in dcache, Evict(e) PROVE DeviceOK'
  BY <1>5, DeviceStill DEF Evict, Still, Crash, allvars
<1>6. ASSUME NEW p \in Procs, Steps(p) PROVE DeviceOK'
  BY <1>6, UsersAreStill, DeviceStill
<1>7. CASE UNCHANGED vars
  BY <1>7, DeviceStill DEF vars, allvars, Still
<1> QED BY <1>1, <1>2, <1>3, <1>4, <1>5, <1>6, <1>7 DEF Next, Steps

\* The invariant behind DevicesStay.
THEOREM DeviceInvariance == Spec => []DeviceOK
  BY DeviceInit, DeviceStep, PTL DEF Spec

\* What is mounted can be read, and the device module stays as long as
\* anything of it is mounted, though a mount finds its device without a lock
\* and the module may go, and come again, at any step of that.
THEOREM DevicesStay == Spec => []DevicePinned
<1>1. DeviceOK => DevicePinned
  BY DEF DeviceOK, DeviceType, Turning, Backed, Kept, DevicePinned
<1> QED BY <1>1, DeviceInvariance, PTL

(***************************************************************************)
(* The inodes and the processes that use them.                             *)
(***************************************************************************)
AnyName == Names \cup {""}

InodeRec ==
  [kind : {"dir", "file", "none", "new"}, base_data : Int, base_sdb : Int,
   first : Int, size : Int, nfiles : Nat, files : Seq(Int), own : BOOLEAN,
   mutex : BOOLEAN]

\* A process is given bytes or entries.
Item == Int \cup [info : Int, d_ino : Int]

ProcRec ==
  [at : Nat, op : {"idle", "lookup", "iget", "readdir", "read", "readend"},
   name : AnyName, ino : Nat, pos : Nat, got : Seq(Item), ended : BOOLEAN,
   count : Nat, done : Nat, buf : Seq(Int), long : BOOLEAN]

InodeType ==
  /\ \A i \in DOMAIN inode : i \in Nat \ {NoIno} /\ inode[i] \in InodeRec
  /\ dcache \subseteq [dir : Nat, name : AnyName, ino : Nat]
  /\ proc \in [Procs -> ProcRec]

DirOf(n) == [sdb |-> n.base_sdb, base |-> n.base_data]

\* While an image is mounted its root is in memory.
Rooted ==
  /\ sb = NoDev => DOMAIN inode = {}
  /\ sb # NoDev => /\ ROOT \in DOMAIN inode /\ inode[ROOT].kind = "dir"
                   /\ DirOf(inode[ROOT]) = [sdb |-> img.entry, base |-> 0]

\* So is the inode that a process is at, which is of the kind the call is of,
\* and those of the cached names.
UserIn(q) ==
  IF q.at = NoIno THEN q.op = "idle"
  ELSE /\ q.at \in DOMAIN inode /\ inode[q.at].kind # "new"
       /\ q.op \in {"lookup", "iget", "readdir"} => inode[q.at].kind = "dir"
       /\ q.op \in {"read", "readend"} => inode[q.at].kind = "file"

NameIn(e) ==
  /\ e.dir \in DOMAIN inode /\ inode[e.dir].kind = "dir" /\ e.ino # ROOT
  /\ e.ino # NoIno => e.ino \in DOMAIN inode /\ inode[e.ino].kind # "new"

InMemory ==
  /\ Rooted
  /\ \A p \in Procs : UserIn(proc[p])
  /\ \A e \in dcache : NameIn(e)

\* The address of the record that an inode has its number from.
RecordAt(j) == j - 2

\* A new inode is made by one process, from a record of the directory that
\* the process is at.
Making ==
  \A p \in Procs : proc[p].op = "iget" =>
    /\ proc[p].ino \in DOMAIN inode /\ inode[proc[p].ino].kind = "new"
    /\ RecordAt(proc[p].ino) \in Range(Listing(img, dir(p).base_sdb))
    /\ \A q \in Procs : proc[q].op = "iget" /\ proc[q].ino = proc[p].ino => q = p

\* Inode n is what directory d has at the address that is taken for record a.
MadeFrom(n, d, a) ==
  LET r == Taken(img, a)
  IN /\ n.first = r.first /\ n.size = r.last - r.first + 1
     /\ r.type = "bridge" => n.kind = "dir" /\ DirOf(n) = Within(img, d, a)
     /\ r.type \in {"interconnect", "device"} =>
          n.kind = "file" /\ n.base_data = d.base + r.first /\ n.base_sdb = 0
     /\ r.type = "other" => n.kind = "none"

Made ==
  \A i \in DOMAIN inode \ {ROOT} : \E d \in Dirs[Fsimg[sb]] :
    /\ RecordAt(i) \in Range(Listing(img, d.sdb))
    /\ inode[i].kind # "new" => MadeFrom(inode[i], d, RecordAt(i))

\* The records of a directory are not read yet, or are all there; or there is
\* what was in the memory of its inode before.
Whole(n) == /\ At(img, n.base_sdb).magic
            /\ n.nfiles = At(img, n.base_sdb).records
            /\ n.files = Records(img, n.base_sdb)

Filled ==
  \A i \in DOMAIN inode : inode[i].kind = "dir" =>
    inode[i].nfiles = 0 \/ ~inode[i].own \/ Whole(inode[i])

MemoryOK == InodeType /\ InMemory /\ Making /\ Made /\ Filled

\* Every set of numbers has a least one.
LEMMA Least ==
  ASSUME NEW T, T \subseteq Nat, T # {}
  PROVE  Min(T) \in T /\ \A y \in T : Min(T) <= y
<1> DEFINE R == {p \in Nat \X Nat : p[1] < p[2]}
<1>1. IsWellFoundedOn(R, Nat)
  BY NatLessThanWellFounded, Zenon DEF OpToRel
<1> HIDE DEF R
<1>2. PICK x \in T : \A y \in T : <<y, x>> \notin R
  BY <1>1, WFMin
<1>3. ASSUME NEW y \in T PROVE x <= y
  <2>1. x \in Nat /\ y \in Nat
    OBVIOUS
  <2>2. y < x => <<y, x>> \in R
    BY <2>1 DEF R
  <2>3. ~(y < x)
    BY <2>2, <1>2
  <2> QED BY <2>1, <2>3
<1> QED BY <1>3 DEF Min

\* The n addresses from one on.
Run(from, n) == [k \in 1..n |-> from + k - 1]

LEMMA RunFacts ==
  ASSUME NEW from \in Int, NEW n \in Nat
  PROVE  /\ Run(from, n) \in Seq(Int) /\ Len(Run(from, n)) = n
         /\ DOMAIN Run(from, n) = 1..n
         /\ \A k \in 1..n : Run(from, n)[k] = from + k - 1
<1>1. \A k \in 1..n : from + k - 1 \in Int
  OBVIOUS
<1> QED BY <1>1, IsASeq, LenProperties DEF Run

\* The addresses of n records from one on.
Rows(from, n) == [k \in 1..n |-> from + SDB_SIZE * (k - 1)]

LEMMA RowsFacts ==
  ASSUME NEW from \in Nat, NEW n \in Nat
  PROVE  /\ Rows(from, n) \in Seq(Int) /\ Len(Rows(from, n)) = n
         /\ DOMAIN Rows(from, n) = 1..n
         /\ \A k \in 1..n : /\ Rows(from, n)[k] = from + SDB_SIZE * (k - 1)
                            /\ Rows(from, n)[k] \in Nat
<1>1. \A k \in 1..n : from + SDB_SIZE * (k - 1) \in Nat
  BY DEF SDB_SIZE
<1>2. \A k \in 1..n : from + SDB_SIZE * (k - 1) \in Int
  BY <1>1
<1> QED BY <1>1, <1>2, IsASeq, LenProperties DEF Rows

\* The records of a directory follow each other.
LEMMA ListingFacts ==
  ASSUME NEW n \in DOMAIN Image, NEW d \in Dirs[n]
  PROVE  LET L == Listing(Image[n], d.sdb)
         IN /\ L \in Seq(Int) /\ Len(L) \in Nat /\ DOMAIN L = 1..Len(L)
            /\ Len(L) = IF At(Image[n], d.sdb).magic
                        THEN At(Image[n], d.sdb).records ELSE 0
            /\ d.sdb \in Nat /\ d.base \in Nat
            /\ \A k \in 1..Len(L) : /\ L[k] = d.sdb + SDB_SIZE * (k - 1)
                                    /\ L[k] \in Nat
            /\ \A a \in Range(L) :
                 /\ a \in Nat /\ \E k \in 1..Len(L) : a = d.sdb + SDB_SIZE * (k - 1)
                 /\ Taken(Image[n], a).type \in {"interconnect", "device", "bridge",
                                                 "other"}
                 /\ Taken(Image[n], a).first \in Nat /\ Taken(Image[n], a).last \in Nat
                 /\ Taken(Image[n], a).type = "bridge" =>
                      Within(Image[n], d, a) \in Dirs[n]
<1> DEFINE i == Image[n]
           m == At(i, d.sdb).records
           R == Records(i, d.sdb)
           L == Listing(i, d.sdb)
<1>1. /\ d.sdb \in Nat /\ d.base \in Nat /\ m \in Nat
      /\ \A a \in Range(R) :
           /\ Taken(i, a).type \in {"interconnect", "device", "bridge", "other"}
           /\ Taken(i, a).first \in Nat /\ Taken(i, a).last \in Nat
           /\ Taken(i, a).type = "bridge" => Within(i, d, a) \in Dirs[n]
  BY ImageAssumption
<1>2. R = Rows(d.sdb, m)
  BY DEF Records, Rows
<1>3. CASE At(i, d.sdb).magic
  <2>1. L = R
    BY <1>3 DEF Listing
  <2>2. /\ R \in Seq(Int) /\ Len(R) = m /\ DOMAIN R = 1..m
        /\ \A k \in 1..m : R[k] = d.sdb + SDB_SIZE * (k - 1) /\ R[k] \in Nat
    <3> HIDE DEF R, m
    <3> QED BY <1>1, <1>2, RowsFacts
  <2>3. \A a \in Range(R) :
          a \in Nat /\ \E k \in 1..m : a = d.sdb + SDB_SIZE * (k - 1)
    <3> HIDE DEF m, R
    <3> QED BY <2>2 DEF Range
  <2> HIDE DEF i, m, R, L
  <2> QED BY <1>1, <1>3, <2>1, <2>2, <2>3 DEF i, m, R, L
<1>4. CASE ~At(i, d.sdb).magic
  <2>1. L = <<>>
    BY <1>4 DEF Listing
  <2>2. Range(L) = {} /\ Len(L) = 0 /\ L \in Seq(Int) /\ DOMAIN L = 1..0
    BY <2>1 DEF Range
  <2> HIDE DEF i, m, R, L
  <2> QED BY <1>1, <1>4, <2>2 DEF i, m, R, L
<1> QED BY <1>3, <1>4

\* A mounted image is one of the images, and a directory in memory is one of
\* its directories.
LEMMA MountedImage ==
  ASSUME DeviceOK, sb # NoDev
  PROVE  Fsimg[sb] \in DOMAIN Image /\ img = Image[Fsimg[sb]]
<1>1. owner \in Owners /\ sb \in 1..Len(Fsimg)
  BY DEF DeviceOK, DeviceType, Kept
<1> QED BY <1>1, GivenFacts DEF Fsimg, img

LEMMA RootFacts ==
  ASSUME NEW n \in DOMAIN Image
  PROVE  /\ [sdb |-> Image[n].entry, base |-> 0] \in Dirs[n]
         /\ Image[n].size \in Nat /\ Image[n].entry \in Nat
<1>1. [sdb |-> Image[n].entry, base |-> 0] \in Dirs[n] /\ Image[n].size \in Nat
  BY ImageAssumption
<1>2. [sdb |-> Image[n].entry, base |-> 0].sdb \in Nat
  BY <1>1, ImageAssumption
<1> QED BY <1>1, <1>2

LEMMA DirFacts ==
  ASSUME DeviceOK, MemoryOK, NEW j \in DOMAIN inode, inode[j].kind = "dir"
  PROVE  /\ sb # NoDev /\ Fsimg[sb] \in DOMAIN Image /\ img = Image[Fsimg[sb]]
         /\ DirOf(inode[j]) \in Dirs[Fsimg[sb]]
<1>1. sb # NoDev /\ Fsimg[sb] \in DOMAIN Image /\ img = Image[Fsimg[sb]]
  BY MountedImage DEF MemoryOK, InMemory, Rooted
<1>2. CASE j = ROOT
  BY <1>1, <1>2, RootFacts DEF MemoryOK, InMemory, Rooted
<1>3. CASE j # ROOT
  <2>1. PICK d \in Dirs[Fsimg[sb]] :
          RecordAt(j) \in Range(Listing(img, d.sdb)) /\ MadeFrom(inode[j], d, RecordAt(j))
    BY <1>3 DEF MemoryOK, Made
  <2>2. /\ Taken(img, RecordAt(j)).type \in {"interconnect", "device", "bridge",
                                             "other"}
        /\ Taken(img, RecordAt(j)).type = "bridge" =>
             Within(img, d, RecordAt(j)) \in Dirs[Fsimg[sb]]
    BY <1>1, <2>1, ListingFacts
  <2>3. Taken(img, RecordAt(j)).type = "bridge"
    BY <2>1, <2>2 DEF MadeFrom
  <2> QED BY <1>1, <2>1, <2>2, <2>3 DEF MadeFrom
<1> QED BY <1>2, <1>3

LEMMA AwayFacts == Away \in ProcRec /\ Away.op = "idle" /\ Away.at = NoIno
<1>1. <<>> \in Seq(Item) /\ <<>> \in Seq(Int)
  OBVIOUS
<1> QED BY <1>1 DEF Away, ProcRec, AnyName, NoIno

LEMMA MemoryInit == Init => MemoryOK
<1> SUFFICES ASSUME Init PROVE MemoryOK
  OBVIOUS
<1>1. InodeType
  BY AwayFacts DEF Init, InodeType
<1>2. \A p \in Procs : proc[p].at = NoIno /\ proc[p].op = "idle"
  BY DEF Init, Away
<1>3. InMemory /\ Making
  BY <1>2 DEF Init, InMemory, Rooted, UserIn, NameIn, Making, NoDev
<1>4. Made /\ Filled
  BY DEF Init, Made, Filled
<1> QED BY <1>1, <1>3, <1>4 DEF MemoryOK

LEMMA MemoryStill ==
  MemoryOK /\ UNCHANGED <<owner, sb, inode, dcache, proc>> => MemoryOK'
<1> SUFFICES ASSUME MemoryOK, UNCHANGED <<owner, sb, inode, dcache, proc>>
             PROVE  MemoryOK'
  OBVIOUS
<1>1. img' = img /\ Fsimg' = Fsimg /\ \A p \in Procs : dir(p)' = dir(p)
  BY DEF img, Fsimg, dir
<1>2. InodeType' /\ InMemory'
  BY <1>1 DEF MemoryOK, InodeType, InMemory, Rooted, UserIn, NameIn
<1>3. Making'
  BY <1>1 DEF MemoryOK, Making
<1>4. Made' /\ Filled'
  BY <1>1 DEF MemoryOK, Made, MadeFrom, Filled, Whole
<1> QED BY <1>2, <1>3, <1>4 DEF MemoryOK

\* What an inode was made with.
Told(n) == <<n.kind, n.base_data, n.base_sdb, n.first, n.size>>

\* What a step of a process changes of the inodes: those that are made keep
\* what they were made with.
KnownInodes ==
  /\ sb' = sb /\ owner' = owner /\ DOMAIN inode \subseteq DOMAIN inode'
  /\ sb = NoDev => DOMAIN inode' = {}
  /\ \A j \in DOMAIN inode' : j \in Nat \ {NoIno} /\ inode'[j] \in InodeRec
  /\ \A j \in DOMAIN inode :
       inode[j].kind # "new" => Told(inode'[j]) = Told(inode[j])

\* And mostly there are no other inodes, and those that are new stay so.
SameInodes ==
  /\ KnownInodes /\ DOMAIN inode' = DOMAIN inode
  /\ \A j \in DOMAIN inode : Told(inode'[j]) = Told(inode[j])

\* One process goes on to q, and may have added a name.
LEMMA Carried ==
  ASSUME MemoryOK, KnownInodes, NEW p \in Procs, NEW q \in ProcRec,
         proc' = [proc EXCEPT ![p] = q], UserIn(q)',
         dcache \subseteq dcache',
         \A e \in dcache' \ dcache :
           e \in [dir : Nat, name : AnyName, ino : Nat] /\ NameIn(e)'
  PROVE  /\ InodeType' /\ InMemory' /\ Fsimg' = Fsimg /\ img' = img
         /\ \A r \in Procs : proc'[r] = IF r = p THEN q ELSE proc[r]
         /\ \A r \in Procs \ {p} : proc[r].op = "iget" =>
              dir(r)'.base_sdb = dir(r).base_sdb
<1>1. /\ Fsimg' = Fsimg /\ img' = img
      /\ \A j \in DOMAIN inode : inode[j].kind # "new" =>
           /\ inode'[j].kind = inode[j].kind
           /\ inode'[j].base_sdb = inode[j].base_sdb
           /\ inode'[j].base_data = inode[j].base_data
  BY DEF KnownInodes, Told, Fsimg, img
<1>2. \A r \in Procs : proc'[r] = IF r = p THEN q ELSE proc[r]
  BY DEF MemoryOK, InodeType
<1>3. InodeType'
  <2>1. proc' \in [Procs -> ProcRec]
    BY DEF MemoryOK, InodeType
  <2>2. dcache' \subseteq [dir : Nat, name : AnyName, ino : Nat]
    BY DEF MemoryOK, InodeType
  <2>3. AnyName' = AnyName
    BY DEF AnyName, Names, At
  <2> QED BY <2>1, <2>2, <2>3 DEF MemoryOK, InodeType, KnownInodes, ProcRec
<1>4. Rooted'
  <2>1. CASE sb = NoDev
    BY <2>1 DEF MemoryOK, InMemory, Rooted, KnownInodes, UserIn, NameIn
  <2>2. CASE sb # NoDev
    BY <1>1, <2>2 DEF MemoryOK, InMemory, Rooted, KnownInodes, DirOf
  <2> QED BY <2>1, <2>2
<1>5. \A e \in dcache' : NameIn(e)'
  <2>1. \A e \in dcache : NameIn(e)
    BY DEF MemoryOK, InMemory
  <2>2. \A e \in dcache : NameIn(e)'
    BY <1>1, <2>1 DEF NameIn, KnownInodes
  <2> QED BY <2>2
<1>6. \A r \in Procs : UserIn(proc[r])'
  <2>1. \A r \in Procs : UserIn(proc[r])
    BY DEF MemoryOK, InMemory
  <2>2. ASSUME NEW r \in Procs \ {p} PROVE UserIn(proc[r])'
    <3>1. UserIn(proc[r]) /\ proc'[r] = proc[r]
      BY <1>2, <2>1
    <3> QED BY <1>1, <3>1 DEF UserIn, KnownInodes
  <2>3. UserIn(proc[p])'
    BY <1>2 DEF UserIn
  <2> QED BY <2>2, <2>3
<1>7. ASSUME NEW r \in Procs \ {p}, proc[r].op = "iget"
      PROVE  dir(r)'.base_sdb = dir(r).base_sdb
  <2>1. proc[r].at \in DOMAIN inode /\ inode[proc[r].at].kind # "new"
    BY <1>7 DEF MemoryOK, InMemory, UserIn
  <2> QED BY <1>1, <1>2, <2>1 DEF dir
<1> QED BY <1>1, <1>2, <1>3, <1>4, <1>5, <1>6, <1>7 DEF InMemory

LEMMA Moved ==
  ASSUME MemoryOK, SameInodes, Filled', NEW p \in Procs, NEW q \in ProcRec,
         proc' = [proc EXCEPT ![p] = q], q.op # "iget", UserIn(q),
         dcache \subseteq dcache',
         \A e \in dcache' \ dcache :
           e \in [dir : Nat, name : AnyName, ino : Nat] /\ NameIn(e)
  PROVE  MemoryOK' /\ KnownInodes
<1>1. \A j \in DOMAIN inode :
           /\ inode'[j].kind = inode[j].kind
           /\ inode'[j].base_sdb = inode[j].base_sdb
           /\ inode'[j].base_data = inode[j].base_data
           /\ inode'[j].first = inode[j].first /\ inode'[j].size = inode[j].size
  BY DEF SameInodes, Told
<1>2. UserIn(q)' /\ \A e \in dcache' \ dcache : NameIn(e)'
  <2>1. \A e \in dcache' \ dcache : NameIn(e)
    OBVIOUS
  <2> QED BY <1>1, <2>1 DEF UserIn, NameIn, SameInodes
<1>3. /\ InodeType' /\ InMemory' /\ Fsimg' = Fsimg /\ img' = img
      /\ \A r \in Procs : proc'[r] = IF r = p THEN q ELSE proc[r]
      /\ \A r \in Procs \ {p} : proc[r].op = "iget" =>
           dir(r)'.base_sdb = dir(r).base_sdb
  BY <1>2, Carried DEF SameInodes
<1>4. Making'
  <2> SUFFICES ASSUME NEW r \in Procs, proc'[r].op = "iget"
               PROVE  /\ proc'[r].ino \in DOMAIN inode'
                      /\ inode'[proc'[r].ino].kind = "new"
                      /\ RecordAt(proc'[r].ino) \in Range(Listing(img', dir(r)'.base_sdb))
                      /\ \A t \in Procs : proc'[t].op = "iget"
                           /\ proc'[t].ino = proc'[r].ino => t = r
    BY DEF Making
  <2>1. r # p /\ proc'[r] = proc[r] /\ dir(r)'.base_sdb = dir(r).base_sdb
    BY <1>3
  <2>2. /\ proc[r].ino \in DOMAIN inode /\ inode[proc[r].ino].kind = "new"
        /\ RecordAt(proc[r].ino) \in Range(Listing(img, dir(r).base_sdb))
        /\ \A t \in Procs : proc[t].op = "iget" /\ proc[t].ino = proc[r].ino => t = r
    BY <2>1 DEF MemoryOK, Making
  <2> QED BY <1>1, <1>3, <2>1, <2>2 DEF SameInodes
<1>5. Made'
  <2> SUFFICES ASSUME NEW j \in DOMAIN inode \ {ROOT}
               PROVE  \E d \in Dirs[Fsimg[sb]] :
                        /\ RecordAt(j) \in Range(Listing(img, d.sdb))
                        /\ inode'[j].kind # "new" =>
                             MadeFrom(inode'[j], d, RecordAt(j))
    BY <1>3 DEF Made, SameInodes, KnownInodes, MadeFrom
  <2>1. PICK d \in Dirs[Fsimg[sb]] :
                        /\ RecordAt(j) \in Range(Listing(img, d.sdb))
                        /\ inode[j].kind # "new" => MadeFrom(inode[j], d, RecordAt(j))
    BY DEF MemoryOK, Made
  <2>2. inode'[j].kind # "new" => MadeFrom(inode'[j], d, RecordAt(j))
    BY <1>1, <2>1 DEF MadeFrom, DirOf
  <2> QED BY <2>1, <2>2
<1> QED BY <1>3, <1>4, <1>5 DEF MemoryOK, SameInodes

\* The same for what leaves the inodes alone.
LEMMA MovedOnly ==
  ASSUME MemoryOK, UNCHANGED <<owner, sb, inode, dcache>>,
         NEW p \in Procs, NEW q \in ProcRec,
         proc' = [proc EXCEPT ![p] = q], q.op # "iget", UserIn(q)
  PROVE  MemoryOK' /\ KnownInodes
<1>1. SameInodes
  BY DEF SameInodes, KnownInodes, MemoryOK, InodeType, InMemory, Rooted
<1>2. Filled'
  BY DEF MemoryOK, Filled, Whole, img, Fsimg
<1> QED BY <1>1, <1>2, Moved

LEMMA MemoryOpen ==
  ASSUME MemoryOK, NEW p \in Procs, Open(p) \/ Walk(p) \/ Close(p)
  PROVE  MemoryOK' /\ KnownInodes
<1>1. Away \in ProcRec /\ Away.op = "idle"
  BY AwayFacts
<1>2. UNCHANGED <<owner, sb, inode, dcache>>
  BY DEF Open, Walk, Close, modvars, sbvars
<1>3. ASSUME NEW j \in Nat, proc' = [proc EXCEPT ![p] = [Away EXCEPT !.at = j]],
             j # NoIno => j \in DOMAIN inode /\ inode[j].kind # "new"
      PROVE  MemoryOK' /\ KnownInodes
  <2> DEFINE q == [Away EXCEPT !.at = j]
  <2>1. q \in ProcRec /\ q.op = "idle" /\ q.at = j
    BY <1>1 DEF Away, ProcRec
  <2> HIDE DEF q
  <2>2. UserIn(q)
    BY <1>3, <2>1 DEF UserIn
  <2> QED BY <1>2, <1>3, <2>1, <2>2, MovedOnly DEF q
<1>4. CASE Open(p)
  BY <1>3, <1>4 DEF Open, MemoryOK, InMemory, Rooted, ROOT
<1>5. CASE Walk(p)
  BY <1>3, <1>5 DEF Walk, MemoryOK, InMemory, NameIn, InodeType
<1>6. CASE Close(p)
  <2>1. UserIn(Away)
    BY <1>1 DEF UserIn, Away
  <2> QED BY <1>1, <1>2, <1>6, <2>1, MovedOnly DEF Close
<1> QED BY <1>4, <1>5, <1>6

\* A call that starts has the mutex of its directory.
LEMMA MemoryStarts ==
  ASSUME MemoryOK, NEW p \in Procs,
         readdir_start(p) \/ \E name \in Names \ {"."} : lookup_start(p, name)
  PROVE  MemoryOK' /\ KnownInodes
<1>1. PICK name \in AnyName, op \in {"lookup", "readdir"} :
        proc' = [proc EXCEPT ![p] = [proc[p] EXCEPT !.op = op, !.name = name]]
  <2>1. CASE readdir_start(p)
    <3>1. proc[p].name \in AnyName /\ proc[p] \in ProcRec
      BY DEF MemoryOK, InodeType, ProcRec
    <3>2. [proc[p] EXCEPT !.op = "readdir"]
            = [proc[p] EXCEPT !.op = "readdir", !.name = proc[p].name]
      BY <3>1 DEF ProcRec
    <3> QED BY <2>1, <3>1, <3>2 DEF readdir_start
  <2>2. ASSUME NEW name \in Names, lookup_start(p, name)
        PROVE  \E op \in {"lookup", "readdir"} :
                 proc' = [proc EXCEPT ![p] = [proc[p] EXCEPT !.op = op, !.name = name]]
    BY <2>2 DEF lookup_start
  <2> QED BY <2>1, <2>2 DEF AnyName
<1>2. /\ Idle(p, "dir") /\ Lock(p) /\ UNCHANGED <<owner, sb, dcache>>
  BY DEF readdir_start, lookup_start, modvars, sbvars
<1> DEFINE q == [proc[p] EXCEPT !.op = op, !.name = name]
<1>3. proc[p] \in ProcRec
  BY DEF MemoryOK, InodeType
<1>4. q \in ProcRec /\ q.op = op /\ q.at = proc[p].at
  BY <1>3 DEF ProcRec
<1> HIDE DEF q
<1>5. UserIn(proc[p]) /\ UserIn(q)
  BY <1>2, <1>4 DEF Idle, UserIn, MemoryOK, InMemory
<1>6. proc[p].at \in DOMAIN inode /\ \A j \in DOMAIN inode : inode[j] \in InodeRec
  BY <1>2, <1>5 DEF UserIn, Idle, MemoryOK, InodeType
<1>7. inode' = [inode EXCEPT ![proc[p].at] = [inode[proc[p].at] EXCEPT !.mutex = TRUE]]
  BY <1>2 DEF Lock
<1>8. \A j \in DOMAIN inode : /\ inode'[j] \in InodeRec
                              /\ Told(inode'[j]) = Told(inode[j])
                              /\ inode'[j].nfiles = inode[j].nfiles
                              /\ inode'[j].files = inode[j].files
                              /\ inode'[j].own = inode[j].own
  BY <1>6, <1>7 DEF InodeRec, Told
<1>9. SameInodes
  BY <1>2, <1>7, <1>8 DEF SameInodes, KnownInodes, MemoryOK, InodeType,
     InMemory, Rooted
<1>10. Filled'
  BY <1>8, <1>9 DEF MemoryOK, Filled, Whole, SameInodes, KnownInodes, Told, img, Fsimg
<1> QED BY <1>1, <1>2, <1>4, <1>5, <1>9, <1>10, Moved DEF q

\* What a device gives of n bytes.
LEMMA BytesGiven ==
  ASSUME NEW a \in Int, NEW n \in Nat, img.size \in Nat
  PROVE  LET r == fakedev_read(a, n)
         IN IF a > img.size THEN r.i = -1 /\ r.data = <<>>
            ELSE /\ r.i = IF a + n > img.size THEN img.size - a ELSE n
                 /\ r.i \in Nat /\ r.data = Run(a, r.i)
  BY DEF fakedev_read, Run

LEMMA BytesAreItems == Seq(Int) \subseteq Seq(Item)
<1> SUFFICES ASSUME NEW s \in Seq(Int) PROVE s \in Seq(Item)
  OBVIOUS
<1>1. /\ Len(s) \in Nat /\ s = [k \in 1..Len(s) |-> s[k]]
      /\ \A k \in 1..Len(s) : s[k] \in Item
  BY DEF Item
<1> QED BY <1>1, IsASeq

LEMMA MemoryReads ==
  ASSUME DeviceOK, MemoryOK, NEW p \in Procs,
         \/ \E c \in Counts : read_start(p, c)
         \/ sdbfs_read(p) \/ read_end(p)
  PROVE  MemoryOK' /\ KnownInodes
<1>1. /\ proc[p] \in ProcRec /\ proc \in [Procs -> ProcRec] /\ UserIn(proc[p])
      /\ UNCHANGED <<owner, sb, inode, dcache>>
  BY DEF MemoryOK, InodeType, InMemory, read_start, sdbfs_read, read_end, modvars, sbvars
<1>2. /\ proc[p].at # NoIno /\ proc[p].at \in DOMAIN inode /\ file(p).kind = "file"
      /\ file(p) \in InodeRec /\ img.size \in Nat
  <2>1. proc[p].at # NoIno /\ file(p).kind = "file"
    BY <1>1 DEF UserIn, read_start, sdbfs_read, read_end, Idle, file
  <2>2. proc[p].at \in DOMAIN inode /\ sb # NoDev
    BY <1>1, <2>1 DEF UserIn, MemoryOK, InMemory, Rooted
  <2> QED BY <2>1, <2>2, MountedImage, RootFacts DEF MemoryOK, InodeType, file
<1>3. ASSUME NEW c \in Counts, read_start(p, c) PROVE MemoryOK' /\ KnownInodes
  <2> DEFINE n == Clamped(p, c)
             q == [proc[p] EXCEPT !.op = "read", !.count = n, !.done = 0, !.buf = <<>>,
                                  !.long = @ \/ n > Kbuf]
  <2>1. n \in Nat
    <3>1. c \in Nat /\ proc[p].pos \in Nat /\ file(p).size \in Int
          /\ proc[p].pos <= file(p).size
      BY <1>1, <1>2, <1>3, SdbfsKernelAssumption DEF read_start, ProcRec, InodeRec
    <3> QED BY <3>1 DEF Clamped
  <2>2. proc' = [proc EXCEPT ![p] = q]
    BY <1>1, <1>3 DEF read_start
  <2> HIDE DEF n
  <2>3. q \in ProcRec /\ q.op = "read" /\ q.at = proc[p].at
    <3>1. /\ proc[p] \in ProcRec /\ <<>> \in Seq(Int)
          /\ (proc[p].long \/ n > Kbuf) \in BOOLEAN
      BY <1>1
    <3> QED BY <2>1, <3>1 DEF ProcRec
  <2> HIDE DEF q
  <2>4. UserIn(q)
    BY <1>1, <1>2, <2>3 DEF UserIn, file
  <2> QED BY <1>1, <2>2, <2>3, <2>4, MovedOnly
<1>4. CASE sdbfs_read(p)
  <2> DEFINE n == IF Kbuf > proc[p].count THEN proc[p].count ELSE Kbuf
             r == fakedev_read(file(p).first + proc[p].pos, n)
             q == [proc[p] EXCEPT !.done = Counted(@, r), !.buf = @ \o r.data,
                                  !.op = NextTurn(r, n)]
  <2>1. n \in Nat /\ file(p).first + proc[p].pos \in Int /\ proc[p].done \in Nat
        /\ proc[p].buf \in Seq(Int)
    BY <1>1, <1>2, SdbfsKernelAssumption DEF ProcRec, InodeRec
  <2>2. proc' = [proc EXCEPT ![p] = q]
    BY <1>1, <1>4 DEF sdbfs_read
  <2> HIDE DEF n
  <2>3. r.i \in Int /\ r.data \in Seq(Int)
    <3> DEFINE a == file(p).first + proc[p].pos
    <3>1. a \in Int /\ img.size \in Nat
      BY <1>2, <2>1
    <3> HIDE DEF a
    <3>2. IF a > img.size THEN r.i = -1 /\ r.data = <<>>
          ELSE r.i \in Nat /\ r.data = Run(a, r.i)
      BY <2>1, <3>1, BytesGiven DEF a
    <3> HIDE DEF r
    <3>3. CASE a > img.size
      <4>1. r.i = -1 /\ r.data = <<>>
        BY <3>2, <3>3
      <4> QED BY <4>1
    <3>4. CASE ~(a > img.size)
      <4>1. r.i \in Nat /\ r.data = Run(a, r.i)
        BY <3>2, <3>4
      <4> QED BY <3>1, <4>1, RunFacts
    <3> QED BY <3>3, <3>4
  <2> HIDE DEF r
  <2>4. Counted(proc[p].done, r) \in Nat /\ proc[p].buf \o r.data \in Seq(Int)
    <3>1. Counted(proc[p].done, r) \in Nat
      BY <2>1, <2>3 DEF Counted
    <3>2. proc[p].buf \o r.data \in Seq(Int)
      BY <2>1, <2>3, ConcatProperties
    <3> QED BY <3>1, <3>2
  <2>5. q \in ProcRec /\ q.op \in {"read", "readend"} /\ q.at = proc[p].at
    BY <1>1, <2>4 DEF ProcRec, NextTurn
  <2> HIDE DEF q
  <2>6. UserIn(q)
    BY <1>1, <1>2, <2>5 DEF UserIn, file
  <2> QED BY <1>1, <2>2, <2>5, <2>6, MovedOnly
<1>5. CASE read_end(p)
  <2> DEFINE q == [proc[p] EXCEPT !.op = "idle", !.pos = @ + proc[p].done,
                                  !.got = @ \o proc[p].buf,
                                  !.ended = proc[p].done = 0]
  <2>1. proc[p].pos + proc[p].done \in Nat /\ proc[p].got \o proc[p].buf \in Seq(Item)
    <3>1. /\ proc[p].done \in Nat /\ proc[p].pos \in Nat
          /\ proc[p].got \in Seq(Item) /\ proc[p].buf \in Seq(Item)
      BY <1>1, BytesAreItems DEF ProcRec
    <3>2. proc[p].got \o proc[p].buf \in Seq(Item)
      BY <3>1, ConcatProperties
    <3> QED BY <3>1, <3>2
  <2>2. proc' = [proc EXCEPT ![p] = q]
    BY <1>1, <1>5 DEF read_end
  <2>3. q \in ProcRec /\ q.op = "idle" /\ q.at = proc[p].at
    <3>1. proc[p] \in ProcRec /\ (proc[p].done = 0) \in BOOLEAN
      BY <1>1
    <3> QED BY <2>1, <3>1 DEF ProcRec
  <2> HIDE DEF q
  <2>4. UserIn(q)
    BY <1>1, <1>2, <2>3 DEF UserIn, file
  <2> QED BY <1>1, <2>2, <2>3, <2>4, MovedOnly
<1> QED BY <1>3, <1>4, <1>5

\* The records of a directory are all there when a call is done with them, if
\* it takes none that were there before for them.
LEMMA WholeDir ==
  ASSUME DeviceOK, MemoryOK, NEW j \in DOMAIN inode, inode[j].kind = "dir",
         ~Stale(inode[j])
  PROVE  LET w == read_whole_dir(inode[j])
             L == Listing(img, inode[j].base_sdb)
         IN /\ w \in InodeRec /\ Told(w) = Told(inode[j])
            /\ w.nfiles = Len(L) /\ \A k \in 1..Len(L) : w.files[k] = L[k]
            /\ w.nfiles = 0 \/ Whole(w)
<1> DEFINE n == inode[j]
           r == At(img, n.base_sdb).records
           w == read_whole_dir(n)
           L == Listing(img, n.base_sdb)
<1>1. n \in InodeRec /\ (n.nfiles = 0 \/ Whole(n))
  BY DEF MemoryOK, InodeType, Filled, Stale
<1>2. /\ L \in Seq(Int) /\ Len(L) \in Nat /\ DOMAIN L = 1..Len(L)
      /\ Len(L) = IF At(img, n.base_sdb).magic THEN r ELSE 0
  <2>1. Fsimg[sb] \in DOMAIN Image /\ img = Image[Fsimg[sb]]
        /\ DirOf(n) \in Dirs[Fsimg[sb]] /\ DirOf(n).sdb = n.base_sdb
    BY DirFacts DEF DirOf
  <2> QED BY <2>1, ListingFacts
<1>3. CASE n.nfiles # 0
  <2>1. w = n /\ Whole(n)
    BY <1>1, <1>3 DEF read_whole_dir
  <2>2. L = n.files /\ Len(L) = n.nfiles
    BY <1>2, <2>1 DEF Whole, Listing
  <2> HIDE DEF w, L, n
  <2> QED BY <1>1, <2>1, <2>2 DEF w, L, n
<1>4. CASE n.nfiles = 0 /\ At(img, n.base_sdb).magic
  <2>1. w = [n EXCEPT !.nfiles = r, !.files = L, !.own = TRUE]
    BY <1>4 DEF read_whole_dir, Listing
  <2>2. r = Len(L) /\ r \in Nat /\ L = Records(img, n.base_sdb)
    BY <1>2, <1>4 DEF Listing
  <2> HIDE DEF w, L
  <2>3. /\ w \in InodeRec /\ Told(w) = Told(n) /\ w.nfiles = r /\ w.files = L
        /\ w.base_sdb = n.base_sdb
    BY <1>1, <1>2, <2>1, <2>2 DEF InodeRec, Told
  <2>4. Whole(w)
    BY <1>4, <2>2, <2>3 DEF Whole
  <2> QED BY <2>2, <2>3, <2>4 DEF w, L
<1>5. CASE n.nfiles = 0 /\ ~At(img, n.base_sdb).magic
  <2>1. w = n /\ Len(L) = 0
    BY <1>2, <1>5 DEF read_whole_dir
  <2> HIDE DEF w, L
  <2> QED BY <1>1, <1>5, <2>1 DEF w, L
<1> QED BY <1>3, <1>4, <1>5

LEMMA FilesAreRecords ==
  ASSUME DeviceOK, MemoryOK, NEW j \in DOMAIN inode, inode[j].kind = "dir",
         ~Stale(inode[j])
  PROVE  LET w == read_whole_dir(inode[j])
         IN w \in InodeRec /\ \A k \in 1..w.nfiles : w.files[k] \in Int
<1> DEFINE w == read_whole_dir(inode[j])
           L == Listing(img, inode[j].base_sdb)
<1>1. /\ w \in InodeRec /\ w.nfiles = Len(L)
      /\ \A k \in 1..Len(L) : w.files[k] = L[k]
  BY WholeDir
<1>2. L \in Seq(Int)
  <2>1. Fsimg[sb] \in DOMAIN Image /\ img = Image[Fsimg[sb]]
        /\ DirOf(inode[j]) \in Dirs[Fsimg[sb]]
        /\ DirOf(inode[j]).sdb = inode[j].base_sdb
    BY DirFacts DEF DirOf
  <2> QED BY <2>1, ListingFacts
<1> HIDE DEF w, L
<1>3. \A k \in 1..Len(L) : L[k] \in Int
  BY <1>2
<1> QED BY <1>1, <1>3 DEF w

\* A directory's inode after a call that read its records and gave it back.
LEMMA DirRead ==
  ASSUME DeviceOK, MemoryOK, NEW p \in Procs, UNCHANGED <<owner, sb>>,
         proc[p].at \in DOMAIN inode, dir(p).kind = "dir", ~Stale(dir(p)),
         inode' = Unlocked([inode EXCEPT ![proc[p].at] = read_whole_dir(dir(p))], p)
  PROVE  SameInodes /\ Filled'
<1> DEFINE j == proc[p].at
           w == read_whole_dir(inode[j])
<1>1. w \in InodeRec /\ Told(w) = Told(inode[j]) /\ (w.nfiles = 0 \/ Whole(w))
  BY WholeDir DEF dir
<1>2. \A i \in DOMAIN inode : inode[i] \in InodeRec
  BY DEF MemoryOK, InodeType
<1>3. inode' = [inode EXCEPT ![j] = [w EXCEPT !.mutex = FALSE]]
  BY DEF Unlocked, dir
<1> HIDE DEF w
<1>4. SameInodes
  <2>1. [w EXCEPT !.mutex = FALSE] \in InodeRec
        /\ Told([w EXCEPT !.mutex = FALSE]) = Told(w)
    BY <1>1 DEF InodeRec, Told
  <2> QED BY <1>1, <1>2, <1>3, <2>1 DEF SameInodes, KnownInodes, MemoryOK, InodeType,
     InMemory, Rooted
<1>5. Filled'
  <2> SUFFICES ASSUME NEW i \in DOMAIN inode, inode'[i].kind = "dir"
               PROVE  inode'[i].nfiles = 0 \/ ~inode'[i].own \/ Whole(inode'[i])
    BY <1>4 DEF Filled, SameInodes, KnownInodes, Whole, img, Fsimg
  <2>1. CASE i = j
    <3>1. /\ inode'[i].nfiles = w.nfiles /\ inode'[i].files = w.files
          /\ inode'[i].base_sdb = w.base_sdb
      BY <1>1, <1>3, <2>1 DEF InodeRec
    <3> QED BY <1>1, <3>1 DEF Whole
  <2>2. CASE i # j
    BY <1>3, <2>2 DEF MemoryOK, Filled, Whole
  <2> QED BY <2>1, <2>2
<1> QED BY <1>4, <1>5

\* A call gives entries from where the process is at up to another place, and
\* none only at the end.
LEMMA EntriesFacts ==
  ASSUME NEW w \in InodeRec, \A k \in 1..w.nfiles : w.files[k] \in Int
  PROVE  Entries(w) \in Seq(Item) /\ Len(Entries(w)) = w.nfiles + 2
<1> DEFINE F == [k \in 1..w.nfiles |-> EntryOf(w, w.files[k])]
<1>1. w.nfiles \in Nat /\ w.base_sdb \in Int
  BY DEF InodeRec
<1>2. \A k \in 1..w.nfiles : EntryOf(w, w.files[k]) \in Item
  BY <1>1 DEF EntryOf, INO, Item
<1>3. F \in Seq(Item) /\ Len(F) = w.nfiles
  BY <1>1, <1>2, IsASeq, LenProperties
<1>4. Dots \in Seq(Item) /\ Len(Dots) = 2
  BY DEF Dots, Dot, DotDot, NoIno, Item
<1>5. Entries(w) = Dots \o F
  BY DEF Entries
<1> HIDE DEF F
<1>6. \A s, t \in Seq(Item) : s \o t \in Seq(Item) /\ Len(s \o t) = Len(s) + Len(t)
  BY ConcatProperties
<1>7. Dots \o F \in Seq(Item) /\ Len(Dots \o F) = Len(Dots) + Len(F)
  BY <1>3, <1>4, <1>6
<1> HIDE DEF Item
<1> QED BY <1>1, <1>3, <1>4, <1>5, <1>7

LEMMA Emits ==
  ASSUME NEW w \in InodeRec, \A k \in 1..w.nfiles : w.files[k] \in Int,
         NEW pos \in Nat
  PROVE  /\ Emitted(w, pos) \in Seq(Item) /\ Len(Emitted(w, pos)) \in Nat
         /\ \E m \in Nat :
              /\ Emitted(w, pos) = SubSeq(Entries(w), pos + 1, m)
              /\ m <= w.nfiles + 2
              /\ pos <= w.nfiles + 2 => pos <= m /\ (m = pos => m = w.nfiles + 2)
<1>1. Entries(w) \in Seq(Item) /\ Len(Entries(w)) = w.nfiles + 2 /\ w.nfiles \in Nat
  BY EntriesFacts DEF InodeRec
<1>2. Room \in Nat \ {0}
  BY SdbfsKernelAssumption
<1>3. PICK m \in Nat : /\ Emitted(w, pos) = SubSeq(Entries(w), pos + 1, m)
                       /\ m <= w.nfiles + 2
                       /\ pos <= w.nfiles + 2 =>
                            pos <= m /\ (m = pos => m = w.nfiles + 2)
  <2>1. CASE pos + Room < w.nfiles + 2
    <3> DEFINE to == pos + Room
    <3>1. /\ Emitted(w, pos) = SubSeq(Entries(w), pos + 1, to)
          /\ to \in Nat
      BY <1>2, <2>1 DEF Emitted
    <3>2. to <= w.nfiles + 2 /\ pos <= to /\ to # pos
      BY <1>1, <1>2, <2>1
    <3> HIDE DEF to
    <3> QED BY <3>1, <3>2
  <2>2. CASE ~(pos + Room < w.nfiles + 2)
    <3> DEFINE to == w.nfiles + 2
    <3>1. /\ Emitted(w, pos) = SubSeq(Entries(w), pos + 1, to)
          /\ to \in Nat /\ to <= to /\ to = w.nfiles + 2
      BY <1>1, <2>2 DEF Emitted
    <3> HIDE DEF to
    <3> QED BY <3>1
  <2> QED BY <2>1, <2>2
<1>4. \A k \in pos + 1..m : Entries(w)[k] \in Item
  BY <1>1, <1>3
<1>5. Emitted(w, pos) \in Seq(Item)
  BY <1>3, <1>4, SubSeqProperties
<1> QED BY <1>3, <1>5

LEMMA MemoryReaddir ==
  ASSUME DeviceOK, MemoryOK, NEW p \in Procs, sdbfs_readdir(p)
  PROVE  MemoryOK' /\ KnownInodes
<1> DEFINE w == read_whole_dir(dir(p))
           e == Emitted(w, proc[p].pos)
           q == [proc[p] EXCEPT !.op = "idle", !.pos = @ + Len(e),
                                !.got = @ \o e, !.ended = e = <<>>]
<1>1. /\ proc[p] \in ProcRec /\ proc \in [Procs -> ProcRec] /\ UserIn(proc[p])
      /\ proc[p].op = "readdir" /\ UNCHANGED <<owner, sb, dcache>>
  BY DEF MemoryOK, InodeType, InMemory, sdbfs_readdir, modvars, sbvars
<1>2. proc[p].at \in DOMAIN inode /\ dir(p).kind = "dir" /\ proc[p].at # NoIno
      /\ ~Stale(dir(p))
  BY <1>1 DEF UserIn, dir, sdbfs_readdir
<1>3. SameInodes /\ Filled'
  BY <1>1, <1>2, DirRead DEF sdbfs_readdir
<1>4. e \in Seq(Item) /\ Len(e) \in Nat
  <2>1. /\ w \in InodeRec /\ proc[p].pos \in Nat
        /\ \A k \in 1..w.nfiles : w.files[k] \in Int
    BY <1>1, <1>2, FilesAreRecords DEF dir, ProcRec
  <2> QED BY <2>1, Emits
<1> HIDE DEF e
<1>5. proc' = [proc EXCEPT ![p] = q]
  BY <1>1 DEF sdbfs_readdir, e
<1>6. q \in ProcRec /\ q.op = "idle" /\ q.at = proc[p].at
  <2>1. /\ proc[p].pos \in Nat /\ proc[p].got \in Seq(Item)
        /\ (e = <<>>) \in BOOLEAN
    BY <1>1 DEF ProcRec
  <2>2. proc[p].got \o e \in Seq(Item)
    BY <1>4, <2>1, ConcatProperties
  <2>3. proc[p].pos + Len(e) \in Nat
    BY <1>4, <2>1
  <2> QED BY <1>1, <2>1, <2>2, <2>3 DEF ProcRec
<1> HIDE DEF q
<1>7. UserIn(q)
  BY <1>2, <1>6 DEF UserIn, dir
<1> QED BY <1>1, <1>3, <1>5, <1>6, <1>7, Moved

\* The records of a name in the directory at an address.
RecordsOf(at, name) ==
  {a \in Range(Listing(img, at)) : At(img, a).name = name}

\* The number that a lookup comes to is that of the first record of the name.
LEMMA NumberIs ==
  ASSUME DeviceOK, MemoryOK, NEW p \in Procs,
         proc[p].at \in DOMAIN inode, dir(p).kind = "dir", ~Stale(dir(p))
  PROVE  LET w == read_whole_dir(dir(p))
             A == RecordsOf(dir(p).base_sdb, proc[p].name)
         IN /\ Found(p, w) = {} => A = {}
            /\ Found(p, w) # {} =>
                 /\ A # {} /\ Number(p, w) = INO(Min(A)) /\ Number(p, w) \in Nat
                 /\ Number(p, w) >= 2
                 /\ RecordAt(Number(p, w)) \in Range(Listing(img, dir(p).base_sdb))
<1> DEFINE at == dir(p).base_sdb
           L == Listing(img, at)
           w == read_whole_dir(dir(p))
           A == RecordsOf(at, proc[p].name)
           F == Found(p, w)
<1>1. /\ L \in Seq(Int) /\ Len(L) \in Nat /\ DOMAIN L = 1..Len(L) /\ at \in Nat
      /\ \A k \in 1..Len(L) : L[k] = at + SDB_SIZE * (k - 1)
  <2>1. /\ Fsimg[sb] \in DOMAIN Image /\ img = Image[Fsimg[sb]]
        /\ DirOf(dir(p)) \in Dirs[Fsimg[sb]] /\ DirOf(dir(p)).sdb = at
    BY DirFacts DEF DirOf, dir
  <2> QED BY <2>1, ListingFacts
<1>2. w.nfiles = Len(L) /\ w.base_sdb = at /\ \A k \in 1..Len(L) : w.files[k] = L[k]
  BY WholeDir DEF dir, Told
<1>3. A = {a \in Range(L) : At(img, a).name = proc[p].name}
  BY DEF RecordsOf
<1>4. F = {k \in 1..Len(L) : At(img, w.files[k]).name = proc[p].name}
  BY <1>2 DEF Found
<1>5. Number(p, w) = INO(at + SDB_SIZE * (Min(F) - 1))
  BY <1>2 DEF Number, Min
<1> HIDE DEF at, L, w, A, F
<1>6. \A k \in F : k \in 1..Len(L) /\ at + SDB_SIZE * (k - 1) \in A
  <2>1. \A k \in F : k \in 1..Len(L) /\ At(img, L[k]).name = proc[p].name
    BY <1>2, <1>4
  <2>2. \A k \in 1..Len(L) : L[k] \in Range(L)
    BY <1>1 DEF Range
  <2>3. \A k \in F : L[k] \in A
    BY <1>3, <2>1, <2>2
  <2> QED BY <1>1, <2>1, <2>3
<1>7. \A a \in A : a \in Nat /\ a \in Range(L)
                   /\ \E k \in F : a = at + SDB_SIZE * (k - 1)
  <2> SUFFICES ASSUME NEW a \in A
               PROVE  a \in Nat /\ a \in Range(L)
                      /\ \E k \in F : a = at + SDB_SIZE * (k - 1)
    OBVIOUS
  <2>1. PICK k \in 1..Len(L) : a = L[k]
    BY <1>1, <1>3 DEF Range
  <2>2. a = at + SDB_SIZE * (k - 1) /\ w.files[k] = a /\ a \in Nat
    BY <1>1, <1>2, <2>1 DEF SDB_SIZE
  <2>3. k \in F
    BY <1>3, <1>4, <2>2
  <2> QED BY <1>3, <2>2, <2>3
<1>8. F = {} => A = {}
  BY <1>7
<1>9. ASSUME F # {}
      PROVE  /\ A # {} /\ Number(p, w) = INO(Min(A)) /\ Number(p, w) \in Nat
             /\ Number(p, w) >= 2 /\ RecordAt(Number(p, w)) \in Range(L)
  <2>1. Min(F) \in F /\ \A k \in F : Min(F) <= k
    BY <1>6, <1>9, Least
  <2>2. A # {} /\ A \subseteq Nat
    BY <1>6, <1>7, <1>9
  <2>3. Min(A) \in A /\ \A a \in A : Min(A) <= a
    BY <2>2, Least
  <2>4. PICK k \in F : Min(A) = at + SDB_SIZE * (k - 1)
    BY <1>7, <2>3
  <2>5. at + SDB_SIZE * (Min(F) - 1) \in A /\ Min(F) \in Nat
    BY <1>6, <2>1
  <2>6. /\ Min(F) <= k /\ Min(A) <= at + SDB_SIZE * (Min(F) - 1)
        /\ k \in Nat /\ at \in Nat
    BY <1>1, <1>6, <2>1, <2>3, <2>4, <2>5
  <2>7. Min(A) = at + SDB_SIZE * (Min(F) - 1)
    BY <2>4, <2>5, <2>6 DEF SDB_SIZE
  <2>8. Min(A) \in Nat /\ Min(A) \in Range(L)
    BY <1>7, <2>3
  <2>9. Number(p, w) = Min(A) + 2
    BY <1>5, <2>7 DEF INO
  <2>10. RecordAt(Number(p, w)) = Min(A)
    BY <2>8, <2>9 DEF RecordAt
  <2> QED BY <2>2, <2>8, <2>9, <2>10 DEF INO
<1> QED BY <1>8, <1>9 DEF at, L, w, A, F

\* A process that looks up or makes an inode is at a directory in memory.
LEMMA AtDirectory ==
  ASSUME MemoryOK, NEW p \in Procs, proc[p].op \in {"lookup", "iget", "readdir"}
  PROVE  /\ proc[p].at \in DOMAIN inode /\ dir(p).kind = "dir" /\ proc[p].at # NoIno
         /\ dir(p) \in InodeRec /\ proc[p] \in ProcRec /\ sb # NoDev
  BY DEF MemoryOK, InMemory, InodeType, Rooted, UserIn, dir

\* A call that ends with an entry for the cache.
LEMMA EntryAdded ==
  ASSUME NEW p \in Procs, proc[p] \in ProcRec, NEW j \in Nat
  PROVE  LET q == [Away EXCEPT !.at = IF j = NoIno THEN proc[p].at ELSE j]
         IN /\ Entry(p, j) \in [dir : Nat, name : AnyName, ino : Nat]
            /\ q \in ProcRec /\ q.op = "idle"
            /\ q.at = IF j = NoIno THEN proc[p].at ELSE j
<1>1. proc[p].at \in Nat /\ proc[p].name \in AnyName
  BY DEF ProcRec
<1>2. Away \in ProcRec /\ Away.op = "idle"
  BY AwayFacts
<1>3. Entry(p, j) \in [dir : Nat, name : AnyName, ino : Nat]
  BY <1>1 DEF Entry
<1> QED BY <1>1, <1>2, <1>3 DEF ProcRec

LEMMA MemoryFound ==
  ASSUME DeviceOK, MemoryOK, NEW p \in Procs, proc[p].op = "lookup",
         ~Stale(dir(p)), NEW j \in Nat, UNCHANGED <<owner, sb>>, j # ROOT,
         j # NoIno => j \in DOMAIN inode /\ inode[j].kind # "new",
         Added(p, [inode EXCEPT ![proc[p].at] = read_whole_dir(dir(p))], j)
  PROVE  MemoryOK' /\ KnownInodes
<1> DEFINE q == [Away EXCEPT !.at = IF j = NoIno THEN proc[p].at ELSE j]
<1>1. proc[p].at \in DOMAIN inode /\ dir(p).kind = "dir" /\ proc[p] \in ProcRec
  BY AtDirectory
<1>2. SameInodes /\ Filled'
  BY <1>1, DirRead DEF Added
<1>3. /\ Entry(p, j) \in [dir : Nat, name : AnyName, ino : Nat]
      /\ q \in ProcRec /\ q.op = "idle"
      /\ q.at = IF j = NoIno THEN proc[p].at ELSE j
  BY <1>1, EntryAdded
<1>4. proc' = [proc EXCEPT ![p] = q] /\ dcache' = dcache \union {Entry(p, j)}
  BY DEF Added
<1> HIDE DEF q
<1>5. UserIn(q)
  BY <1>1, <1>3 DEF UserIn, dir
<1>6. NameIn(Entry(p, j))
  BY <1>1 DEF NameIn, Entry, dir
<1> QED BY <1>2, <1>3, <1>4, <1>5, <1>6, Moved

\* Lookups that make an inode make different ones.
LEMMA MemoryNew ==
  ASSUME DeviceOK, MemoryOK, NEW p \in Procs, proc[p].op = "lookup",
         sdbfs_lookup(p), Found(p, read_whole_dir(dir(p))) # {},
         Number(p, read_whole_dir(dir(p))) \notin DOMAIN inode
  PROVE  MemoryOK' /\ KnownInodes
<1> DEFINE w == read_whole_dir(dir(p))
           n == Number(p, w)
           L == Listing(img, dir(p).base_sdb)
<1>1. /\ proc[p].at \in DOMAIN inode /\ dir(p).kind = "dir" /\ proc[p] \in ProcRec
      /\ sb # NoDev /\ proc[p].at # NoIno /\ ~Stale(dir(p))
  BY AtDirectory DEF sdbfs_lookup
<1>2. n \in Nat /\ n >= 2 /\ RecordAt(n) \in Range(L)
  BY <1>1, NumberIs
<1>3. /\ w \in InodeRec /\ Told(w) = Told(dir(p)) /\ (w.nfiles = 0 \/ Whole(w))
  BY <1>1, WholeDir DEF dir
<1>4. /\ inode' = [k \in DOMAIN inode \union {n} |->
                     IF k = n THEN Busy ELSE [inode EXCEPT ![proc[p].at] = w][k]]
      /\ proc' = [proc EXCEPT ![p] = [proc[p] EXCEPT !.op = "iget", !.ino = n]]
      /\ UNCHANGED <<owner, sb, dcache>>
      /\ n \notin DOMAIN inode
  BY DEF sdbfs_lookup, Added, modvars, sbvars, MemoryOK, InodeType
<1>5. DirOf(dir(p)) \in Dirs[Fsimg[sb]] /\ DirOf(dir(p)).sdb = dir(p).base_sdb
  BY <1>1, DirFacts DEF dir, DirOf
<1>6. Busy \in InodeRec /\ Busy.kind = "new"
  BY DEF Busy, InodeRec
<1> HIDE DEF w, n, L
<1>7. /\ DOMAIN inode' = DOMAIN inode \union {n} /\ inode'[n] = Busy
      /\ \A j \in DOMAIN inode : /\ j # n
                                 /\ inode'[j] = IF j = proc[p].at THEN w ELSE inode[j]
  BY <1>1, <1>4
<1>8. KnownInodes
  BY <1>1, <1>2, <1>3, <1>4, <1>6, <1>7
     DEF KnownInodes, MemoryOK, InodeType, dir, NoIno
<1>9. \A j \in DOMAIN inode :
        /\ Told(inode'[j]) = Told(inode[j]) /\ inode'[j].kind = inode[j].kind
        /\ inode'[j].base_sdb = inode[j].base_sdb
  BY <1>3, <1>7 DEF dir, Told
<1>10. PICK q \in ProcRec : /\ proc' = [proc EXCEPT ![p] = q]
                            /\ q.op = "iget" /\ q.ino = n /\ q.at = proc[p].at
  <2> DEFINE q == [proc[p] EXCEPT !.op = "iget", !.ino = n]
  <2>1. q \in ProcRec /\ q.op = "iget" /\ q.ino = n /\ q.at = proc[p].at
    BY <1>1, <1>2 DEF ProcRec
  <2> HIDE DEF q
  <2> QED BY <1>4, <2>1 DEF q
<1>11. UserIn(q)'
  BY <1>1, <1>7, <1>9, <1>10 DEF UserIn, dir
<1>12. /\ InodeType' /\ InMemory' /\ Fsimg' = Fsimg /\ img' = img
       /\ \A r \in Procs : proc'[r] = IF r = p THEN q ELSE proc[r]
       /\ \A r \in Procs \ {p} :
            proc[r].op = "iget" =>
                 dir(r)'.base_sdb = dir(r).base_sdb
  <2>1. dcache \subseteq dcache' /\ dcache' \ dcache = {}
    BY <1>4
  <2> QED BY <1>8, <1>10, <1>11, <2>1, Carried
<1>13. Filled'
  <2> SUFFICES ASSUME NEW j \in DOMAIN inode', inode'[j].kind = "dir"
               PROVE  inode'[j].nfiles = 0 \/ ~inode'[j].own \/ Whole(inode'[j])
    BY <1>12 DEF Filled, Whole
  <2>1. j \in DOMAIN inode /\ inode'[j] = IF j = proc[p].at THEN w ELSE inode[j]
    BY <1>6, <1>7
  <2> QED BY <1>3, <2>1 DEF MemoryOK, Filled, Whole
<1>14. Made'
  <2> SUFFICES ASSUME NEW j \in DOMAIN inode' \ {ROOT}
               PROVE  \E d \in Dirs[Fsimg[sb]] :
                        /\ RecordAt(j) \in Range(Listing(img, d.sdb))
                        /\ inode'[j].kind # "new" =>
                             MadeFrom(inode'[j], d, RecordAt(j))
    BY <1>8, <1>12 DEF Made, MadeFrom, KnownInodes
  <2>1. CASE j = n
    BY <1>2, <1>5, <1>6, <1>7, <2>1 DEF L
  <2>2. CASE j # n
    <3>1. j \in DOMAIN inode \ {ROOT} /\ Told(inode'[j]) = Told(inode[j])
      BY <1>7, <1>9, <2>2
    <3>2. PICK d \in Dirs[Fsimg[sb]] :
            /\ RecordAt(j) \in Range(Listing(img, d.sdb))
            /\ inode[j].kind # "new" => MadeFrom(inode[j], d, RecordAt(j))
      BY <3>1 DEF MemoryOK, Made
    <3>3. inode'[j].kind # "new" => MadeFrom(inode'[j], d, RecordAt(j))
      BY <3>1, <3>2 DEF MadeFrom, DirOf, Told
    <3> QED BY <3>2, <3>3
  <2> QED BY <2>1, <2>2
<1>15. Making'
  <2> SUFFICES ASSUME NEW r \in Procs, proc'[r].op = "iget"
               PROVE  /\ proc'[r].ino \in DOMAIN inode'
                      /\ inode'[proc'[r].ino].kind = "new"
                      /\ RecordAt(proc'[r].ino) \in Range(Listing(img', dir(r)'.base_sdb))
                      /\ \A t \in Procs : proc'[t].op = "iget"
                           /\ proc'[t].ino = proc'[r].ino => t = r
    BY DEF Making
  <2>1. \A t \in Procs \ {p} : proc[t].op = "iget" =>
          /\ proc'[t] = proc[t] /\ proc[t].ino \in DOMAIN inode
          /\ inode[proc[t].ino].kind = "new"
          /\ RecordAt(proc[t].ino) \in Range(Listing(img, dir(t).base_sdb))
          /\ \A u \in Procs : proc[u].op = "iget" /\ proc[u].ino = proc[t].ino => u = t
    BY <1>12 DEF MemoryOK, Making
  <2>2. CASE r = p
    <3>1. proc'[p] = q /\ dir(p)'.base_sdb = dir(p).base_sdb
      BY <1>1, <1>9, <1>10, <1>12 DEF dir, Told
    <3> QED BY <1>2, <1>6, <1>7, <1>10, <1>12, <2>1, <2>2, <3>1 DEF L
  <2>3. CASE r # p
    <3>1. proc'[r] = proc[r] /\ proc[r].op = "iget" /\ proc'[p].ino = n
      BY <1>10, <1>12, <2>3
    <3>2. /\ proc[r].ino \in DOMAIN inode /\ inode[proc[r].ino].kind = "new"
          /\ RecordAt(proc[r].ino) \in Range(Listing(img, dir(r).base_sdb))
      BY <2>1, <2>3, <3>1
    <3>3. inode'[proc[r].ino].kind = "new" /\ proc[r].ino # n
      BY <1>7, <1>9, <3>2 DEF Told
    <3> QED BY <1>7, <1>12, <2>1, <2>3, <3>1, <3>2, <3>3
  <2> QED BY <2>2, <2>3
<1> QED BY <1>8, <1>12, <1>13, <1>14, <1>15 DEF MemoryOK

LEMMA MemoryLookup ==
  ASSUME DeviceOK, MemoryOK, NEW p \in Procs, sdbfs_lookup(p)
  PROVE  MemoryOK' /\ KnownInodes
<1> DEFINE w == read_whole_dir(dir(p))
           n == Number(p, w)
           f == [inode EXCEPT ![proc[p].at] = w]
<1>1. proc[p].op = "lookup" /\ UNCHANGED <<owner, sb>> /\ ~Stale(dir(p))
  BY DEF sdbfs_lookup, modvars, sbvars
<1>2. Found(p, w) # {} => n \in Nat /\ n >= 2
  BY <1>1, AtDirectory, NumberIs
<1>3. CASE Found(p, w) = {} /\ Added(p, f, NoIno)
  BY <1>1, <1>3, MemoryFound DEF NoIno, ROOT
<1>4. CASE Found(p, w) # {} /\ n \in DOMAIN inode /\ inode[n].kind # "new"
           /\ Added(p, f, n)
  <2>1. n \in Nat /\ n # ROOT
    BY <1>2, <1>4 DEF ROOT
  <2> HIDE DEF n
  <2> QED BY <1>1, <1>4, <2>1, MemoryFound
<1>5. CASE Found(p, w) # {} /\ n \notin DOMAIN inode
  BY <1>1, <1>5, MemoryNew
<1> QED BY <1>3, <1>4, <1>5 DEF sdbfs_lookup

\* The inode that sdbfs_iget makes is what is at the address taken for the
\* record; its memory is as it was before otherwise.
LEMMA IgetMakes ==
  ASSUME NEW n \in DOMAIN Image, img = Image[n], NEW d \in InodeRec,
         DirOf(d) \in Dirs[n], NEW j \in Nat, NEW m \in Leftovers,
         RecordAt(j) \in Range(Listing(img, d.base_sdb))
  PROVE  LET i == iget(d, j, m)
         IN /\ i \in InodeRec /\ i.kind # "new" /\ ~i.own
            /\ MadeFrom(i, DirOf(d), RecordAt(j))
<1> DEFINE r == At(img, OFFSET(j))
           e == [Busy EXCEPT !.nfiles = m.nfiles, !.files = m.files, !.first = r.first,
                             !.size = r.last - r.first + 1]
           i == iget(d, j, m)
<1>1. DirOf(d).sdb = d.base_sdb /\ DirOf(d).base = d.base_data
      /\ d.base_sdb \in Int /\ d.base_data \in Int
  BY DEF DirOf, InodeRec
<1>2. r = Taken(img, RecordAt(j))
  <2>1. INO(RecordAt(j)) = j
    BY DEF INO, RecordAt
  <2> QED BY <2>1 DEF Taken
<1>3. /\ r.type \in {"interconnect", "device", "bridge", "other"}
      /\ r.first \in Nat /\ r.last \in Nat
      /\ r.type = "bridge" => Within(img, DirOf(d), RecordAt(j)) \in Dirs[n]
  <2> HIDE DEF r
  <2> QED BY <1>1, <1>2, ListingFacts
<1>4. e \in InodeRec /\ e.first = r.first /\ e.size = r.last - r.first + 1
      /\ e.base_sdb = 0 /\ ~e.own
  <2>1. r.first \in Int /\ r.last - r.first + 1 \in Int
    BY <1>3
  <2>2. Busy \in InodeRec /\ Busy.base_sdb = 0 /\ ~Busy.own
    BY DEF Busy, InodeRec
  <2>3. m.nfiles \in Nat /\ m.files \in Seq(Int)
    BY SdbfsKernelAssumption
  <2> HIDE DEF r
  <2> QED BY <2>1, <2>2, <2>3 DEF InodeRec
<1>5. CASE r.type \in {"interconnect", "device"}
  <2>1. i = [e EXCEPT !.kind = "file", !.base_data = d.base_data + r.first]
    BY <1>5 DEF iget
  <2>2. d.base_data + r.first \in Int
    BY <1>1, <1>3
  <2> HIDE DEF i, e
  <2>3. i \in InodeRec /\ i.kind = "file" /\ i.base_data = d.base_data + r.first
        /\ i.first = e.first /\ i.size = e.size /\ i.own = e.own
        /\ i.base_sdb = e.base_sdb
    <3> HIDE DEF r
    <3> QED BY <1>4, <2>1, <2>2 DEF InodeRec
  <2> HIDE DEF r
  <2> QED BY <1>1, <1>2, <1>4, <1>5, <2>3 DEF MadeFrom, i
<1>6. CASE r.type = "bridge"
  <2>1. i = [e EXCEPT !.kind = "dir", !.base_data = d.base_data + r.first,
                      !.base_sdb = d.base_data + r.child]
    BY <1>6 DEF iget
  <2> HIDE DEF r
  <2>2. Within(img, DirOf(d), RecordAt(j))
          = [sdb |-> d.base_data + r.child, base |-> d.base_data + r.first]
    BY <1>1, <1>2 DEF Within
  <2>3. d.base_data + r.child \in Int /\ d.base_data + r.first \in Int
    <3>1. Within(img, DirOf(d), RecordAt(j)).sdb \in Nat
          /\ Within(img, DirOf(d), RecordAt(j)).base \in Nat
      BY <1>3, <1>6, ImageAssumption
    <3> QED BY <2>2, <3>1
  <2> HIDE DEF i, e
  <2>4. i \in InodeRec /\ i.kind = "dir" /\ i.base_data = d.base_data + r.first
        /\ i.first = e.first /\ i.size = e.size /\ i.own = e.own
        /\ i.base_sdb = d.base_data + r.child
    BY <1>4, <2>1, <2>3 DEF InodeRec
  <2>5. DirOf(i) = Within(img, DirOf(d), RecordAt(j))
    BY <2>2, <2>4 DEF DirOf
  <2> QED BY <1>2, <1>4, <1>6, <2>4, <2>5 DEF MadeFrom, i
<1>7. CASE r.type = "other"
  <2>1. i = [e EXCEPT !.kind = "none"]
    BY <1>7 DEF iget
  <2> HIDE DEF i, e, r
  <2>2. i \in InodeRec /\ i.kind = "none"
        /\ i.first = e.first /\ i.size = e.size /\ i.own = e.own
    BY <1>4, <2>1 DEF InodeRec
  <2> QED BY <1>2, <1>4, <1>7, <2>2 DEF MadeFrom, i
<1> QED BY <1>3, <1>5, <1>6, <1>7

LEMMA MemoryIget ==
  ASSUME DeviceOK, MemoryOK, NEW p \in Procs, sdbfs_iget(p)
  PROVE  MemoryOK' /\ KnownInodes
<1> DEFINE n == proc[p].ino
<1>0. PICK m \in Leftovers : Added(p, [inode EXCEPT ![n] = iget(dir(p), n, m)], n)
  BY DEF sdbfs_iget
<1> DEFINE i == iget(dir(p), n, m)
<1>1. /\ proc[p].at \in DOMAIN inode /\ dir(p).kind = "dir" /\ proc[p] \in ProcRec
      /\ dir(p) \in InodeRec /\ sb # NoDev /\ proc[p].at # NoIno
      /\ proc[p].op = "iget"
  BY AtDirectory DEF sdbfs_iget
<1>2. /\ n \in DOMAIN inode /\ inode[n].kind = "new" /\ n # proc[p].at /\ n # ROOT
      /\ n \in Nat \ {NoIno} /\ RecordAt(n) \in Range(Listing(img, dir(p).base_sdb))
      /\ \A q \in Procs : proc[q].op = "iget" /\ proc[q].ino = n => q = p
  <2>1. /\ n \in DOMAIN inode /\ inode[n].kind = "new"
        /\ RecordAt(n) \in Range(Listing(img, dir(p).base_sdb))
        /\ \A q \in Procs : proc[q].op = "iget" /\ proc[q].ino = n => q = p
    BY <1>1 DEF MemoryOK, Making
  <2> QED BY <1>1, <2>1 DEF MemoryOK, InMemory, Rooted, InodeType, dir
<1>3. Fsimg[sb] \in DOMAIN Image /\ img = Image[Fsimg[sb]]
      /\ DirOf(dir(p)) \in Dirs[Fsimg[sb]] /\ DirOf(dir(p)).sdb = dir(p).base_sdb
  BY <1>1, DirFacts DEF dir, DirOf
<1>4. i \in InodeRec /\ i.kind # "new" /\ ~i.own
      /\ MadeFrom(i, DirOf(dir(p)), RecordAt(n))
  BY <1>1, <1>2, <1>3, IgetMakes
<1>5. Added(p, [inode EXCEPT ![n] = i], n) /\ UNCHANGED <<owner, sb>>
  BY <1>0 DEF sdbfs_iget, modvars, sbvars
<1> HIDE DEF n, i
<1>6. /\ DOMAIN inode' = DOMAIN inode /\ inode'[n] = i
      /\ inode'[proc[p].at] = [dir(p) EXCEPT !.mutex = FALSE]
      /\ \A j \in DOMAIN inode \ {n, proc[p].at} : inode'[j] = inode[j]
  BY <1>1, <1>2, <1>5 DEF Added, Unlocked, dir
<1>7. \A j \in DOMAIN inode \ {n} :
        /\ Told(inode'[j]) = Told(inode[j]) /\ inode'[j].kind = inode[j].kind
        /\ inode'[j].base_sdb = inode[j].base_sdb
        /\ inode'[j].nfiles = inode[j].nfiles /\ inode'[j].files = inode[j].files
        /\ inode'[j].own = inode[j].own
        /\ inode'[j] \in InodeRec
  <2>1. LET c == [dir(p) EXCEPT !.mutex = FALSE]
        IN /\ c \in InodeRec /\ Told(c) = Told(dir(p)) /\ c.kind = dir(p).kind
           /\ c.base_sdb = dir(p).base_sdb
           /\ c.nfiles = dir(p).nfiles /\ c.files = dir(p).files
           /\ c.own = dir(p).own
    BY <1>1 DEF InodeRec, Told
  <2> QED BY <1>6, <2>1 DEF MemoryOK, InodeType, dir
<1>8. KnownInodes
  BY <1>1, <1>2, <1>4, <1>5, <1>6, <1>7 DEF KnownInodes, MemoryOK, InodeType
<1>9. PICK q \in ProcRec : /\ proc' = [proc EXCEPT ![p] = q]
                           /\ q.op = "idle" /\ q.at = n
  <2> DEFINE q == [Away EXCEPT !.at = IF n = NoIno THEN proc[p].at ELSE n]
  <2>1. q \in ProcRec /\ q.op = "idle" /\ q.at = n
    BY <1>1, <1>2, EntryAdded
  <2> HIDE DEF q
  <2>2. proc' = [proc EXCEPT ![p] = q]
    BY <1>5 DEF Added, q
  <2> QED BY <2>1, <2>2
<1>10. PICK e \in [dir : Nat, name : AnyName, ino : Nat] :
         dcache' = dcache \union {e} /\ e.dir = proc[p].at /\ e.ino = n
  <2>1. Entry(p, n) \in [dir : Nat, name : AnyName, ino : Nat]
    BY <1>1, <1>2, EntryAdded
  <2> QED BY <1>5, <2>1 DEF Added, Entry
<1>11. UserIn(q)' /\ NameIn(e)'
  BY <1>1, <1>2, <1>4, <1>6, <1>7, <1>9, <1>10 DEF UserIn, NameIn, dir
<1>12. /\ InodeType' /\ InMemory' /\ Fsimg' = Fsimg /\ img' = img
       /\ \A r \in Procs : proc'[r] = IF r = p THEN q ELSE proc[r]
       /\ \A r \in Procs \ {p} :
            proc[r].op = "iget" =>
                 dir(r)'.base_sdb = dir(r).base_sdb
  <2>1. dcache \subseteq dcache' /\ \A c \in dcache' \ dcache : c = e
    BY <1>10
  <2> QED BY <1>8, <1>9, <1>11, <2>1, Carried
<1>13. Filled'
  <2> SUFFICES ASSUME NEW j \in DOMAIN inode, inode'[j].kind = "dir"
               PROVE  inode'[j].nfiles = 0 \/ ~inode'[j].own \/ Whole(inode'[j])
    BY <1>6, <1>12 DEF Filled, Whole
  <2> QED BY <1>4, <1>6, <1>7 DEF MemoryOK, Filled, Whole
<1>14. Made'
  <2> SUFFICES ASSUME NEW j \in DOMAIN inode \ {ROOT}
               PROVE  \E d \in Dirs[Fsimg[sb]] :
                        /\ RecordAt(j) \in Range(Listing(img, d.sdb))
                        /\ inode'[j].kind # "new" =>
                             MadeFrom(inode'[j], d, RecordAt(j))
    BY <1>6, <1>8, <1>12 DEF Made, MadeFrom, KnownInodes
  <2>1. CASE j = n
    BY <1>2, <1>3, <1>4, <1>6, <2>1
  <2>2. CASE j # n
    <3>1. PICK d \in Dirs[Fsimg[sb]] :
            /\ RecordAt(j) \in Range(Listing(img, d.sdb))
            /\ inode[j].kind # "new" => MadeFrom(inode[j], d, RecordAt(j))
      BY DEF MemoryOK, Made
    <3>2. inode'[j].kind # "new" => MadeFrom(inode'[j], d, RecordAt(j))
      BY <1>7, <2>2, <3>1 DEF MadeFrom, DirOf, Told
    <3> QED BY <3>1, <3>2
  <2> QED BY <2>1, <2>2
<1>15. Making'
  <2> SUFFICES ASSUME NEW r \in Procs, proc'[r].op = "iget"
               PROVE  /\ proc'[r].ino \in DOMAIN inode'
                      /\ inode'[proc'[r].ino].kind = "new"
                      /\ RecordAt(proc'[r].ino) \in Range(Listing(img', dir(r)'.base_sdb))
                      /\ \A t \in Procs : proc'[t].op = "iget"
                           /\ proc'[t].ino = proc'[r].ino => t = r
    BY DEF Making
  <2>1. r # p /\ proc'[r] = proc[r] /\ proc'[p].op # "iget"
    BY <1>9, <1>12
  <2>2. /\ proc[r].ino \in DOMAIN inode /\ inode[proc[r].ino].kind = "new"
        /\ RecordAt(proc[r].ino) \in Range(Listing(img, dir(r).base_sdb))
        /\ \A t \in Procs : proc[t].op = "iget" /\ proc[t].ino = proc[r].ino => t = r
        /\ proc[r].ino # n
    BY <1>2, <2>1 DEF MemoryOK, Making
  <2>3. \A t \in Procs \ {p} : proc'[t] = proc[t]
    BY <1>12
  <2> QED BY <1>6, <1>7, <1>12, <2>1, <2>2, <2>3
<1> QED BY <1>8, <1>12, <1>13, <1>14, <1>15 DEF MemoryOK

\* What goes with a name is used by nobody.
LEMMA MemoryEvict ==
  ASSUME MemoryOK, NEW e \in dcache, Evict(e), ~UNCHANGED allvars
  PROVE  MemoryOK'
<1>1. /\ UNCHANGED <<owner, sb, proc>> /\ dcache' = dcache \ {e}
      /\ DOMAIN inode' \subseteq DOMAIN inode
      /\ \A j \in DOMAIN inode' : inode'[j] = inode[j]
      /\ \A j \in DOMAIN inode : j # e.ino => j \in DOMAIN inode'
      /\ \A c \in dcache' : c.ino = e.ino => DOMAIN inode' = DOMAIN inode
  BY DEF Evict, modvars, sbvars, Crash
<1>2. /\ e.ino # NoIno => \A p \in Procs : proc[p].at # e.ino
      /\ \A c \in dcache : c.dir # e.ino
      /\ e.ino # ROOT /\ (e.ino # NoIno => inode[e.ino].kind # "new")
      /\ NoIno \notin DOMAIN inode
  BY DEF Evict, MemoryOK, InMemory, NameIn, InodeType
<1>3. img' = img /\ Fsimg' = Fsimg
  BY <1>1 DEF img, Fsimg
<1>4. InodeType'
  BY <1>1 DEF MemoryOK, InodeType, InodeRec, ProcRec, AnyName, Names, At
<1>5. InMemory'
  <2>1. Rooted'
    BY <1>1, <1>2, <1>3 DEF MemoryOK, InMemory, Rooted
  <2>2. ASSUME NEW p \in Procs PROVE UserIn(proc[p])'
    BY <1>1, <1>2 DEF MemoryOK, InMemory, UserIn
  <2>3. ASSUME NEW c \in dcache' PROVE NameIn(c)'
    <3>1. NameIn(c) /\ c.dir # e.ino
      BY <1>1, <1>2 DEF MemoryOK, InMemory
    <3> QED BY <1>1, <3>1 DEF NameIn
  <2> QED BY <2>1, <2>2, <2>3 DEF InMemory
<1>6. Making'
  <2> SUFFICES ASSUME NEW p \in Procs, proc[p].op = "iget"
               PROVE  /\ proc[p].ino \in DOMAIN inode'
                      /\ inode'[proc[p].ino].kind = "new"
                      /\ RecordAt(proc[p].ino) \in Range(Listing(img, dir(p)'.base_sdb))
                      /\ \A q \in Procs : proc[q].op = "iget"
                           /\ proc[q].ino = proc[p].ino => q = p
    BY <1>1, <1>3 DEF Making
  <2>1. /\ proc[p].ino \in DOMAIN inode /\ inode[proc[p].ino].kind = "new"
        /\ RecordAt(proc[p].ino) \in Range(Listing(img, dir(p).base_sdb))
        /\ \A q \in Procs : proc[q].op = "iget" /\ proc[q].ino = proc[p].ino => q = p
    BY DEF MemoryOK, Making
  <2>2. proc[p].ino # e.ino /\ proc[p].ino \in DOMAIN inode'
    BY <1>1, <1>2, <2>1
  <2>3. proc[p].at \in DOMAIN inode /\ proc[p].at # e.ino
    BY <1>2 DEF MemoryOK, InMemory, UserIn
  <2>4. dir(p)' = dir(p)
    BY <1>1, <2>3 DEF dir
  <2> QED BY <1>1, <2>1, <2>2, <2>4
<1>7. Made'
  <2> SUFFICES ASSUME NEW j \in DOMAIN inode' \ {ROOT}
               PROVE  \E d \in Dirs[Fsimg[sb]] :
                        /\ RecordAt(j) \in Range(Listing(img, d.sdb))
                        /\ inode'[j].kind # "new" =>
                             MadeFrom(inode'[j], d, RecordAt(j))
    BY <1>1, <1>3 DEF Made, MadeFrom
  <2> QED BY <1>1 DEF MemoryOK, Made
<1>8. Filled'
  BY <1>1, <1>3 DEF MemoryOK, Filled, Whole
<1> QED BY <1>4, <1>5, <1>6, <1>7, <1>8 DEF MemoryOK

\* Nobody uses an inode while nothing is mounted.
LEMMA NothingMounted ==
  ASSUME MemoryOK, sb = NoDev
  PROVE  /\ \A p \in Procs : proc[p].at = NoIno /\ proc[p].op = "idle"
         /\ dcache = {}
  BY DEF MemoryOK, InMemory, Rooted, UserIn, NameIn

LEMMA MemoryFill ==
  ASSUME DeviceOK, DeviceOK', MemoryOK, fill_super, ~UNCHANGED <<sb, inode>>
  PROVE  MemoryOK'
<1>1. PICK m \in Leftovers :
        /\ mount.step = "get" /\ sb' = mount.sd /\ UNCHANGED <<owner, dcache, proc>>
        /\ inode' = [k \in {ROOT} |-> RootInode(Image[mount.name], m)]
        /\ try_module_get /\ ~Gone
  BY DEF fill_super, Crash, allvars, modvars, sbvars
<1> DEFINE name == mount.name
           n == RootInode(Image[name], m)
<1>2. sb = NoDev /\ Fsimg[mount.sd] = name /\ mount.sd \in devlist
  BY <1>1 DEF DeviceOK, DeviceType, Sought, Gone, try_module_get
<1>3. sb' # NoDev /\ name \in DOMAIN Image /\ Fsimg' = Fsimg /\ img' = Image[name]
  <2>1. owner \in Owners /\ mount.sd \in 1..Len(Fsimg)
    BY <1>2 DEF DeviceOK, DeviceType
  <2> QED BY <1>1, <1>2, <2>1, GivenFacts DEF Fsimg, img, NoDev
<1> HIDE DEF name
<1>4. /\ n \in InodeRec /\ n.kind = "dir" /\ ~n.own
      /\ DirOf(n) = [sdb |-> Image[name].entry, base |-> 0]
  <2>1. Image[name].size \in Nat /\ Image[name].entry \in Nat
    BY <1>3, RootFacts
  <2>2. m.nfiles \in Nat /\ m.files \in Seq(Int)
    BY SdbfsKernelAssumption
  <2> QED BY <2>1, <2>2 DEF RootInode, InodeRec, DirOf
<1>5. /\ \A p \in Procs : proc[p].at = NoIno /\ proc[p].op = "idle"
      /\ dcache = {}
  BY <1>2, NothingMounted
<1> HIDE DEF n
<1>6. DOMAIN inode' = {ROOT} /\ inode'[ROOT] = n
  BY <1>1 DEF n, name
<1>7. InodeType'
  <2>1. proc' \in [Procs -> ProcRec] /\ dcache' = {}
    BY <1>1, <1>5 DEF MemoryOK, InodeType
  <2>2. ROOT \in Nat \ {NoIno}
    BY DEF ROOT, NoIno
  <2> QED BY <1>4, <1>6, <2>1, <2>2 DEF InodeType
<1>8. InMemory'
  BY <1>1, <1>3, <1>4, <1>5, <1>6 DEF InMemory, Rooted, UserIn
<1>9. Making' /\ Made' /\ Filled'
  BY <1>1, <1>4, <1>5, <1>6 DEF Making, Made, Filled
<1> QED BY <1>7, <1>8, <1>9 DEF MemoryOK

LEMMA MemoryUmount ==
  ASSUME MemoryOK, Umount, ~UNCHANGED allvars
  PROVE  MemoryOK'
<1>1. /\ sb' = NoDev /\ DOMAIN inode' = {} /\ dcache' = {} /\ proc' = proc
      /\ \A p \in Procs : proc[p].at = NoIno
  BY DEF Umount, Crash
<1>2. \A p \in Procs : proc[p].op = "idle"
  BY <1>1 DEF MemoryOK, InMemory, UserIn
<1>3. InodeType'
  BY <1>1 DEF MemoryOK, InodeType, ProcRec, AnyName, Names, At
<1>4. InMemory'
  BY <1>1, <1>2 DEF InMemory, Rooted, UserIn
<1>5. Making' /\ Made' /\ Filled'
  BY <1>1, <1>2 DEF Making, Made, Filled
<1> QED BY <1>3, <1>4, <1>5 DEF MemoryOK

LEMMA MemoryUsers ==
  ASSUME DeviceOK, MemoryOK, NEW p \in Procs, Steps(p)
  PROVE  MemoryOK' /\ KnownInodes
<1>1. CASE Open(p) \/ Walk(p) \/ Close(p)
  BY <1>1, MemoryOpen
<1>2. CASE readdir_start(p) \/ \E name \in Names \ {"."} : lookup_start(p, name)
  BY <1>2, MemoryStarts
<1>3. CASE \/ sdbfs_lookup(p) \/ sdbfs_iget(p) \/ sdbfs_readdir(p) \/ sdbfs_read(p)
           \/ read_end(p) \/ \E c \in Counts : read_start(p, c)
  BY <1>3, MemoryLookup, MemoryIget, MemoryReaddir, MemoryReads
<1>4. CASE stale_dir(p)
  <2>1. UNCHANGED <<owner, sb, inode, dcache, proc>>
    BY <1>4 DEF stale_dir, Crash, allvars, modvars, sbvars
  <2> QED BY <2>1, MemoryStill DEF KnownInodes, MemoryOK, InodeType, InMemory, Rooted
<1> QED BY <1>1, <1>2, <1>3, <1>4 DEF Steps, Call

\* What a step of the device module or of a mount leaves alone.
Elsewhere == UNCHANGED <<owner, sb, inode, dcache, proc>>

LEMMA OthersElsewhere ==
  ASSUME \/ Load \/ fakedev_init \/ sdbmem_init
         \/ Unload \/ fakedev_exit \/ sdbmem_exit
         \/ get_by_name \/ sdbfs_put \/ UNCHANGED allvars
         \/ \E n \in DOMAIN Image : Mount(n)
         \/ fill_super /\ UNCHANGED <<sb, inode>>
  PROVE  Elsewhere
<1>1. CASE \/ Load \/ fakedev_init \/ sdbmem_init
           \/ Unload \/ fakedev_exit \/ sdbmem_exit
  BY <1>1 DEF Load, fakedev_init, sdbmem_init, Unload, fakedev_exit, sdbmem_exit,
     sbvars, Elsewhere
<1>2. CASE \E n \in DOMAIN Image : Mount(n)
  BY <1>2 DEF Mount, modvars, Elsewhere
<1>3. CASE get_by_name \/ sdbfs_put \/ UNCHANGED allvars
  BY <1>3 DEF get_by_name, sdbfs_put, Crash, allvars, modvars, sbvars, Elsewhere
<1>4. CASE fill_super /\ UNCHANGED <<sb, inode>>
  BY <1>4 DEF fill_super, Crash, allvars, modvars, sbvars, Elsewhere
<1> QED BY <1>1, <1>2, <1>3, <1>4

\* The steps that matter to what is mounted.
LEMMA StepCases ==
  ASSUME [Next]_vars
  PROVE  \/ Elsewhere
         \/ fill_super /\ ~UNCHANGED <<sb, inode>>
         \/ Umount /\ ~UNCHANGED allvars
         \/ \E e \in dcache : Evict(e) /\ ~UNCHANGED allvars
         \/ \E p \in Procs : Steps(p)
<1>1. CASE UNCHANGED vars
  BY <1>1, OthersElsewhere DEF vars
<1>2. CASE Next
  BY <1>2, OthersElsewhere DEF Next, Steps
<1> QED BY <1>1, <1>2

LEMMA MemoryStep == DeviceOK /\ MemoryOK /\ [Next]_vars => MemoryOK'
<1> SUFFICES ASSUME DeviceOK, MemoryOK, [Next]_vars PROVE MemoryOK'
  OBVIOUS
<1>1. CASE Elsewhere
  BY <1>1, MemoryStill DEF Elsewhere
<1>2. CASE fill_super /\ ~UNCHANGED <<sb, inode>>
  BY <1>2, DeviceFill, MemoryFill
<1>3. CASE Umount /\ ~UNCHANGED allvars
  BY <1>3, MemoryUmount
<1>4. CASE \E e \in dcache : Evict(e) /\ ~UNCHANGED allvars
  BY <1>4, MemoryEvict
<1>5. ASSUME NEW p \in Procs, Steps(p) PROVE MemoryOK'
  BY <1>5, MemoryUsers
<1> QED BY <1>1, <1>2, <1>3, <1>4, <1>5, StepCases

\* The invariant behind the theorems about names, listings and data.
THEOREM MemoryInvariance == Spec => [](DeviceOK /\ MemoryOK)
<1>1. Init => DeviceOK /\ MemoryOK
  BY DeviceInit, MemoryInit
<1>2. DeviceOK /\ MemoryOK /\ [Next]_vars => (DeviceOK /\ MemoryOK)'
  BY DeviceStep, MemoryStep
<1> QED BY <1>1, <1>2, PTL DEF Spec

(***************************************************************************)
(* Names, listings and data.                                               *)
(***************************************************************************)
\* A cached name leads to its first record, or nowhere if there is none, and
\* a process makes the inode of the first record of the name it looks up.
Leads(at, name, ino) ==
  LET A == RecordsOf(at, name)
  IN IF ino = NoIno THEN A = {} ELSE A # {} /\ ino = INO(Min(A))

NamesOK ==
  /\ \A e \in dcache : Leads(inode[e.dir].base_sdb, e.name, e.ino)
  /\ \A p \in Procs : proc[p].op = "iget" =>
       Leads(dir(p).base_sdb, proc[p].name, proc[p].ino)

\* Names keep leading where they did while the directories stay.
LEMMA NamesKept ==
  ASSUME MemoryOK, MemoryOK', NamesOK, UNCHANGED <<owner, sb>>,
         \A j \in DOMAIN inode \cap DOMAIN inode' : inode[j].kind = "dir" =>
           inode'[j].base_sdb = inode[j].base_sdb,
         \A e \in dcache' \ dcache :
           /\ Leads(inode[e.dir].base_sdb, e.name, e.ino)
           /\ e.dir \in DOMAIN inode /\ inode[e.dir].kind = "dir",
         \A p \in Procs : proc'[p].op = "iget" =>
           /\ proc'[p].at = proc[p].at
           /\ proc[p].at \in DOMAIN inode /\ dir(p).kind = "dir"
           /\ Leads(dir(p).base_sdb, proc'[p].name, proc'[p].ino)
  PROVE  NamesOK'
<1>1. img' = img
  BY DEF img, Fsimg
<1>2. \A at, name, i : Leads(at, name, i)' <=> Leads(at, name, i)
  BY <1>1 DEF Leads, RecordsOf
<1>3. ASSUME NEW e \in dcache'
      PROVE  Leads(inode'[e.dir].base_sdb, e.name, e.ino)
  <2>1. Leads(inode[e.dir].base_sdb, e.name, e.ino)
        /\ e.dir \in DOMAIN inode /\ inode[e.dir].kind = "dir"
    BY DEF NamesOK, MemoryOK, InMemory, NameIn
  <2>2. e.dir \in DOMAIN inode'
    BY DEF MemoryOK, InMemory, NameIn
  <2> QED BY <2>1, <2>2
<1>4. ASSUME NEW p \in Procs, proc'[p].op = "iget"
      PROVE  Leads(dir(p)'.base_sdb, proc'[p].name, proc'[p].ino)
  <2>1. proc'[p].at \in DOMAIN inode' /\ proc'[p].at = proc[p].at
        /\ proc[p].at \in DOMAIN inode /\ dir(p).kind = "dir"
        /\ Leads(dir(p).base_sdb, proc'[p].name, proc'[p].ino)
    BY <1>4 DEF MemoryOK, InMemory, UserIn
  <2>2. dir(p)'.base_sdb = dir(p).base_sdb
    BY <2>1 DEF dir
  <2> QED BY <2>1, <2>2
<1> QED BY <1>1, <1>3, <1>4 DEF NamesOK, Leads, RecordsOf

\* A process adds the name it has looked up, or the inode of it.
LEMMA NamesUsers ==
  ASSUME DeviceOK, MemoryOK, NamesOK, NEW p \in Procs, Steps(p)
  PROVE  NamesOK'
<1>1. MemoryOK' /\ KnownInodes
  BY MemoryUsers
<1>2. \A j \in DOMAIN inode \cap DOMAIN inode' : inode[j].kind = "dir" =>
        inode'[j].base_sdb = inode[j].base_sdb
  BY <1>1 DEF KnownInodes, Told
<1>3. UNCHANGED <<owner, sb>>
  BY <1>1 DEF KnownInodes
<1>4. proc \in [Procs -> ProcRec]
  BY DEF MemoryOK, InodeType
<1>5. ASSUME NEW r \in Procs, proc[r].op = "iget"
      PROVE  /\ proc[r].at \in DOMAIN inode /\ dir(r).kind = "dir"
             /\ Leads(dir(r).base_sdb, proc[r].name, proc[r].ino)
  BY <1>5, AtDirectory DEF NamesOK
<1>6. CASE /\ UNCHANGED dcache
           /\ \A r \in Procs : proc'[r].op = "iget" => proc'[r] = proc[r]
  BY <1>1, <1>2, <1>3, <1>5, <1>6, NamesKept
<1>7. ASSUME NEW j, NEW f, Added(p, f, j), proc[p].op \in {"lookup", "iget"},
             Leads(dir(p).base_sdb, proc[p].name, j)
      PROVE  NamesOK'
  <2>1. /\ dcache' = dcache \union {Entry(p, j)}
        /\ \A r \in Procs : proc'[r].op = "iget" => proc'[r] = proc[r]
    <3>1. [Away EXCEPT !.at = IF j = NoIno THEN proc[p].at ELSE j].op = "idle"
      BY DEF Away
    <3> QED BY <1>4, <1>7, <3>1 DEF Added
  <2>2. ASSUME NEW e \in dcache' \ dcache
        PROVE  /\ Leads(inode[e.dir].base_sdb, e.name, e.ino)
               /\ e.dir \in DOMAIN inode /\ inode[e.dir].kind = "dir"
    <3>1. e.dir = proc[p].at /\ e.name = proc[p].name /\ e.ino = j
      BY <2>1 DEF Entry
    <3>2. proc[p].at \in DOMAIN inode /\ dir(p).kind = "dir"
      BY <1>7, AtDirectory
    <3> QED BY <1>7, <3>1, <3>2 DEF dir
  <2> QED BY <1>1, <1>2, <1>3, <1>5, <2>1, <2>2, NamesKept
<1>8. CASE sdbfs_lookup(p)
  <2> DEFINE w == read_whole_dir(dir(p))
             n == Number(p, w)
  <2>1. /\ proc[p].op = "lookup" /\ proc[p].at \in DOMAIN inode
        /\ dir(p).kind = "dir" /\ ~Stale(dir(p))
    BY <1>8, AtDirectory DEF sdbfs_lookup
  <2>2. /\ Found(p, w) = {} => Leads(dir(p).base_sdb, proc[p].name, NoIno)
        /\ Found(p, w) # {} => Leads(dir(p).base_sdb, proc[p].name, n)
    BY <2>1, NumberIs DEF Leads, NoIno
  <2>3. CASE Found(p, w) = {} \/ n \in DOMAIN inode
    BY <1>7, <1>8, <2>1, <2>2, <2>3 DEF sdbfs_lookup
  <2>4. CASE Found(p, w) # {} /\ n \notin DOMAIN inode
    <3>1. UNCHANGED dcache /\ proc' = [proc EXCEPT ![p].op = "iget", ![p].ino = n]
      BY <1>8, <2>4 DEF sdbfs_lookup
    <3> HIDE DEF n
    <3>2. ASSUME NEW r \in Procs, proc'[r].op = "iget"
          PROVE  /\ proc'[r].at = proc[r].at
                 /\ proc[r].at \in DOMAIN inode /\ dir(r).kind = "dir"
                 /\ Leads(dir(r).base_sdb, proc'[r].name, proc'[r].ino)
      <4>1. CASE r = p
        <5>1. proc'[p].at = proc[p].at /\ proc'[p].name = proc[p].name
              /\ proc'[p].ino = n
          BY <1>4, <3>1 DEF ProcRec
        <5> QED BY <2>1, <2>2, <2>4, <4>1, <5>1
      <4>2. CASE r # p
        BY <1>4, <1>5, <3>1, <3>2, <4>2
      <4> QED BY <4>1, <4>2
    <3> QED BY <1>1, <1>2, <1>3, <3>1, <3>2, NamesKept
  <2> QED BY <2>3, <2>4
<1>9. CASE sdbfs_iget(p)
  <2>1. proc[p].op = "iget" /\ \E f : Added(p, f, proc[p].ino)
    BY <1>9 DEF sdbfs_iget
  <2> QED BY <1>5, <1>7, <2>1
<1>10. CASE \/ Open(p) \/ Walk(p) \/ readdir_start(p) \/ Close(p)
            \/ sdbfs_readdir(p) \/ sdbfs_read(p) \/ read_end(p)
            \/ \E n \in Names \ {"."} : lookup_start(p, n)
            \/ \E c \in Counts : read_start(p, c)
  <2>1. UNCHANGED dcache
    BY <1>10 DEF Open, Walk, readdir_start, Close, sdbfs_readdir, sdbfs_read, read_end,
       lookup_start, read_start
  <2>2. \A r \in Procs : r # p => proc'[r] = proc[r]
    BY <1>4, <1>10 DEF Open, Walk, readdir_start, Close, sdbfs_readdir, sdbfs_read,
       read_end, lookup_start, read_start
  <2>3. proc'[p].op # "iget"
    <3>1. CASE Open(p) \/ Walk(p) \/ Close(p)
      <4>1. \A j : [Away EXCEPT !.at = j].op = "idle"
        BY DEF Away
      <4> QED BY <1>4, <3>1, <4>1, AwayFacts DEF Open, Walk, Close
    <3>2. CASE readdir_start(p) \/ \E n \in Names \ {"."} : lookup_start(p, n)
      BY <1>4, <3>2 DEF readdir_start, lookup_start, ProcRec
    <3>3. CASE sdbfs_readdir(p) \/ read_end(p) \/ \E c \in Counts : read_start(p, c)
      <4>1. ASSUME sdbfs_readdir(p) PROVE proc'[p].op = "idle"
        BY <1>4, <4>1 DEF sdbfs_readdir, ProcRec
      <4>2. ASSUME read_end(p) PROVE proc'[p].op = "idle"
        BY <1>4, <4>2 DEF read_end, ProcRec
      <4>3. ASSUME NEW c \in Counts, read_start(p, c) PROVE proc'[p].op = "read"
        BY <1>4, <4>3 DEF read_start, ProcRec
      <4> QED BY <3>3, <4>1, <4>2, <4>3
    <3>4. CASE sdbfs_read(p)
      BY <1>4, <3>4 DEF sdbfs_read, NextTurn, ProcRec
    <3> QED BY <1>10, <3>1, <3>2, <3>3, <3>4
  <2> QED BY <1>6, <2>1, <2>2, <2>3
<1>11. CASE stale_dir(p)
  BY <1>6, <1>11 DEF stale_dir, Crash, allvars
<1> QED BY <1>8, <1>9, <1>10, <1>11 DEF Steps, Call

\* Nobody uses a mount that begins.
LEMMA FillAlone ==
  ASSUME DeviceOK, MemoryOK, fill_super, ~UNCHANGED <<sb, inode>>
  PROVE  dcache' = {} /\ \A p \in Procs : proc'[p].at = NoIno /\ proc'[p].op = "idle"
<1>1. sb = NoDev /\ UNCHANGED <<dcache, proc>>
  BY DEF fill_super, Crash, allvars, modvars, sbvars, DeviceOK, Sought
<1> QED BY <1>1, NothingMounted

LEMMA NamesStep == DeviceOK /\ MemoryOK /\ NamesOK /\ [Next]_vars => NamesOK'
<1> SUFFICES ASSUME DeviceOK, MemoryOK, NamesOK, [Next]_vars PROVE NamesOK'
  OBVIOUS
<1>1. MemoryOK'
  BY MemoryStep
<1>2. CASE Elsewhere
  BY <1>2 DEF Elsewhere, NamesOK, Leads, RecordsOf, img, Fsimg, dir
<1>3. CASE fill_super /\ ~UNCHANGED <<sb, inode>>
  <2>1. dcache' = {} /\ \A p \in Procs : proc'[p].op = "idle"
    BY <1>3, FillAlone
  <2> QED BY <2>1 DEF NamesOK
<1>4. CASE Umount /\ ~UNCHANGED allvars
  <2>1. dcache' = {} /\ \A p \in Procs : proc'[p].op = "idle"
    BY <1>4 DEF Umount, Crash, MemoryOK, InMemory, UserIn
  <2> QED BY <2>1 DEF NamesOK
<1>5. ASSUME NEW e \in dcache, Evict(e), ~UNCHANGED allvars PROVE NamesOK'
  <2>1. /\ UNCHANGED <<owner, sb, proc>> /\ dcache' \subseteq dcache
        /\ \A j \in DOMAIN inode' : inode'[j] = inode[j]
    BY <1>5 DEF Evict, Crash, modvars, sbvars
  <2>2. \A r \in Procs : proc[r].op = "iget" =>
          /\ proc[r].at \in DOMAIN inode /\ dir(r).kind = "dir"
          /\ Leads(dir(r).base_sdb, proc[r].name, proc[r].ino)
    BY AtDirectory DEF NamesOK
  <2> QED BY <1>1, <2>1, <2>2, NamesKept
<1>6. ASSUME NEW p \in Procs, Steps(p) PROVE NamesOK'
  BY <1>6, NamesUsers
<1> QED BY <1>2, <1>3, <1>4, <1>5, <1>6, StepCases

LEMMA Aligned ==
  ASSUME NEW at \in Nat, at % 16 = 0, NEW k \in Nat
  PROVE  OFFSET(INO(at + SDB_SIZE * (k - 1))) = at + SDB_SIZE * (k - 1)
<1> DEFINE a == at + SDB_SIZE * (k - 1)
<1>1. a \in Int /\ (a % 16) = 0
  BY DEF SDB_SIZE
<1> HIDE DEF a
<1>2. ((a + 2) % 16) = 2
  BY <1>1
<1> QED BY <1>1, <1>2 DEF OFFSET, INO, a

\* The records of a directory that is aligned are what is taken for them.
LEMMA AlignedIsTaken ==
  ASSUME NEW n \in DOMAIN Image, NEW d \in Dirs[n], d.sdb % 16 = 0,
         NEW a \in Range(Listing(Image[n], d.sdb))
  PROVE  Taken(Image[n], a) = At(Image[n], a)
<1>1. PICK k \in 1..Len(Listing(Image[n], d.sdb)) : a = d.sdb + SDB_SIZE * (k - 1)
  BY ListingFacts
<1>2. d.sdb \in Nat /\ k \in Nat
  <2>1. d.sdb \in Nat /\ Len(Listing(Image[n], d.sdb)) \in Nat
    BY ListingFacts
  <2> QED BY <2>1
<1>3. OFFSET(INO(a)) = a
  BY <1>1, <1>2, Aligned
<1> QED BY <1>3 DEF Taken

\* A name in the cache leads to what the image says, whatever is looked up at
\* once, forgotten and looked up again, and whatever was in the memory of an
\* inode: the first record of the name in the directory, and its data and its
\* own records where they are in the image if the directory is aligned.
THEOREM NamesLeadRight == DirsApart => (Spec => []NamesRight)
<1> SUFFICES ASSUME DirsApart PROVE Spec => []NamesRight
  OBVIOUS
<1>1. Init => NamesOK
  BY AwayFacts DEF Init, NamesOK
<1>2. DeviceOK /\ MemoryOK /\ NamesOK /\ [Next]_vars => NamesOK'
  BY NamesStep
<1>3. DeviceOK /\ MemoryOK /\ NamesOK => NamesRight
  <2> SUFFICES ASSUME DeviceOK, MemoryOK, NamesOK, NEW e \in dcache
               PROVE  \E d \in Dirs[Fsimg[sb]] :
                        LET rs   == {a \in Range(Listing(img, d.sdb)) :
                                       At(img, a).name = e.name}
                            r    == At(img, CHOOSE a \in rs : \A b \in rs : a <= b)
                            here == [first |-> d.base + r.first,
                                     size |-> r.last - r.first + 1,
                                     sdb |-> IF r.type = "bridge" THEN d.base + r.child
                                             ELSE 0]
                        IN /\ inode[e.dir].base_sdb = d.sdb
                           /\ (e.ino = NoIno) = (rs = {})
                           /\ rs # {} /\ r.type # "other" /\ d.sdb % 16 = 0 =>
                                LET n == inode[e.ino]
                                IN [first |-> n.base_data, size |-> n.size,
                                    sdb |-> n.base_sdb] = here
    BY DEF NamesRight
  <2> DEFINE d == DirOf(inode[e.dir])
             A == RecordsOf(d.sdb, e.name)
             a == Min(A)
             r == At(img, a)
  <2>1. e.dir \in DOMAIN inode /\ inode[e.dir].kind = "dir" /\ e.ino # ROOT
        /\ (e.ino # NoIno => e.ino \in DOMAIN inode /\ inode[e.ino].kind # "new")
    BY DEF MemoryOK, InMemory, NameIn
  <2>2. /\ Fsimg[sb] \in DOMAIN Image /\ img = Image[Fsimg[sb]]
        /\ d \in Dirs[Fsimg[sb]] /\ d.sdb = inode[e.dir].base_sdb
    BY <2>1, DirFacts DEF DirOf
  <2>3. IF e.ino = NoIno THEN A = {} ELSE A # {} /\ e.ino = INO(a)
    BY <2>2 DEF NamesOK, Leads
  <2>4. A \subseteq Range(Listing(img, d.sdb)) /\ A \subseteq Nat
    BY <2>2, ListingFacts DEF RecordsOf
  <2>5. ASSUME A # {}, r.type # "other", d.sdb % 16 = 0
        PROVE  /\ inode[e.ino].base_data = d.base + r.first
               /\ inode[e.ino].size = r.last - r.first + 1
               /\ inode[e.ino].base_sdb =
                    IF r.type = "bridge" THEN d.base + r.child ELSE 0
    <3>1. a \in A /\ a \in Nat
      BY <2>4, <2>5, Least
    <3>2. e.ino \in DOMAIN inode \ {ROOT} /\ inode[e.ino].kind # "new"
          /\ RecordAt(e.ino) = a
      BY <2>1, <2>3, <2>5, <3>1 DEF INO, RecordAt
    <3>3. PICK c \in Dirs[Fsimg[sb]] : /\ a \in Range(Listing(img, c.sdb))
                                       /\ MadeFrom(inode[e.ino], c, a)
      BY <3>2 DEF MemoryOK, Made
    <3>4. c = d
      <4>1. \A at : Range(Listing(img, at)) \subseteq Range(Records(img, at))
        BY DEF Listing, Range
      <4>2. a \in Range(Records(img, c.sdb)) \cap Range(Records(img, d.sdb))
        BY <2>4, <3>1, <3>3, <4>1
      <4> HIDE DEF d, a
      <4> QED BY <2>2, <4>2 DEF DirsApart
    <3>5. Taken(img, a) = r
      <4> HIDE DEF a, d, A
      <4> QED BY <2>2, <2>4, <2>5, <3>1, AlignedIsTaken
    <3>6. r.type \in {"interconnect", "device", "bridge", "other"}
      <4> HIDE DEF r, a, d, A
      <4> QED BY <2>2, <2>4, <3>1, <3>5, ListingFacts
    <3> HIDE DEF d, a, A
    <3> QED BY <2>5, <3>3, <3>4, <3>5, <3>6 DEF MadeFrom, DirOf, Within
  <2>6. /\ {x \in Range(Listing(img, d.sdb)) : At(img, x).name = e.name} = A
        /\ (CHOOSE x \in A : \A b \in A : x <= b) = a
    BY DEF RecordsOf, Min
  <2> HIDE DEF d, A, a
  <2> QED BY <2>2, <2>3, <2>5, <2>6
<1>4. Spec => [](DeviceOK /\ MemoryOK)
  BY MemoryInvariance
<1> QED BY <1>1, <1>2, <1>3, <1>4, PTL DEF Spec

AllEntries(at) ==
  LET L == Listing(img, at)
  IN  Dots \o [k \in 1..Len(L) |-> [info |-> L[k], d_ino |-> INO(at)]]

\* A process has been given the first entries of the directory it is at.
Listed(q, all) ==
  /\ q.pos \in 0..Len(all) /\ q.got = SubSeq(all, 1, q.pos)
  /\ q.ended => q.pos = Len(all)

ListingsOK ==
  \A p \in Procs : proc[p].at # NoIno /\ dir(p).kind = "dir" =>
    Listed(proc[p], AllEntries(dir(p).base_sdb))

LEMMA AllEntriesFacts ==
  ASSUME DeviceOK, MemoryOK, NEW j \in DOMAIN inode, inode[j].kind = "dir"
  PROVE  LET L   == Listing(img, inode[j].base_sdb)
             all == AllEntries(inode[j].base_sdb)
         IN /\ all \in Seq(Item) /\ Len(all) \in Nat
            /\ L \in Seq(Int) /\ Len(all) = Len(L) + 2
<1> DEFINE at == inode[j].base_sdb
           L == Listing(img, at)
           F == [k \in 1..Len(L) |-> [info |-> L[k], d_ino |-> INO(at)]]
<1>1. L \in Seq(Int) /\ Len(L) \in Nat /\ at \in Int
  <2>1. /\ Fsimg[sb] \in DOMAIN Image /\ img = Image[Fsimg[sb]]
        /\ DirOf(inode[j]) \in Dirs[Fsimg[sb]] /\ DirOf(inode[j]).sdb = at
    BY DirFacts DEF DirOf
  <2> QED BY <2>1, ListingFacts
<1>2. AllEntries(at) = Dots \o F
  BY DEF AllEntries
<1> HIDE DEF L, at
<1>3. F \in Seq(Item) /\ Len(F) = Len(L)
  <2>1. \A k \in 1..Len(L) : [info |-> L[k], d_ino |-> INO(at)] \in Item
    <3>1. \A k \in 1..Len(L) : L[k] \in Int
      BY <1>1
    <3>2. INO(at) \in Int
      BY <1>1 DEF INO
    <3> QED BY <3>1, <3>2 DEF Item
  <2> DEFINE n == Len(L)
             G(k) == [info |-> L[k], d_ino |-> INO(at)]
  <2> HIDE DEF n
  <2>2. n \in Nat /\ F = [k \in 1..n |-> G(k)] /\ \A k \in 1..n : G(k) \in Item
    BY <1>1, <2>1 DEF n
  <2> HIDE DEF G, F
  <2>3. F \in Seq(Item) /\ Len(F) = n
    BY <2>2, IsASeq, LenProperties
  <2> QED BY <2>3 DEF n
<1>4. Dots \in Seq(Item) /\ Len(Dots) = 2
  BY DEF Dots, Dot, DotDot, NoIno, Item
<1> HIDE DEF F
<1>5. Dots \o F \in Seq(Item) /\ Len(Dots \o F) = Len(Dots) + Len(F)
  <2>1. \A s, t \in Seq(Item) :
          s \o t \in Seq(Item) /\ Len(s \o t) = Len(s) + Len(t)
    BY ConcatProperties
  <2> QED BY <1>3, <1>4, <2>1
<1> QED BY <1>1, <1>2, <1>3, <1>4, <1>5 DEF L, at

\* What a call finds in a directory is all of them.
LEMMA EntriesAreAll ==
  ASSUME DeviceOK, MemoryOK, NEW j \in DOMAIN inode, inode[j].kind = "dir",
         ~Stale(inode[j])
  PROVE  LET all == AllEntries(inode[j].base_sdb)
             w   == read_whole_dir(inode[j])
         IN w \in InodeRec /\ Entries(w) = all /\ w.nfiles + 2 = Len(all)
<1> DEFINE at == inode[j].base_sdb
           L == Listing(img, at)
           w == read_whole_dir(inode[j])
<1>1. /\ w \in InodeRec /\ w.nfiles = Len(L) /\ w.base_sdb = at
      /\ \A k \in 1..Len(L) : w.files[k] = L[k]
  BY WholeDir DEF Told
<1>2. Len(AllEntries(at)) = Len(L) + 2
  BY AllEntriesFacts
<1>3. AllEntries(at) = Dots \o [k \in 1..Len(L) |-> [info |-> L[k], d_ino |-> INO(at)]]
  BY DEF AllEntries
<1>4. Entries(w) = Dots \o [k \in 1..w.nfiles |->
                              [info |-> w.files[k], d_ino |-> INO(w.base_sdb)]]
  BY DEF Entries, EntryOf
<1> HIDE DEF L, w, at
<1>5. [k \in 1..w.nfiles |-> [info |-> w.files[k], d_ino |-> INO(w.base_sdb)]]
        = [k \in 1..Len(L) |-> [info |-> L[k], d_ino |-> INO(at)]]
  BY <1>1
<1>6. w.nfiles + 2 = Len(AllEntries(at))
  BY <1>1, <1>2
<1> QED BY <1>1, <1>3, <1>4, <1>5, <1>6 DEF w, at

\* A process begins afresh, goes on from where it is, or lists, or reads.
Fresh(q) == q.op = "idle" /\ q.pos = 0 /\ q.got = <<>> /\ ~q.ended

LEMMA ListedFresh ==
  ASSUME NEW q, NEW all \in Seq(Item), Fresh(q)
  PROVE  Listed(q, all)
<1>1. SubSeq(all, 1, 0) = <<>>
  BY SubSeqEmpty
<1> QED BY <1>1 DEF Listed, Fresh

LEMMA ListedMore ==
  ASSUME DeviceOK, MemoryOK, NEW p \in Procs, sdbfs_readdir(p),
         Listed(proc[p], AllEntries(dir(p).base_sdb))
  PROVE  Listed(proc'[p], AllEntries(dir(p).base_sdb))
<1> DEFINE all == AllEntries(dir(p).base_sdb)
           w == read_whole_dir(dir(p))
           pos == proc[p].pos
           e == Emitted(w, pos)
<1>1. proc[p].at \in DOMAIN inode /\ dir(p).kind = "dir" /\ proc[p] \in ProcRec
      /\ ~Stale(dir(p))
  BY AtDirectory DEF sdbfs_readdir
<1>2. /\ all \in Seq(Item) /\ Len(all) \in Nat
      /\ Entries(w) = all /\ w.nfiles + 2 = Len(all) /\ w \in InodeRec
  BY <1>1, AllEntriesFacts, EntriesAreAll DEF dir
<1>3. pos \in 0..Len(all) /\ proc[p].got = SubSeq(all, 1, pos)
  BY DEF Listed
<1>4. /\ proc'[p].pos = pos + Len(e) /\ proc'[p].got = proc[p].got \o e
      /\ proc'[p].ended = (e = <<>>)
  BY <1>1 DEF sdbfs_readdir, MemoryOK, InodeType, ProcRec
<1> HIDE DEF all, w, pos, e
<1>5. PICK m \in Nat : /\ e = SubSeq(all, pos + 1, m) /\ m <= Len(all) /\ pos <= m
                       /\ m = pos => m = Len(all)
  <2>1. w \in InodeRec /\ pos \in Nat /\ \A k \in 1..w.nfiles : w.files[k] \in Int
    BY <1>1, <1>2, <1>3, FilesAreRecords DEF w, dir
  <2>2. \E m \in Nat :
          /\ Emitted(w, pos) = SubSeq(Entries(w), pos + 1, m)
          /\ m <= w.nfiles + 2
          /\ pos <= w.nfiles + 2 => pos <= m /\ (m = pos => m = w.nfiles + 2)
    BY <2>1, Emits
  <2>3. Emitted(w, pos) = e
    BY DEF e
  <2> QED BY <1>2, <1>3, <2>2, <2>3
<1>6. proc'[p].got = SubSeq(all, 1, m)
  <2>1. 1 \in 1..Len(all) + 1 /\ pos \in 1 - 1..Len(all) /\ m \in pos..Len(all)
    BY <1>2, <1>3, <1>5
  <2> QED BY <1>2, <1>3, <1>4, <1>5, <2>1, ConcatAdjacentSubSeq
<1>7. Len(e) = m - pos
  <2>1. \A k \in pos + 1..m : all[k] \in Item
    BY <1>2, <1>3, <1>5
  <2>2. Len(e) = IF pos + 1 <= m THEN m - (pos + 1) + 1 ELSE 0
    BY <1>3, <1>5, <2>1, SubSeqProperties
  <2> QED BY <1>3, <1>5, <2>2
<1>8. proc'[p].pos = m
  BY <1>3, <1>4, <1>5, <1>7
<1>9. proc'[p].ended => m = Len(all)
  <2>1. proc'[p].ended => e = <<>>
    BY <1>4, Zenon
  <2>2. e = <<>> => Len(e) = 0
    OBVIOUS
  <2> QED BY <1>3, <1>5, <1>7, <2>1, <2>2
<1> QED BY <1>2, <1>5, <1>6, <1>8, <1>9 DEF Listed, all

LEMMA EntriesAreASeq ==
  DeviceOK /\ MemoryOK =>
    \A j \in DOMAIN inode :
      inode[j].kind = "dir" => AllEntries(inode[j].base_sdb) \in Seq(Item)
  BY AllEntriesFacts

LEMMA EntriesNext ==
  (DeviceOK /\ MemoryOK =>
     \A j \in DOMAIN inode :
       inode[j].kind = "dir" => AllEntries(inode[j].base_sdb) \in Seq(Item))'
  BY EntriesAreASeq, PTL

\* A step of one process leaves the others where they are.
LEMMA OnlyOwn ==
  ASSUME proc \in [Procs -> ProcRec], NEW p \in Procs, Steps(p)
  PROVE  \A r \in Procs : r # p => proc'[r] = proc[r]
<1>1. CASE Open(p) \/ Walk(p) \/ Close(p) \/ readdir_start(p)
           \/ (\E n \in Names \ {"."} : lookup_start(p, n))
           \/ \E c \in Counts : read_start(p, c)
  BY <1>1 DEF Open, Walk, Close, readdir_start, lookup_start, read_start
<1>2. CASE sdbfs_lookup(p) \/ sdbfs_iget(p)
  BY <1>2 DEF sdbfs_lookup, sdbfs_iget, Added
<1>3. CASE sdbfs_readdir(p) \/ sdbfs_read(p) \/ read_end(p)
  BY <1>3 DEF sdbfs_readdir, sdbfs_read, read_end
<1>4. CASE stale_dir(p)
  BY <1>4 DEF stale_dir, Crash, allvars
<1> QED BY <1>1, <1>2, <1>3, <1>4 DEF Steps, Call

\* A read is of a file in memory.
LEMMA FileAtWork ==
  ASSUME MemoryOK, NEW p \in Procs,
         sdbfs_read(p) \/ read_end(p) \/ \E c \in Counts : read_start(p, c)
  PROVE  /\ proc[p].at \in DOMAIN inode /\ inode[proc[p].at].kind = "file"
         /\ proc[p].at # NoIno /\ proc'[p].at = proc[p].at
<1>1. proc[p] \in ProcRec /\ UserIn(proc[p]) /\ proc \in [Procs -> ProcRec]
  BY DEF MemoryOK, InMemory, InodeType
<1>2. proc[p].at # NoIno /\ inode[proc[p].at].kind = "file"
  BY <1>1 DEF UserIn, sdbfs_read, read_end, read_start, Idle
<1>3. proc'[p].at = proc[p].at
  <2>1. ASSUME sdbfs_read(p) PROVE proc'[p].at = proc[p].at
    BY <1>1, <2>1 DEF sdbfs_read, ProcRec
  <2>2. ASSUME read_end(p) PROVE proc'[p].at = proc[p].at
    BY <1>1, <2>2 DEF read_end, ProcRec
  <2>3. ASSUME NEW c \in Counts, read_start(p, c) PROVE proc'[p].at = proc[p].at
    BY <1>1, <2>3 DEF read_start, ProcRec
  <2> QED BY <2>1, <2>2, <2>3
<1> QED BY <1>1, <1>2, <1>3 DEF UserIn

LEMMA Progress ==
  ASSUME MemoryOK, NEW p \in Procs, Steps(p)
  PROVE  \/ Fresh(proc'[p])
         \/ /\ proc[p].at \in DOMAIN inode /\ inode[proc[p].at].kind = "dir"
            /\ proc'[p].at = proc[p].at /\ proc'[p].pos = proc[p].pos
            /\ proc'[p].got = proc[p].got /\ proc'[p].ended = proc[p].ended
         \/ sdbfs_readdir(p) \/ read_end(p) \/ sdbfs_read(p)
         \/ \E c \in Counts : read_start(p, c)
<1>1. proc \in [Procs -> ProcRec] /\ proc[p] \in ProcRec
  BY DEF MemoryOK, InodeType
<1>2. Fresh(Away) /\ \A j : Fresh([Away EXCEPT !.at = j])
  BY DEF Away, Fresh
<1>3. CASE Open(p) \/ Walk(p) \/ Close(p)
  BY <1>1, <1>2, <1>3 DEF Open, Walk, Close
<1>4. ASSUME NEW f, NEW j, Added(p, f, j) PROVE Fresh(proc'[p])
  BY <1>1, <1>2, <1>4 DEF Added
<1>5. ASSUME proc' = [proc EXCEPT ![p].op = "iget",
                                  ![p].ino = Number(p, read_whole_dir(dir(p)))]
      PROVE  /\ proc'[p].at = proc[p].at /\ proc'[p].pos = proc[p].pos
             /\ proc'[p].got = proc[p].got /\ proc'[p].ended = proc[p].ended
  <2> DEFINE n == Number(p, read_whole_dir(dir(p)))
  <2> HIDE DEF n
  <2>1. proc' = [proc EXCEPT ![p].op = "iget", ![p].ino = n]
    BY <1>5 DEF n
  <2> QED BY <1>1, <2>1 DEF ProcRec
<1>6. CASE sdbfs_lookup(p)
  <2>1. proc[p].at \in DOMAIN inode /\ inode[proc[p].at].kind = "dir"
    BY <1>6, AtDirectory DEF sdbfs_lookup, dir
  <2> QED BY <1>4, <1>5, <1>6, <2>1 DEF sdbfs_lookup
<1>7. CASE sdbfs_iget(p)
  BY <1>4, <1>7 DEF sdbfs_iget
<1>8. CASE readdir_start(p) \/ \E n \in Names \ {"."} : lookup_start(p, n)
  <2>1. ASSUME readdir_start(p)
        PROVE  /\ proc'[p].at = proc[p].at /\ proc'[p].pos = proc[p].pos
               /\ proc'[p].got = proc[p].got /\ proc'[p].ended = proc[p].ended
    BY <1>1, <2>1 DEF readdir_start, ProcRec
  <2>2. ASSUME NEW n \in Names, lookup_start(p, n)
        PROVE  /\ proc'[p].at = proc[p].at /\ proc'[p].pos = proc[p].pos
               /\ proc'[p].got = proc[p].got /\ proc'[p].ended = proc[p].ended
    BY <1>1, <2>2 DEF lookup_start, ProcRec
  <2>3. proc[p].at \in DOMAIN inode /\ inode[proc[p].at].kind = "dir"
    BY <1>8 DEF readdir_start, lookup_start, Idle, MemoryOK, InMemory, UserIn
  <2> QED BY <1>8, <2>1, <2>2, <2>3
<1>9. CASE stale_dir(p)
  <2>1. proc[p].at \in DOMAIN inode /\ inode[proc[p].at].kind = "dir"
    BY <1>9, AtDirectory DEF stale_dir, dir
  <2> QED BY <1>9, <2>1 DEF stale_dir, Crash, allvars
<1> QED BY <1>3, <1>6, <1>7, <1>8, <1>9 DEF Steps, Call

\* What a process has been given of a directory stays so while others step.
LEMMA ListingsKept ==
  ASSUME MemoryOK, MemoryOK', ListingsOK, UNCHANGED <<owner, sb>>,
         NEW p \in Procs, proc'[p] = proc[p],
         \A j \in DOMAIN inode \cap DOMAIN inode' : inode[j].kind # "new" =>
           inode'[j].kind = inode[j].kind /\ inode'[j].base_sdb = inode[j].base_sdb,
         proc[p].at # NoIno, inode'[proc'[p].at].kind = "dir"
  PROVE  Listed(proc'[p], AllEntries(inode'[proc'[p].at].base_sdb))
<1>1. proc[p].at \in DOMAIN inode /\ proc[p].at \in DOMAIN inode'
      /\ inode[proc[p].at].kind # "new"
  BY DEF MemoryOK, InMemory, UserIn
<1> QED BY <1>1 DEF ListingsOK, dir

LEMMA ListingsUsers ==
  ASSUME DeviceOK, MemoryOK, ListingsOK, NEW p \in Procs, Steps(p)
  PROVE  ListingsOK'
<1>1. MemoryOK' /\ KnownInodes /\ DeviceOK'
  BY MemoryUsers, UsersAreStill, DeviceStill
<1>2. \A j \in DOMAIN inode \cap DOMAIN inode' : inode[j].kind # "new" =>
        inode'[j].kind = inode[j].kind /\ inode'[j].base_sdb = inode[j].base_sdb
  BY <1>1 DEF KnownInodes, Told
<1>3. UNCHANGED <<owner, sb>> /\ proc \in [Procs -> ProcRec] /\ img' = img
  BY <1>1 DEF KnownInodes, MemoryOK, InodeType, img, Fsimg
<1>4. ASSUME NEW r \in Procs, r # p, proc'[r] = proc[r], proc'[r].at # NoIno,
             inode'[proc'[r].at].kind = "dir"
      PROVE  Listed(proc'[r], AllEntries(inode'[proc'[r].at].base_sdb))
  BY <1>1, <1>2, <1>3, <1>4, ListingsKept
<1>5. \A r \in Procs : r # p => proc'[r] = proc[r]
  BY <1>3, OnlyOwn
<1>6. ASSUME proc'[p].at # NoIno, inode'[proc'[p].at].kind = "dir"
      PROVE  Listed(proc'[p], AllEntries(inode'[proc'[p].at].base_sdb))
  <2>1. CASE Fresh(proc'[p])
    <3>1. proc'[p].at \in DOMAIN inode'
      BY <1>1, <1>6 DEF MemoryOK, InMemory, UserIn
    <3>2. AllEntries(inode'[proc'[p].at].base_sdb) \in Seq(Item)
      BY <1>1, <1>3, <1>6, <3>1, EntriesNext DEF AllEntries
    <3> QED BY <2>1, <3>2, ListedFresh
  <2>2. CASE /\ proc'[p].at = proc[p].at /\ proc'[p].pos = proc[p].pos
             /\ proc'[p].got = proc[p].got /\ proc'[p].ended = proc[p].ended
    <3>1. proc[p].at \in DOMAIN inode /\ proc[p].at \in DOMAIN inode'
          /\ inode[proc[p].at].kind # "new" /\ proc[p].at # NoIno
      BY <1>1, <1>6, <2>2 DEF MemoryOK, InMemory, UserIn
    <3>2. dir(p).kind = "dir" /\ inode'[proc'[p].at].base_sdb = dir(p).base_sdb
      BY <1>2, <1>6, <2>2, <3>1 DEF dir
    <3>3. Listed(proc[p], AllEntries(dir(p).base_sdb))
      BY <3>1, <3>2 DEF ListingsOK
    <3> QED BY <2>2, <3>2, <3>3 DEF Listed
  <2>3. CASE sdbfs_readdir(p)
    <3>1. proc[p].at \in DOMAIN inode /\ dir(p).kind = "dir" /\ proc[p].at # NoIno
          /\ proc'[p].at = proc[p].at
      BY <1>3, <2>3, AtDirectory DEF sdbfs_readdir, ProcRec
    <3>2. inode'[proc'[p].at].base_sdb = dir(p).base_sdb
      BY <1>1, <1>2, <3>1 DEF dir, KnownInodes
    <3>3. Listed(proc[p], AllEntries(dir(p).base_sdb))
      BY <3>1 DEF ListingsOK
    <3> QED BY <2>3, <3>2, <3>3, ListedMore
  <2>4. CASE read_end(p) \/ sdbfs_read(p) \/ \E c \in Counts : read_start(p, c)
    <3>1. proc[p].at \in DOMAIN inode /\ inode[proc[p].at].kind = "file"
          /\ proc'[p].at = proc[p].at
      BY <1>3, <2>4, FileAtWork
    <3>2. inode'[proc'[p].at].kind = "file"
      BY <1>1, <1>2, <3>1 DEF dir, KnownInodes
    <3> QED BY <1>6, <3>2
  <2> QED BY <2>1, <2>2, <2>3, <2>4, Progress
<1> QED BY <1>3, <1>4, <1>5, <1>6 DEF ListingsOK, Listed, AllEntries, dir

LEMMA ListingsStep ==
  DeviceOK /\ MemoryOK /\ ListingsOK /\ [Next]_vars => ListingsOK'
<1> SUFFICES ASSUME DeviceOK, MemoryOK, ListingsOK, [Next]_vars PROVE ListingsOK'
  OBVIOUS
<1>1. MemoryOK'
  BY MemoryStep
<1>2. CASE Elsewhere
  BY <1>2 DEF Elsewhere, ListingsOK, AllEntries, img, Fsimg, dir
<1>3. CASE fill_super /\ ~UNCHANGED <<sb, inode>>
  BY <1>3, FillAlone DEF ListingsOK
<1>4. CASE Umount /\ ~UNCHANGED allvars
  BY <1>4 DEF Umount, Crash, ListingsOK
<1>5. ASSUME NEW e \in dcache, Evict(e), ~UNCHANGED allvars PROVE ListingsOK'
  <2>1. /\ UNCHANGED <<owner, sb, proc>>
        /\ \A j \in DOMAIN inode' : inode'[j] = inode[j]
    BY <1>5 DEF Evict, Crash, modvars, sbvars
  <2>2. ASSUME NEW p \in Procs, proc'[p].at # NoIno, inode'[proc'[p].at].kind = "dir"
        PROVE  Listed(proc'[p], AllEntries(inode'[proc'[p].at].base_sdb))
    BY <1>1, <2>1, <2>2, ListingsKept
  <2>3. img' = img
    BY <2>1 DEF img, Fsimg
  <2> QED BY <2>2, <2>3 DEF ListingsOK, Listed, AllEntries, dir
<1>6. ASSUME NEW p \in Procs, Steps(p) PROVE ListingsOK'
  BY <1>6, ListingsUsers
<1> QED BY <1>2, <1>3, <1>4, <1>5, <1>6, StepCases

\* A listing gives the entries of the directory in order, each once, and all
\* of them by the time it says that there are no more, for every size of the
\* room for entries and whatever others look up and list meanwhile; where the
\* memory of an inode makes the behaviour undefined, up to there.
THEOREM ListingsAreComplete == Spec => []ListingComplete
<1>1. Init => ListingsOK
  BY AwayFacts DEF Init, ListingsOK
<1>2. DeviceOK /\ MemoryOK /\ ListingsOK /\ [Next]_vars => ListingsOK'
  BY ListingsStep
<1>3. DeviceOK /\ MemoryOK /\ ListingsOK => ListingComplete
  <2> SUFFICES ASSUME DeviceOK, MemoryOK, ListingsOK, NEW p \in Procs,
                      proc[p].at # NoIno, inode[proc[p].at].kind = "dir"
               PROVE  LET L   == Listing(img, dir(p).base_sdb)
                          all == Dots \o [k \in 1..Len(L) |-> EntryOf(dir(p), L[k])]
                      IN /\ IsPrefix(proc[p].got, all)
                         /\ proc[p].ended => proc[p].got = all
    BY DEF ListingComplete
  <2> DEFINE all == AllEntries(dir(p).base_sdb)
             got == proc[p].got
             pos == proc[p].pos
  <2>1. proc[p].at \in DOMAIN inode
    BY DEF MemoryOK, InMemory, UserIn
  <2>2. all \in Seq(Item) /\ Len(all) \in Nat
    BY <2>1, AllEntriesFacts DEF dir
  <2>3. pos \in 0..Len(all) /\ got = SubSeq(all, 1, pos)
        /\ (proc[p].ended => pos = Len(all))
    BY DEF ListingsOK, Listed, dir
  <2>4. LET L == Listing(img, dir(p).base_sdb)
        IN  Dots \o [k \in 1..Len(L) |-> EntryOf(dir(p), L[k])] = all
    BY DEF AllEntries, EntryOf
  <2> HIDE DEF all, pos, got
  <2>5. got \in Seq(Item) /\ Len(got) = pos
    <3>1. \A k \in 1..pos : all[k] \in Item
      BY <2>2, <2>3
    <3>2. got \in Seq(Item) /\ Len(got) = IF 1 <= pos THEN pos - 1 + 1 ELSE 0
      BY <2>2, <2>3, <3>1, SubSeqProperties
    <3> QED BY <2>2, <2>3, <3>2
  <2>6. SubSeq(got, 1, Len(got)) = got
    BY <2>5, SubSeqFull
  <2>7. IsPrefix(got, all)
    BY <2>2, <2>3, <2>5, <2>6 DEF IsPrefix
  <2>8. proc[p].ended => got = all
    BY <2>2, <2>3, SubSeqFull
  <2> QED BY <2>4, <2>7, <2>8 DEF got
<1>4. Spec => [](DeviceOK /\ MemoryOK)
  BY MemoryInvariance
<1> QED BY <1>1, <1>2, <1>3, <1>4, PTL DEF Spec

There(f) == IF f.first + f.size <= img.size THEN f.size ELSE img.size - f.first

\* A process has been given the first bytes of the file it is at; a call under
\* way has read those that follow, in one turn.
Read(q, f) ==
  /\ q.got = Run(f.first, q.pos)
  /\ q.pos = 0 \/ q.pos <= There(f)
  /\ q.ended => There(f) <= q.pos

Reading(q, f) ==
  /\ q.count <= Kbuf /\ q.pos + q.count <= f.size
  /\ q.buf = Run(f.first + q.pos, q.done)
  /\ q.done = 0 \/ q.pos + q.done <= There(f)
  /\ q.op = "read" => q.done = 0 \/ q.done = q.count
  /\ q.count = 0 => q.pos = f.size
  /\ q.op = "readend" /\ q.done = 0 => There(f) <= q.pos

\* However long a call is, its turns store the same bytes again and again.
Repeats(q, f) ==
  /\ \A k \in 1..Len(q.buf) : q.buf[k] = f.first + q.pos + ((k - 1) % Kbuf)
  /\ q.op = "read" => /\ q.done = Len(q.buf)
                      /\ q.done < q.count => (q.done % Kbuf) = 0

ReadOK(q, f) ==
  /\ ~q.long => Read(q, f)
  /\ q.op \in {"read", "readend"} =>
       Repeats(q, f) /\ (~q.long => Reading(q, f))

ReadsOK ==
  \A p \in Procs : proc[p].at # NoIno /\ file(p).kind = "file" =>
    ReadOK(proc[p], file(p))

LEMMA RunConcat ==
  ASSUME NEW from \in Int, NEW a \in Nat, NEW b \in Nat
  PROVE  Run(from, a) \o Run(from + a, b) = Run(from, a + b)
<1> DEFINE s == Run(from, a)
           t == Run(from + a, b)
           u == Run(from, a + b)
<1>1. /\ s \in Seq(Int) /\ Len(s) = a /\ \A k \in 1..a : s[k] = from + k - 1
      /\ t \in Seq(Int) /\ Len(t) = b /\ \A k \in 1..b : t[k] = from + a + k - 1
      /\ u \in Seq(Int) /\ Len(u) = a + b /\ \A k \in 1..a + b : u[k] = from + k - 1
  BY RunFacts
<1> HIDE DEF s, t, u
<1>2. /\ s \o t \in Seq(Int) /\ Len(s \o t) = a + b
      /\ \A k \in 1..a + b : (s \o t)[k] = IF k <= a THEN s[k] ELSE t[k - a]
  BY <1>1, ConcatProperties
<1>3. \A k \in 1..a + b : (s \o t)[k] = u[k]
  BY <1>1, <1>2
<1>4. s \o t = u
  BY <1>1, <1>2, <1>3, SeqEqual
<1> QED BY <1>4 DEF s, t, u

LEMMA RunEmpty ==
  ASSUME NEW from \in Int, NEW n \in Int, n <= 0
  PROVE  Run(from, n) = <<>>
<1>1. 1..n = 1..0
  OBVIOUS
<1>2. Run(from, n) = Run(from, 0)
  BY <1>1 DEF Run
<1>3. Run(from, 0) \in Seq(Int) /\ Len(Run(from, 0)) = 0
  BY RunFacts
<1> QED BY <1>2, <1>3, EmptySeq

\* What a file has of bytes is no more than its size.
LEMMA ThereFacts ==
  ASSUME NEW f \in InodeRec, img.size \in Nat
  PROVE  There(f) \in Int /\ There(f) <= f.size
<1>1. f.first \in Int /\ f.size \in Int
  BY DEF InodeRec
<1> QED BY <1>1 DEF There

\* One turn of the loop of sdbfs_read, which is the only one of a short read.
LEMMA OnlyTurn ==
  ASSUME MemoryOK, NEW p \in Procs, sdbfs_read(p), img.size \in Nat,
         Read(proc[p], file(p)), Reading(proc[p], file(p)), file(p) \in InodeRec
  PROVE  Read(proc'[p], file(p)) /\ Reading(proc'[p], file(p))
<1> DEFINE f == file(p)
           q == proc[p]
           pos == q.pos
           count == q.count
           from == f.first + pos
           r == fakedev_read(from, count)
<1>1. q \in ProcRec /\ proc \in [Procs -> ProcRec] /\ q.op = "read"
      /\ q.done < count /\ Read(q, f) /\ Reading(q, f)
  BY DEF MemoryOK, InodeType, sdbfs_read
<1>2. /\ pos \in Nat /\ count \in Nat /\ q.done \in Nat /\ Kbuf \in Nat
      /\ f.first \in Int /\ f.size \in Int /\ from \in Int
  BY <1>1, SdbfsKernelAssumption DEF ProcRec, InodeRec
<1>3. /\ count <= Kbuf /\ pos + count <= f.size /\ q.buf = Run(from, q.done)
      /\ q.done = 0 \/ q.done = count
  BY <1>1 DEF Reading
<1>4. q.done = 0
  BY <1>1, <1>2, <1>3
<1>5. (IF Kbuf > count THEN count ELSE Kbuf) = count
  BY <1>2, <1>3
<1>6. proc' = [proc EXCEPT ![p].done = Counted(q.done, r), ![p].buf = q.buf \o r.data,
                           ![p].op = NextTurn(r, count)]
  BY <1>5 DEF sdbfs_read
<1> HIDE DEF r
<1>7. /\ proc'[p].done = Counted(0, r) /\ proc'[p].buf = q.buf \o r.data
      /\ proc'[p].op = NextTurn(r, count) /\ proc'[p].pos = pos
      /\ proc'[p].got = q.got /\ proc'[p].ended = q.ended /\ proc'[p].count = count
  BY <1>1, <1>4, <1>6 DEF ProcRec
<1>8. IF from > img.size THEN r.i = -1 /\ r.data = <<>>
      ELSE /\ r.i = IF from + count > img.size THEN img.size - from ELSE count
           /\ r.i \in Nat /\ r.data = Run(from, r.i)
  BY <1>2, BytesGiven DEF r
<1>9. q.buf = <<>>
  BY <1>2, <1>3, <1>4, RunEmpty
<1> HIDE DEF f, q, pos, count, from
<1>10. from = f.first + pos /\ There(f) \in Int
       /\ There(f) = IF f.first + f.size <= img.size THEN f.size ELSE img.size - f.first
  <2>1. f \in InodeRec
    BY DEF f
  <2> QED BY <2>1, ThereFacts DEF There, from, pos
<1>11. Read(proc'[p], f)
  BY <1>1, <1>7 DEF Read, pos
<1>12. CASE from > img.size
  <2>1. r.i = -1 /\ r.data = <<>>
    BY <1>8, <1>12
  <2>2. proc'[p].done = 0 /\ proc'[p].op = "readend"
    BY <1>2, <1>7, <2>1 DEF Counted, NextTurn
  <2>3. proc'[p].buf = Run(from, 0)
    BY <1>2, <1>7, <1>9, <2>1, RunEmpty
  <2>4. There(f) <= pos
    BY <1>2, <1>3, <1>10, <1>12
  <2>5. count = 0 => pos = f.size
    BY <1>1 DEF Reading, count, pos
  <2>6. Reading(proc'[p], f)
    BY <1>3, <1>7, <1>10, <2>2, <2>3, <2>4, <2>5 DEF Reading
  <2> QED BY <1>11, <2>6 DEF f
<1>13. CASE ~(from > img.size)
  <2>1. r.i = (IF from + count > img.size THEN img.size - from ELSE count)
        /\ r.i \in Nat /\ r.data = Run(from, r.i)
    BY <1>8, <1>13
  <2>2. proc'[p].done = r.i /\ proc'[p].op = IF r.i = count THEN "read" ELSE "readend"
    BY <1>2, <1>7, <2>1 DEF Counted, NextTurn
  <2>3. proc'[p].buf = Run(from, r.i)
    <3>1. r.data \in Seq(Int)
      BY <1>2, <2>1, RunFacts
    <3>2. <<>> \o r.data = r.data
      BY <3>1, ConcatEmptySeq
    <3> QED BY <1>7, <1>9, <2>1, <3>2
  <2>4. pos + r.i <= There(f)
    BY <1>2, <1>3, <1>10, <1>13, <2>1
  <2>5. r.i # count /\ r.i = 0 => There(f) <= pos
    BY <1>2, <1>3, <1>10, <1>13, <2>1
  <2>6. count = 0 => pos = f.size
    BY <1>1 DEF Reading, count, pos
  <2>7. Reading(proc'[p], f)
    BY <1>3, <1>7, <1>10, <2>2, <2>3, <2>4, <2>5, <2>6 DEF Reading
  <2> QED BY <1>11, <2>7 DEF f
<1> QED BY <1>12, <1>13

LEMMA ModuloOf ==
  ASSUME NEW m \in Nat \ {0}, NEW c \in Nat, NEW j \in Nat, j < m
  PROVE  ((m * c + j) % m) = j
  BY SMT

\* What comes after some whole buffers.
LEMMA ModuloMore ==
  ASSUME NEW m \in Nat \ {0}, NEW d \in Nat, (d % m) = 0
  PROVE  /\ \A j \in Nat : j < m => ((d + j) % m) = j
         /\ ((d + m) % m) = 0
<1> DEFINE c == d \div m
<1>1. d = m * c + (d % m) /\ c \in Nat
  BY SMT
<1> HIDE DEF c
<1>2. d = m * c
  BY <1>1
<1>3. \A j \in Nat : j < m => ((d + j) % m) = j
  BY <1>1, <1>2, ModuloOf
<1>4. d + m = m * (c + 1) + 0
  BY <1>1, <1>2
<1>5. c + 1 \in Nat /\ 0 \in Nat /\ 0 < m
  BY <1>1
<1> QED BY <1>3, <1>4, <1>5, ModuloOf

LEMMA AgainTurn ==
  ASSUME MemoryOK, NEW p \in Procs, sdbfs_read(p), img.size \in Nat,
         Repeats(proc[p], file(p)), file(p) \in InodeRec
  PROVE  Repeats(proc'[p], file(p)) /\ proc'[p].long = proc[p].long
<1> DEFINE f == file(p)
           q == proc[p]
           done == q.done
           count == q.count
           from == f.first + q.pos
           n == IF Kbuf > count THEN count ELSE Kbuf
           r == fakedev_read(from, n)
<1>1. q \in ProcRec /\ proc \in [Procs -> ProcRec] /\ q.op = "read"
      /\ done < count
  BY DEF MemoryOK, InodeType, sdbfs_read
<1>2. /\ done \in Nat /\ count \in Nat /\ from \in Int /\ q.buf \in Seq(Int)
      /\ Kbuf \in Nat \ {0} /\ n \in Nat /\ n <= Kbuf
      /\ n = Kbuf \/ n = count
  BY <1>1, SdbfsKernelAssumption DEF ProcRec, InodeRec
<1>3. /\ proc'[p].done = Counted(done, r) /\ proc'[p].buf = q.buf \o r.data
      /\ proc'[p].op = NextTurn(r, n) /\ proc'[p].pos = q.pos
      /\ proc'[p].count = count /\ proc'[p].long = q.long
  <2> HIDE DEF r
  <2>1. proc' = [proc EXCEPT ![p].done = Counted(done, r), ![p].buf = q.buf \o r.data,
                             ![p].op = NextTurn(r, n)]
    BY DEF sdbfs_read, r
  <2> QED BY <1>1, <2>1 DEF ProcRec
<1>4. /\ done = Len(q.buf) /\ (done % Kbuf) = 0
      /\ \A k \in 1..Len(q.buf) : q.buf[k] = from + ((k - 1) % Kbuf)
  BY <1>1 DEF Repeats
<1> HIDE DEF n
<1>5. \/ r.i = -1 /\ r.data = <<>>
      \/ r.i \in Nat /\ r.i <= n /\ r.data = Run(from, r.i)
  <2> HIDE DEF r
  <2>1. IF from > img.size THEN r.i = -1 /\ r.data = <<>>
        ELSE /\ r.i = IF from + n > img.size THEN img.size - from ELSE n
             /\ r.i \in Nat /\ r.data = Run(from, r.i)
    BY <1>2, BytesGiven DEF r
  <2> HIDE DEF from
  <2> QED BY <1>2, <2>1
<1> HIDE DEF r, f, q, done, count, from
<1>6. \A j \in Nat : j < Kbuf => ((done + j) % Kbuf) = j
  BY <1>2, <1>4, ModuloMore
<1>7. ((done + Kbuf) % Kbuf) = 0
  BY <1>2, <1>4, ModuloMore
<1>8. CASE r.i = -1 /\ r.data = <<>>
  <2>1. proc'[p].buf = q.buf /\ proc'[p].op = "readend"
    BY <1>2, <1>3, <1>8, ConcatEmptySeq DEF NextTurn
  <2> QED BY <1>3, <1>4, <2>1 DEF Repeats, f, q, from
<1>9. CASE r.i \in Nat /\ r.i <= n /\ r.data = Run(from, r.i)
  <2> DEFINE i == r.i
             t == Run(from, i)
  <2>1. /\ t \in Seq(Int) /\ Len(t) = i /\ \A k \in 1..i : t[k] = from + k - 1
        /\ i \in Nat /\ i <= Kbuf
    <3>1. i \in Nat /\ i <= n
      BY <1>9
    <3> HIDE DEF i
    <3>2. i <= Kbuf
      BY <1>2, <3>1
    <3>3. Run(from, i) \in Seq(Int) /\ Len(Run(from, i)) = i
          /\ \A k \in 1..i : Run(from, i)[k] = from + k - 1
      BY <1>2, <3>1, RunFacts
    <3> QED BY <3>1, <3>2, <3>3
  <2>2. proc'[p].buf = q.buf \o t /\ proc'[p].done = done + i
    BY <1>2, <1>3, <1>9 DEF Counted
  <2> HIDE DEF t, i
  <2>3. /\ Len(q.buf \o t) = done + i
        /\ \A k \in 1..done + i :
             (q.buf \o t)[k] = IF k <= done THEN q.buf[k] ELSE t[k - done]
    <3>1. /\ Len(q.buf \o t) = Len(q.buf) + Len(t)
          /\ \A k \in 1..Len(q.buf) + Len(t) :
               (q.buf \o t)[k] = IF k <= Len(q.buf) THEN q.buf[k] ELSE t[k - Len(q.buf)]
      BY <1>2, <2>1, ConcatProperties
    <3> QED BY <1>4, <2>1, <3>1
  <2>4. ASSUME NEW k \in 1..done + i
        PROVE  (q.buf \o t)[k] = from + ((k - 1) % Kbuf)
    <3>1. CASE k <= done
      BY <1>2, <1>4, <2>1, <2>3, <3>1
    <3>2. CASE ~(k <= done)
      <4> DEFINE j == k - done - 1
      <4>1. j \in Nat /\ j < Kbuf /\ k - 1 = done + j /\ k - done \in 1..i
        BY <1>2, <2>1, <3>2
      <4>2. t[k - done] = from + j
        BY <1>2, <2>1, <4>1
      <4> HIDE DEF j
      <4>3. ((k - 1) % Kbuf) = j
        BY <1>6, <4>1
      <4> QED BY <2>3, <3>2, <4>2, <4>3
    <3> QED BY <3>1, <3>2
  <2>5. proc'[p].op = "read" /\ proc'[p].done < count => ((done + i) % Kbuf) = 0
    <3>1. proc'[p].op = "read" => i = n
      BY <1>3 DEF NextTurn, i
    <3>2. i = n => n = Kbuf \/ ~(done + i < count)
      BY <1>2, <2>1
    <3> QED BY <1>7, <2>2, <3>1, <3>2
  <2> QED BY <1>3, <2>2, <2>3, <2>4, <2>5 DEF Repeats, f, q, from, count
<1> QED BY <1>3, <1>5, <1>8, <1>9 DEF q, f

LEMMA ReadTurn ==
  ASSUME MemoryOK, NEW p \in Procs, sdbfs_read(p), img.size \in Nat,
         ReadOK(proc[p], file(p)), file(p) \in InodeRec
  PROVE  ReadOK(proc'[p], file(p))
<1>1. proc[p].op = "read"
  BY DEF sdbfs_read
<1>2. /\ Repeats(proc[p], file(p))
      /\ ~proc[p].long => Read(proc[p], file(p)) /\ Reading(proc[p], file(p))
  BY <1>1 DEF ReadOK
<1> QED BY <1>2, OnlyTurn, AgainTurn DEF ReadOK

\* The start of a call, and its end.
LEMMA ReadStart ==
  ASSUME MemoryOK, NEW p \in Procs, NEW c \in Counts, read_start(p, c),
         img.size \in Nat, ReadOK(proc[p], file(p)), file(p) \in InodeRec
  PROVE  ReadOK(proc'[p], file(p))
<1> DEFINE f == file(p)
           q == proc[p]
           n == Clamped(p, c)
<1>1. q \in ProcRec /\ proc \in [Procs -> ProcRec] /\ (~q.long => Read(q, f))
      /\ q.pos <= f.size
  BY DEF MemoryOK, InodeType, read_start, ReadOK
<1>2. /\ q.pos \in Nat /\ c \in Nat \ {0} /\ Kbuf \in Nat \ {0}
      /\ f.first \in Int /\ f.size \in Int
  BY <1>1, SdbfsKernelAssumption DEF ProcRec, InodeRec
<1>3. /\ n = (IF q.pos + c > f.size THEN f.size - q.pos ELSE c)
      /\ proc' = [proc EXCEPT ![p].op = "read", ![p].count = n,
                              ![p].done = 0, ![p].buf = <<>>,
                              ![p].long = q.long \/ n > Kbuf]
  BY DEF read_start, Clamped
<1> HIDE DEF n
<1>4. /\ proc'[p].op = "read" /\ proc'[p].count = n /\ proc'[p].done = 0
      /\ proc'[p].buf = <<>> /\ proc'[p].pos = q.pos /\ proc'[p].got = q.got
      /\ proc'[p].ended = q.ended /\ proc'[p].long = (q.long \/ n > Kbuf)
  BY <1>1, <1>3 DEF ProcRec
<1> HIDE DEF f, q
<1>5. n \in Int /\ q.pos + n <= f.size /\ (n = 0 => q.pos = f.size)
  BY <1>1, <1>2, <1>3
<1>6. Run(f.first + q.pos, 0) = <<>>
  BY <1>2, RunEmpty
<1>7. ASSUME ~proc'[p].long PROVE Read(proc'[p], f) /\ Reading(proc'[p], f)
  <2>1. ~q.long /\ n <= Kbuf
    <3>1. ~q.long /\ ~(n > Kbuf)
      BY <1>4, <1>7, Zenon
    <3> QED BY <1>2, <1>5, <3>1
  <2>2. Read(proc'[p], f)
    BY <1>1, <1>4, <2>1 DEF Read
  <2>3. Reading(proc'[p], f)
    BY <1>4, <1>5, <1>6, <2>1 DEF Reading
  <2> QED BY <2>2, <2>3
<1>8. Repeats(proc'[p], f)
  <2>1. (0 % Kbuf) = 0
    <3>1. Kbuf * 0 + 0 = 0 /\ 0 < Kbuf /\ 0 \in Nat
      BY <1>2
    <3> QED BY <1>2, <3>1, ModuloOf
  <2>2. Len(<<>>) = 0
    OBVIOUS
  <2> QED BY <1>4, <2>1, <2>2 DEF Repeats
<1> QED BY <1>7, <1>8 DEF ReadOK, f

LEMMA ReadEnd ==
  ASSUME MemoryOK, NEW p \in Procs, read_end(p),
         img.size \in Nat, ReadOK(proc[p], file(p)), file(p) \in InodeRec
  PROVE  ReadOK(proc'[p], file(p))
<1>0. proc'[p].op = "idle" /\ proc'[p].long = proc[p].long
  BY DEF read_end, MemoryOK, InodeType, ProcRec
<1> SUFFICES ASSUME ~proc[p].long PROVE Read(proc'[p], file(p))
  BY <1>0 DEF ReadOK
<1> DEFINE f == file(p)
           q == proc[p]
<1>1. q \in ProcRec /\ proc \in [Procs -> ProcRec] /\ Read(q, f) /\ Reading(q, f)
      /\ (q.op = "readend" \/ (q.op = "read" /\ q.done >= q.count))
  <2>1. q.op = "readend" \/ (q.op = "read" /\ q.done >= q.count)
    BY DEF read_end
  <2>2. Read(q, f) /\ Reading(q, f)
    BY <2>1 DEF ReadOK
  <2> QED BY <2>1, <2>2 DEF MemoryOK, InodeType
<1>2. /\ q.pos \in Nat /\ q.done \in Nat /\ q.count \in Nat
      /\ f.first \in Int /\ f.size \in Int
      /\ There(f) \in Int /\ There(f) <= f.size
  BY <1>1, ThereFacts DEF ProcRec, InodeRec
<1>3. /\ proc'[p].op = "idle" /\ proc'[p].pos = q.pos + q.done
      /\ proc'[p].got = q.got \o q.buf /\ proc'[p].ended = (q.done = 0)
  BY <1>1 DEF read_end, ProcRec
<1> HIDE DEF f, q
<1>4. proc'[p].got = Run(f.first, q.pos + q.done)
  BY <1>1, <1>2, <1>3, RunConcat DEF Read, Reading
<1>5. q.pos + q.done = 0 \/ q.pos + q.done <= There(f)
  BY <1>1, <1>2 DEF Read, Reading
<1>6. q.done = 0 => There(f) <= q.pos
  BY <1>1, <1>2 DEF Reading
<1>7. proc'[p].ended => There(f) <= q.pos + q.done
  <2>1. proc'[p].ended => q.done = 0
    BY <1>3, Zenon
  <2> QED BY <1>2, <1>6, <2>1
<1>8. Read(proc'[p], f)
  BY <1>3, <1>4, <1>5, <1>7 DEF Read
<1> QED BY <1>8 DEF f

LEMMA ReadFresh ==
  ASSUME NEW q, Fresh(q), NEW f \in InodeRec
  PROVE  ReadOK(q, f)
<1>1. Run(f.first, 0) = <<>>
  BY RunEmpty DEF InodeRec
<1> QED BY <1>1 DEF ReadOK, Read, Fresh

\* What a process has been given of a file stays so while others step.
LEMMA ReadsKept ==
  ASSUME MemoryOK, MemoryOK', ReadsOK, UNCHANGED <<owner, sb>>,
         NEW p \in Procs, proc'[p] = proc[p],
         \A j \in DOMAIN inode \cap DOMAIN inode' : inode[j].kind # "new" =>
           /\ inode'[j].kind = inode[j].kind
           /\ inode'[j].first = inode[j].first /\ inode'[j].size = inode[j].size,
         proc[p].at # NoIno, inode'[proc'[p].at].kind = "file"
  PROVE  ReadOK(proc'[p], inode'[proc'[p].at])
<1>1. proc[p].at \in DOMAIN inode /\ proc[p].at \in DOMAIN inode'
      /\ inode[proc[p].at].kind # "new"
  BY DEF MemoryOK, InMemory, UserIn
<1>2. ReadOK(proc[p], file(p))
  BY <1>1 DEF ReadsOK, file
<1>3. /\ inode'[proc'[p].at].first = file(p).first
      /\ inode'[proc'[p].at].size = file(p).size
  BY <1>1 DEF file
<1> QED BY <1>2, <1>3 DEF ReadOK, Read, Reading, Repeats, There

LEMMA ReadsUsers ==
  ASSUME DeviceOK, MemoryOK, ReadsOK, NEW p \in Procs, Steps(p)
  PROVE  ReadsOK'
<1>1. MemoryOK' /\ KnownInodes
  BY MemoryUsers
<1>2. \A j \in DOMAIN inode \cap DOMAIN inode' : inode[j].kind # "new" =>
           /\ inode'[j].kind = inode[j].kind
           /\ inode'[j].first = inode[j].first /\ inode'[j].size = inode[j].size
  BY <1>1 DEF KnownInodes, Told
<1>3. UNCHANGED <<owner, sb>> /\ proc \in [Procs -> ProcRec] /\ img' = img
  BY <1>1 DEF KnownInodes, MemoryOK, InodeType, img, Fsimg
<1>4. ASSUME NEW r \in Procs, r # p, proc'[r] = proc[r], proc'[r].at # NoIno,
             inode'[proc'[r].at].kind = "file"
      PROVE  ReadOK(proc'[r], inode'[proc'[r].at])
  BY <1>1, <1>2, <1>3, <1>4, ReadsKept
<1>5. \A r \in Procs : r # p => proc'[r] = proc[r]
  BY <1>3, OnlyOwn
<1>6. ASSUME proc'[p].at # NoIno, inode'[proc'[p].at].kind = "file"
      PROVE  ReadOK(proc'[p], inode'[proc'[p].at])
  <2>1. CASE Fresh(proc'[p])
    <3>1. inode'[proc'[p].at] \in InodeRec
      BY <1>1, <1>6 DEF MemoryOK, InMemory, UserIn, InodeType
    <3> QED BY <2>1, <3>1, ReadFresh
  <2>2. CASE \/ sdbfs_readdir(p)
             \/ /\ proc[p].at \in DOMAIN inode /\ inode[proc[p].at].kind = "dir"
                /\ proc'[p].at = proc[p].at
    <3>1. proc[p].at \in DOMAIN inode /\ inode[proc[p].at].kind = "dir"
          /\ proc'[p].at = proc[p].at
      <4>1. ASSUME sdbfs_readdir(p)
            PROVE  /\ proc[p].at \in DOMAIN inode /\ dir(p).kind = "dir"
                   /\ proc'[p].at = proc[p].at
        BY <1>3, <4>1, AtDirectory DEF sdbfs_readdir, ProcRec
      <4> QED BY <2>2, <4>1 DEF dir
    <3>2. inode'[proc'[p].at].kind = "dir"
      BY <1>1, <1>2, <3>1 DEF KnownInodes
    <3> QED BY <1>6, <3>2
  <2>3. CASE read_end(p) \/ sdbfs_read(p) \/ \E c \in Counts : read_start(p, c)
    <3>1. /\ proc[p].at \in DOMAIN inode /\ file(p).kind = "file"
          /\ proc[p].at # NoIno /\ proc'[p].at = proc[p].at
      BY <2>3, FileAtWork DEF file
    <3>2. img.size \in Nat /\ file(p) \in InodeRec
      <4>1. sb # NoDev
        BY <3>1 DEF MemoryOK, InMemory, Rooted
      <4> QED BY <3>1, <4>1, MountedImage, RootFacts DEF MemoryOK, InodeType, file
    <3>3. ReadOK(proc[p], file(p))
      BY <3>1 DEF ReadsOK
    <3>4. ReadOK(proc'[p], file(p))
      BY <2>3, <3>2, <3>3, ReadTurn, ReadStart, ReadEnd
    <3>5. /\ inode'[proc'[p].at].first = file(p).first
          /\ inode'[proc'[p].at].size = file(p).size
      BY <1>1, <1>2, <3>1 DEF file, KnownInodes
    <3> QED BY <3>4, <3>5 DEF ReadOK, Read, Reading, Repeats, There
  <2> QED BY <2>1, <2>2, <2>3, Progress
<1> QED BY <1>3, <1>4, <1>5, <1>6 DEF ReadsOK, ReadOK, Read, Reading, Repeats, There, file

LEMMA ReadsStep == DeviceOK /\ MemoryOK /\ ReadsOK /\ [Next]_vars => ReadsOK'
<1> SUFFICES ASSUME DeviceOK, MemoryOK, ReadsOK, [Next]_vars PROVE ReadsOK'
  OBVIOUS
<1>1. MemoryOK'
  BY MemoryStep
<1>2. CASE Elsewhere
  BY <1>2 DEF Elsewhere, ReadsOK, ReadOK, Read, Reading, Repeats, There, img, Fsimg, file
<1>3. CASE fill_super /\ ~UNCHANGED <<sb, inode>>
  BY <1>3, FillAlone DEF ReadsOK
<1>4. CASE Umount /\ ~UNCHANGED allvars
  BY <1>4 DEF Umount, Crash, ReadsOK
<1>5. ASSUME NEW e \in dcache, Evict(e), ~UNCHANGED allvars PROVE ReadsOK'
  <2>1. /\ UNCHANGED <<owner, sb, proc>>
        /\ \A j \in DOMAIN inode' : inode'[j] = inode[j]
    BY <1>5 DEF Evict, Crash, modvars, sbvars
  <2>2. ASSUME NEW p \in Procs, proc'[p].at # NoIno, inode'[proc'[p].at].kind = "file"
        PROVE  ReadOK(proc'[p], inode'[proc'[p].at])
    BY <1>1, <2>1, <2>2, ReadsKept
  <2>3. img' = img
    BY <2>1 DEF img, Fsimg
  <2> QED BY <2>2, <2>3 DEF ReadsOK, ReadOK, Read, Reading, Repeats, There, file
<1>6. ASSUME NEW p \in Procs, Steps(p) PROVE ReadsOK'
  BY <1>6, ReadsUsers
<1> QED BY <1>2, <1>3, <1>4, <1>5, <1>6, StepCases

\* The bytes of a file are those of the image that belong to it, in order.
LEMMA InOrderIs ==
  ASSUME DeviceOK, MemoryOK, NEW p \in Procs, proc[p].at # NoIno,
         Read(proc[p], file(p))
  PROVE  InOrder(p)
<1> DEFINE f == file(p)
           got == proc[p].got
           pos == proc[p].pos
           there == There(f)
           all == Run(f.first, there)
<1>1. f \in InodeRec /\ img.size \in Nat /\ proc[p] \in ProcRec
  <2>1. proc[p].at \in DOMAIN inode /\ sb # NoDev
    BY DEF MemoryOK, InMemory, UserIn, Rooted
  <2> QED BY <2>1, MountedImage, RootFacts DEF MemoryOK, InodeType, file
<1>2. f.first \in Int /\ there \in Int /\ pos \in Nat
  BY <1>1, ThereFacts DEF InodeRec, ProcRec
<1>3. /\ got = Run(f.first, pos) /\ (pos = 0 \/ pos <= there)
      /\ (proc[p].ended => there <= pos)
  BY DEF Read
<1>4. Bytes(f) = all
  BY DEF Bytes, There, Run
<1> HIDE DEF f, got, pos, there, all
<1>5. got \in Seq(Int) /\ Len(got) = pos /\ \A k \in 1..pos : got[k] = f.first + k - 1
  BY <1>2, <1>3, RunFacts
<1>6. CASE pos <= there
  <2>1. /\ all \in Seq(Int) /\ Len(all) = there
        /\ \A k \in 1..there : all[k] = f.first + k - 1
    <3>1. there \in Nat
      BY <1>2, <1>6
    <3> QED BY <1>2, <3>1, RunFacts DEF all
  <2>2. SubSeq(got, 1, pos) = got
    BY <1>5, SubSeqFull
  <2>3. /\ SubSeq(all, 1, pos) \in Seq(Int) /\ Len(SubSeq(all, 1, pos)) = pos
        /\ \A k \in 1..pos : SubSeq(all, 1, pos)[k] = all[k]
    <3>1. \A k \in 1..pos : all[k] \in Int
      BY <1>2, <1>6, <2>1
    <3>2. /\ SubSeq(all, 1, pos) \in Seq(Int)
          /\ Len(SubSeq(all, 1, pos)) = IF 1 <= pos THEN pos - 1 + 1 ELSE 0
          /\ \A k \in 1..pos - 1 + 1 : SubSeq(all, 1, pos)[k] = all[1 + k - 1]
      BY <1>2, <3>1, SubSeqProperties
    <3> QED BY <1>2, <3>2
  <2>4. SubSeq(all, 1, pos) = got
    <3>1. \A k \in 1..pos : SubSeq(all, 1, pos)[k] = got[k]
      BY <1>2, <1>5, <1>6, <2>1, <2>3
    <3> QED BY <1>5, <2>3, <3>1, SeqEqual
  <2>5. IsPrefix(got, all)
    BY <1>5, <1>6, <2>1, <2>2, <2>4 DEF IsPrefix
  <2>6. proc[p].ended => got = all
    <3>1. proc[p].ended => pos = there
      BY <1>2, <1>3, <1>6
    <3> QED BY <1>3, <3>1 DEF all
  <2> QED BY <1>4, <2>5, <2>6 DEF f, got, InOrder
<1>7. CASE ~(pos <= there)
  <2>1. pos = 0 /\ there <= 0
    BY <1>2, <1>3, <1>7
  <2>2. got = <<>> /\ all = <<>>
    BY <1>2, <1>3, <2>1, RunEmpty DEF all
  <2>3. IsPrefix(<<>>, <<>>)
    BY DEF IsPrefix
  <2> QED BY <1>4, <2>2, <2>3 DEF f, got, InOrder
<1> QED BY <1>6, <1>7

\* What the read calls of sdbfs store and give of the files of the root
\* directory, until memory is used that is gone or was never set: a call
\* stores the bytes from its position on, up to as many as the kernel's buffer
\* holds, and these again and again if it asks for more; and while no call has
\* asked for more, what was given is the file's bytes in order, all that the
\* image has of them at the end.
THEOREM ReadsAreExact == Spec => []ReadExact
<1>1. Init => ReadsOK
  BY AwayFacts DEF Init, ReadsOK
<1>2. DeviceOK /\ MemoryOK /\ ReadsOK => ReadExact
  <2> SUFFICES ASSUME DeviceOK, MemoryOK, ReadsOK, NEW p \in Procs, AtRootFile(p)
               PROVE  /\ proc[p].op # "idle" =>
                           \A k \in 1..Len(proc[p].buf) :
                             proc[p].buf[k] =
                               file(p).first + proc[p].pos + ((k - 1) % Kbuf)
                      /\ ~proc[p].long => InOrder(p)
    BY DEF ReadExact
  <2>1. proc[p].at # NoIno /\ file(p).kind = "file"
    BY DEF AtRootFile, file
  <2>2. ReadOK(proc[p], file(p))
    BY <2>1 DEF ReadsOK
  <2>3. proc[p].op \in {"idle", "read", "readend"}
    BY <2>1 DEF MemoryOK, InMemory, UserIn, InodeType, ProcRec, file
  <2>4. ~proc[p].long => InOrder(p)
    BY <2>1, <2>2, InOrderIs DEF ReadOK
  <2> QED BY <2>2, <2>3, <2>4 DEF ReadOK, Repeats
<1>3. Spec => [](DeviceOK /\ MemoryOK)
  BY MemoryInvariance
<1> QED BY <1>1, <1>2, <1>3, ReadsStep, PTL DEF Spec
===============================================================================
