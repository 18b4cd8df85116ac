------------------------------ MODULE SdbfsKernel ------------------------------
(***************************************************************************)
(* The file system in the kernel (sdbfs/kernel): devices registered by     *)
(* sdb-fakedev or sdb-iomem, mounting one of them, and the directory and   *)
(* file operations of the processes that use the mount.                    *)
(*                                                                         *)
(* Addresses count bytes.  What a file holds is told by its addresses, and *)
(* what is read at an address is a record, whole or not.  Names are atoms; *)
(* byte order is left out.                                                 *)
(*                                                                         *)
(* Where the code uses memory that is gone or was never set, its behaviour *)
(* is undefined: undefined tells so, and the model stops there.            *)
(***************************************************************************)
EXTENDS Integers, Sequences, FiniteSets, SequencesExt

CONSTANTS
  Owners,     \* device modules: "sdb-fakedev", "sdb-iomem"
  Given,      \* the names each is loaded with, in fsimg or in area
  Image,      \* the firmware, or memory, of each name
  Dirs,       \* its directories, and where the addresses in each start from
  Procs,      \* processes that use the mount
  Kbuf,       \* sizeof(kbuf)
  Counts,     \* sizes of the buffers of read calls
  Room,       \* how many entries a readdir call has room for
  Leftovers,  \* what nfiles and files may be in memory just allocated
  MaxLoads,   \* bound on the times the device module is loaded
  MaxUses     \* bound on the mounts and opens together

Devs == UNION {DOMAIN Given[o] : o \in Owners}

ASSUME SdbfsKernelAssumption ==
  /\ Owners \subseteq {"sdb-fakedev", "sdb-iomem"}
  /\ Kbuf \in Nat \ {0} /\ Room \in Nat \ {0} /\ Counts \subseteq Nat \ {0}
  /\ Leftovers \subseteq [nfiles : Nat, files : Seq(Int)]
  /\ {MaxLoads, MaxUses} \subseteq Nat
  /\ \A o \in Owners : Given[o] \in Seq(DOMAIN Image) /\ Given[o] # <<>>

ROOT     == 1                      \* SDBFS_ROOT
SDB_SIZE == 64
INO(offset) == offset + 2          \* SDBFS_INO
OFFSET(ino) == ino - (ino % 16)     \* SDBFS_OFFSET: ino & ~15

At(i, a) == i.rec[a]

\* The addresses of the records of the directory at an address, its own first.
Records(i, at) == [k \in 1..At(i, at).records |-> at + SDB_SIZE * (k - 1)]

\* What sdbfs_iget reads for the record at an address.
Taken(i, a) == At(i, OFFSET(INO(a)))

\* The directory that a directory leads to by one of its records.
Within(i, d, a) == [sdb  |-> d.base + Taken(i, a).child,
                    base |-> d.base + Taken(i, a).first]

\* Records are inside the image, what is taken for one included, and
\* directories lead to directories.
ASSUME ImageAssumption ==
  \A n \in DOMAIN Image :
    LET i == Image[n]
        Inside(a) == a \in DOMAIN i.rec /\ a + SDB_SIZE <= i.size
    IN /\ i.size \in Nat
       /\ [sdb |-> i.entry, base |-> 0] \in Dirs[n]
       /\ \A d \in Dirs[n] :
            /\ d.sdb \in Nat /\ d.base \in Nat /\ Inside(d.sdb)
            /\ At(i, d.sdb).records \in Nat
            /\ \A a \in Range(Records(i, d.sdb)) :
                 /\ Inside(a) /\ Inside(OFFSET(INO(a)))
                 /\ Taken(i, a).type \in {"interconnect", "device", "bridge", "other"}
                 /\ Taken(i, a).first \in Nat /\ Taken(i, a).last \in Nat
                 /\ Taken(i, a).type = "bridge" => Within(i, d, a) \in Dirs[n]

NoDev == 0
NoIno == 0
Dot    == -2           \* the entries . and ..
DotDot == -3
Clean   == [nfiles |-> 0, files |-> <<>>]

VARIABLES
  owner,    \* which device module there is
  module,   \* its state: "out", "coming", "live" or "going"
  turn,     \* the image its init or exit function is at
  fw,       \* whether each device holds its firmware, or has its area mapped
  ready,    \* d->ready of sdb-iomem
  devlist,  \* the devices in sdbfs_devlist
  refs,     \* the reference count of the device module
  puts,     \* kill_sb calls that have still to drop their reference
  sb,       \* the device of the superblock, if there is one
  mount,    \* a mount under way: the device its search is at, and of which load
  inode,    \* the inodes in memory, by number; first and size are its record's
  dcache,   \* the names that have been looked up, found or not
  proc,     \* what each process is doing
  bound,    \* the loads, and the mounts and opens, so far
  undefined \* whether memory was used that is gone or was never set

modvars == <<owner, module, turn, fw, ready, devlist>>
sbvars  == <<refs, puts, sb, mount>>
allvars == <<modvars, sbvars, inode, dcache, proc, bound>>
vars    == <<allvars, undefined>>

NoMount == [step |-> "none", sd |-> NoDev, name |-> "", load |-> 0]

Away == [at |-> NoIno, op |-> "idle", name |-> "", ino |-> NoIno, pos |-> 0,
         got |-> <<>>, ended |-> FALSE, count |-> 0, done |-> 0, buf |-> <<>>,
         long |-> FALSE]

Init ==
  /\ owner \in Owners
  /\ module = "out" /\ turn = 0 /\ devlist = {} /\ refs = 0 /\ puts = 0
  /\ fw = [d \in Devs |-> FALSE] /\ ready = [d \in Devs |-> FALSE]
  /\ sb = NoDev /\ mount = NoMount /\ inode = <<>> /\ dcache = {}
  /\ undefined = FALSE
  /\ proc = [p \in Procs |-> Away]
  /\ bound = [loads |-> 0, uses |-> 0]

Fsimg == Given[owner]

\* A step that uses no memory but what is there, and one that does.
Sound == ~undefined /\ undefined' = FALSE
Crash == ~undefined /\ undefined' = TRUE /\ UNCHANGED allvars

Named(name) == {d \in devlist : Fsimg[d] = name}

(***************************************************************************)
(* The device module.  It is removed only when nobody refers to it.        *)
(***************************************************************************)
\* What sdb-iomem has mapped and not unmapped stays mapped when it is gone.
Load ==
  /\ Sound /\ module = "out" /\ bound.loads < MaxLoads
  /\ module' = "coming" /\ turn' = 1
  /\ ready' = [d \in Devs |-> FALSE]
  /\ bound' = [bound EXCEPT !.loads = @ + 1]
  /\ UNCHANGED <<owner, fw, devlist, sbvars, inode, dcache, proc>>

Turned(result) ==
  /\ turn' = turn + 1
  /\ module' = IF turn < Len(Fsimg) THEN module ELSE result

\* sdbfs_register_device refuses a name that is taken.
sdbfs_register_device ==
  Named(Fsimg[turn]) = {} /\ devlist' = devlist \union {turn}

\* One turn of the loop of fakedev_init: the firmware may not be found.
fakedev_init ==
  /\ Sound /\ module = "coming" /\ owner = "sdb-fakedev" /\ Turned("live")
  /\ \/ UNCHANGED <<fw, devlist>>
     \/ fw' = [fw EXCEPT ![turn] = TRUE] /\ sdbfs_register_device
  /\ UNCHANGED <<owner, ready, sbvars, inode, dcache, proc, bound>>

\* One turn of the loop of sdbmem_init.  The description may be wrong or the
\* area not be mapped; it is unmapped if it does not start with a directory,
\* but not if the device is refused.  The module goes if it has no device.
sdbmem_init ==
  LET image == Image[Fsimg[turn]]
  IN  /\ Sound /\ module = "coming" /\ owner = "sdb-iomem"
      /\ \/ UNCHANGED <<fw, ready, devlist>>
         \/ /\ image.rec[image.entry].magic
            /\ fw' = [fw EXCEPT ![turn] = TRUE]
            /\ \/ sdbfs_register_device /\ ready' = [ready EXCEPT ![turn] = TRUE]
               \/ Named(Fsimg[turn]) # {} /\ UNCHANGED <<ready, devlist>>
      /\ Turned(IF \E d \in Devs : ready'[d] THEN "live" ELSE "out")
      /\ UNCHANGED <<owner, sbvars, inode, dcache, proc, bound>>

Unload ==
  /\ Sound /\ module = "live" /\ refs = 0 /\ module' = "going" /\ turn' = 1
  /\ UNCHANGED <<owner, fw, ready, devlist, sbvars, inode, dcache, proc, bound>>

sdbfs_unregister_device == devlist' = devlist \ {turn}

\* One turn of the loop of fakedev_exit.
fakedev_exit ==
  /\ Sound /\ module = "going" /\ owner = "sdb-fakedev" /\ Turned("out")
  /\ fw' = [fw EXCEPT ![turn] = FALSE]
  /\ IF fw[turn] THEN sdbfs_unregister_device ELSE UNCHANGED devlist
  /\ UNCHANGED <<owner, ready, sbvars, inode, dcache, proc, bound>>

\* One turn of the loop of sdbmem_exit.
sdbmem_exit ==
  /\ Sound /\ module = "going" /\ owner = "sdb-iomem" /\ Turned("out")
  /\ IF ready[turn]
     THEN sdbfs_unregister_device /\ fw' = [fw EXCEPT ![turn] = FALSE]
     ELSE UNCHANGED <<fw, devlist>>
  /\ UNCHANGED <<owner, ready, sbvars, inode, dcache, proc, bound>>

(***************************************************************************)
(* Mounting.  There is one superblock at most (mount_single): a second     *)
(* mount gets it whatever name it gives.                                   *)
(***************************************************************************)
img == Image[Fsimg[sb]]

\* sdbfs_iget_root: the root directory, in memory that held m.
RootInode(i, m) ==
  [kind |-> "dir", base_data |-> 0, base_sdb |-> i.entry, first |-> 0,
   size |-> i.size, nfiles |-> m.nfiles, files |-> m.files, own |-> FALSE,
   mutex |-> FALSE]

\* list_add puts a device at the head of the list: its walk begins at the
\* device registered last and goes down.
Foremost(d, devs) == d \in devs /\ \A c \in devs : c <= d

\* One mount at a time; a superblock that is new begins sdbfs_get_by_name.
Mount(name) ==
  /\ Sound /\ mount = NoMount /\ bound.uses < MaxUses
  /\ bound' = [bound EXCEPT !.uses = @ + 1]
  /\ \/ (sb # NoDev \/ devlist = {}) /\ UNCHANGED mount
     \/ /\ sb = NoDev
        /\ \E d \in Devs :
             /\ Foremost(d, devlist)
             /\ mount' = [step |-> "find", sd |-> d, name |-> name,
                          load |-> bound.loads]
  /\ UNCHANGED <<modvars, refs, puts, sb, inode, dcache, proc>>

\* The devices are memory of the module, and gone when it is removed.
Gone == module = "out" \/ bound.loads # mount.load

\* One turn of the walk, which holds no lock: a device that is not the one
\* leads on only while it is in the list.
get_by_name ==
  /\ mount.step = "find"
  /\ LET here == Fsimg[mount.sd] = mount.name
         rest == {c \in devlist : c < mount.sd}
     IN \/ (Gone \/ (~here /\ mount.sd \notin devlist)) /\ Crash
        \/ /\ Sound /\ ~Gone
           /\ \/ here /\ mount' = [mount EXCEPT !.step = "get"]
              \/ /\ ~here /\ mount.sd \in devlist
                 /\ \/ rest = {} /\ mount' = NoMount
                    \/ \E c \in Devs : Foremost(c, rest) /\ mount' = [mount EXCEPT !.sd = c]
           /\ UNCHANGED <<modvars, refs, puts, sb, inode, dcache, proc, bound>>

try_module_get_blind == TRUE  \* mutant: the reference is taken unconditionally
try_module_get == module # "going"

\* sdbfs_fill_super with the device that was found, if that is still there.
fill_super ==
  /\ mount.step = "get"
  /\ \/ Gone /\ Crash
     \/ /\ Sound /\ ~Gone /\ mount' = NoMount
        /\ \/ ~try_module_get /\ UNCHANGED <<refs, puts, sb, inode>>
           \/ /\ try_module_get /\ refs' = refs + 1
              /\ LET i == Image[mount.name]
                 IN IF At(i, i.entry).magic
                      THEN \E m \in Leftovers :
                        /\ sb' = mount.sd /\ puts' = puts
                        /\ inode' = [k \in {ROOT} |-> RootInode(i, m)]
                      ELSE puts' = puts + 1 /\ UNCHANGED <<sb, inode>>
        /\ UNCHANGED <<modvars, dcache, proc, bound>>

\* What sdbfs_destroy_inode frees although the inode did not get it.
Wild(n) == n.files # <<>> /\ ~n.own

\* The last unmount: the inodes go, then the reference.
Umount ==
  /\ sb # NoDev /\ \A p \in Procs : proc[p].at = NoIno
  /\ IF \E i \in DOMAIN inode : Wild(inode[i])
     THEN Crash
     ELSE /\ Sound
          /\ sb' = NoDev /\ inode' = <<>> /\ dcache' = {} /\ puts' = puts + 1
          /\ UNCHANGED <<modvars, refs, mount, proc, bound>>

sdbfs_put ==
  /\ Sound /\ puts > 0 /\ puts' = puts - 1 /\ refs' = refs - 1
  /\ UNCHANGED <<modvars, sb, mount, inode, dcache, proc, bound>>

(***************************************************************************)
(* Directories.  The kernel calls lookup and readdir with the mutex of the *)
(* directory held.                                                         *)
(***************************************************************************)
dir(p) == inode[proc[p].at]

Lock(p) == inode' = [inode EXCEPT ![proc[p].at].mutex = TRUE]
Unlocked(f, p) == [f EXCEPT ![proc[p].at].mutex = FALSE]

\* sdbfs_read_whole_dir: own tells that files is what it has allocated.
read_whole_dir(d) ==
  IF d.nfiles # 0 \/ ~At(img, d.base_sdb).magic THEN d
  ELSE [d EXCEPT !.nfiles = At(img, d.base_sdb).records,
                 !.files = Records(img, d.base_sdb), !.own = TRUE]

\* It takes an nfiles that was never set for its own.
Stale(d) == d.nfiles # 0 /\ ~d.own

\* A process opens the root, or goes to a name of the directory it is at that
\* is in the cache already; it looks up one that is not.
Open(p) ==
  /\ Sound /\ sb # NoDev /\ proc[p].at = NoIno /\ bound.uses < MaxUses
  /\ proc' = [proc EXCEPT ![p] = [Away EXCEPT !.at = ROOT]]
  /\ bound' = [bound EXCEPT !.uses = @ + 1]
  /\ UNCHANGED <<modvars, sbvars, inode, dcache>>

Idle(p, kind) ==
  proc[p].at # NoIno /\ proc[p].op = "idle" /\ inode[proc[p].at].kind = kind

Walk(p) ==
  /\ Sound /\ Idle(p, "dir")
  /\ \E e \in dcache :
       /\ e.dir = proc[p].at /\ e.ino # NoIno
       /\ proc' = [proc EXCEPT ![p] = [Away EXCEPT !.at = e.ino]]
  /\ UNCHANGED <<modvars, sbvars, inode, dcache, bound>>

Names == UNION {{At(Image[n], a).name : a \in DOMAIN Image[n].rec} :
                 n \in DOMAIN Image}

lookup_start(p, name) ==
  /\ Sound /\ Idle(p, "dir") /\ ~dir(p).mutex
  /\ ~\E e \in dcache : e.dir = proc[p].at /\ e.name = name
  /\ Lock(p)
  /\ proc' = [proc EXCEPT ![p].op = "lookup", ![p].name = name]
  /\ UNCHANGED <<modvars, sbvars, dcache, bound>>

\* sdbfs_lookup up to iget_locked: the first file of the name, if there is one.
Found(p, d) == {k \in 1..d.nfiles : At(img, d.files[k]).name = proc[p].name}
Number(p, d) ==
  LET i == (CHOOSE k \in Found(p, d) : \A j \in Found(p, d) : k <= j) - 1
  IN  INO(d.base_sdb + SDB_SIZE * i)
Busy == [kind |-> "new", base_data |-> 0, base_sdb |-> 0, first |-> 0, size |-> 0,
         nfiles |-> 0, files |-> <<>>, own |-> FALSE, mutex |-> FALSE]

Entry(p, i) == [dir |-> proc[p].at, name |-> proc[p].name, ino |-> i]

\* d_add, and the return.
Added(p, f, i) ==
  /\ dcache' = dcache \union {Entry(p, i)}
  /\ inode' = Unlocked(f, p)
  /\ proc' = [proc EXCEPT ![p] =
                 [Away EXCEPT !.at = IF i = NoIno THEN proc[p].at ELSE i]]

sdbfs_lookup(p) ==
  /\ Sound /\ proc[p].op = "lookup" /\ ~Stale(dir(p))
  /\ LET d == read_whole_dir(dir(p))
         f == [inode EXCEPT ![proc[p].at] = d]
         i == Number(p, d)
     IN \/ /\ Found(p, d) = {} /\ Added(p, f, NoIno)
        \/ /\ Found(p, d) # {} /\ i \in DOMAIN inode
           /\ inode[i].kind # "new" /\ Added(p, f, i)
        \/ /\ Found(p, d) # {} /\ i \notin DOMAIN inode
           /\ inode' = [k \in DOMAIN inode \union {i} |-> IF k = i THEN Busy ELSE f[k]]
           /\ proc' = [proc EXCEPT ![p].op = "iget", ![p].ino = i]
           /\ UNCHANGED dcache
  /\ UNCHANGED <<modvars, sbvars, bound>>

\* sdbfs_iget, for an inode that is new: the record says what it is.
iget_absolute(d, i, m) ==  \* mutant: data and subdirectory at absolute addresses
  LET r == At(img, OFFSET(i))
      n == [Busy EXCEPT !.nfiles = m.nfiles, !.files = m.files, !.first = r.first,
                        !.size = r.last - r.first + 1, !.base_data = r.first]
  IN IF r.type = "bridge"
       THEN [n EXCEPT !.kind = "dir", !.base_sdb = r.child]
       ELSE [n EXCEPT !.kind = "file"]
iget(d, i, m) ==
  LET r == At(img, OFFSET(i))
      n == [Busy EXCEPT !.nfiles = m.nfiles, !.files = m.files, !.first = r.first,
                        !.size = r.last - r.first + 1]
  IN CASE r.type \in {"interconnect", "device"} ->
            [n EXCEPT !.kind = "file", !.base_data = d.base_data + r.first]
       [] r.type = "bridge" ->
            [n EXCEPT !.kind = "dir", !.base_data = d.base_data + r.first,
                      !.base_sdb = d.base_data + r.child]
       [] OTHER -> [n EXCEPT !.kind = "none"]

sdbfs_iget(p) ==
  /\ Sound /\ proc[p].op = "iget"
  /\ \E m \in Leftovers :
       Added(p, [inode EXCEPT ![proc[p].ino] = iget(dir(p), proc[p].ino, m)],
             proc[p].ino)
  /\ UNCHANGED <<modvars, sbvars, bound>>

readdir_start(p) ==
  /\ Sound /\ Idle(p, "dir") /\ ~dir(p).mutex /\ ~proc[p].ended
  /\ Lock(p)
  /\ proc' = [proc EXCEPT ![p].op = "readdir"]
  /\ UNCHANGED <<modvars, sbvars, dcache, bound>>

\* sdbfs_readdir: from f_pos on, as many entries as there is room for.
\* Each has the number of the directory's first record: offset stays there.
\* The numbers of dot and dotdot are left out.
EntryOf(d, info) == [info |-> info, d_ino |-> INO(d.base_sdb)]
Dots == <<[info |-> Dot, d_ino |-> NoIno], [info |-> DotDot, d_ino |-> NoIno]>>
Entries(d) == Dots \o [k \in 1..d.nfiles |-> EntryOf(d, d.files[k])]
Emitted_again(d, pos) ==  \* mutant: the entry there was no room for is skipped
  LET from == IF pos = 0 THEN 1 ELSE pos + 2
  IN IF from - 1 + Room < d.nfiles + 2 THEN SubSeq(Entries(d), from, from - 1 + Room)
     ELSE SubSeq(Entries(d), from, d.nfiles + 2)
Emitted(d, pos) ==
  IF pos + Room < d.nfiles + 2 THEN SubSeq(Entries(d), pos + 1, pos + Room)
  ELSE SubSeq(Entries(d), pos + 1, d.nfiles + 2)

sdbfs_readdir(p) ==
  /\ Sound /\ proc[p].op = "readdir" /\ ~Stale(dir(p))
  /\ LET d == read_whole_dir(dir(p))
         e == Emitted(d, proc[p].pos)
     IN /\ inode' = Unlocked([inode EXCEPT ![proc[p].at] = d], p)
        /\ proc' = [proc EXCEPT ![p].op = "idle", ![p].pos = @ + Len(e),
                                ![p].got = @ \o e, ![p].ended = e = <<>>]
  /\ UNCHANGED <<modvars, sbvars, dcache, bound>>

\* Both walk an array that was never theirs.
stale_dir(p) ==
  proc[p].op \in {"lookup", "readdir"} /\ Stale(dir(p)) /\ Crash

(***************************************************************************)
(* Files.                                                                  *)
(***************************************************************************)
file(p) == inode[proc[p].at]

\* fakedev_read: count bytes at begin, or those the image has of them.  So
\* does sdbmem_read.
fakedev_read(begin, count) ==
  LET n == IF begin + count > img.size THEN img.size - begin ELSE count
  IN IF begin > img.size THEN [i |-> -1, data |-> <<>>]
     ELSE [i |-> n, data |-> [k \in 1..n |-> begin + k - 1]]

\* sdbfs_read: what is asked, and what of it the file has.
Clamped_end(p, count) == count  \* mutant: the end of the file is not heeded
Clamped(p, count) ==
  IF proc[p].pos + count > file(p).size THEN file(p).size - proc[p].pos ELSE count

read_start(p, count) ==
  /\ Sound /\ Idle(p, "file") /\ proc[p].pos <= file(p).size
  /\ proc' = [proc EXCEPT ![p].op = "read", ![p].count = Clamped(p, count),
                          ![p].done = 0, ![p].buf = <<>>,
                          ![p].long = @ \/ Clamped(p, count) > Kbuf]
  /\ UNCHANGED <<modvars, sbvars, inode, dcache, bound>>

\* One turn of its loop, which always reads from the same place: *offp moves
\* only after it.
Counted(done, r) == IF r.i < 0 THEN done ELSE done + r.i
NextTurn_partial(r, n) == IF r.i < 0 THEN "readend" ELSE "read"  \* mutant: no break
NextTurn(r, n) == IF r.i = n THEN "read" ELSE "readend"

sdbfs_read(p) ==
  /\ Sound /\ proc[p].op = "read" /\ proc[p].done < proc[p].count
  /\ LET n == IF Kbuf > proc[p].count THEN proc[p].count ELSE Kbuf
         r == fakedev_read(file(p).first + proc[p].pos, n)
     IN proc' = [proc EXCEPT ![p].done = Counted(@, r),
                             ![p].buf = @ \o r.data,
                             ![p].op = NextTurn(r, n)]
  /\ UNCHANGED <<modvars, sbvars, inode, dcache, bound>>

read_end(p) ==
  /\ Sound
  /\ \/ proc[p].op = "readend"
     \/ proc[p].op = "read" /\ proc[p].done >= proc[p].count
  /\ proc' = [proc EXCEPT ![p].op = "idle", ![p].pos = @ + proc[p].done,
                          ![p].got = @ \o proc[p].buf,
                          ![p].ended = proc[p].done = 0]
  /\ UNCHANGED <<modvars, sbvars, inode, dcache, bound>>

(***************************************************************************)
(* What the kernel does by itself: a process leaves, and an inode that     *)
(* nobody uses goes with the name that leads to it.                        *)
(***************************************************************************)
Close(p) ==
  /\ Sound /\ proc[p].at # NoIno /\ proc[p].op = "idle"
  /\ proc' = [proc EXCEPT ![p] = Away]
  /\ UNCHANGED <<modvars, sbvars, inode, dcache, bound>>

\* sdbfs_destroy_inode.
Evict(e) ==
  /\ e.ino # NoIno => \A p \in Procs : proc[p].at # e.ino
  /\ ~\E c \in dcache : c.dir = e.ino
  /\ LET gone == IF \E c \in dcache \ {e} : c.ino = e.ino THEN {} ELSE {e.ino}
     IN IF \E i \in gone \cap DOMAIN inode : Wild(inode[i])
        THEN Crash
        ELSE /\ Sound /\ dcache' = dcache \ {e}
             /\ inode' = [i \in DOMAIN inode \ gone |-> inode[i]]
             /\ UNCHANGED <<modvars, sbvars, proc, bound>>

Call(p) == \/ sdbfs_lookup(p) \/ sdbfs_iget(p) \/ sdbfs_readdir(p) \/ stale_dir(p)
           \/ sdbfs_read(p) \/ read_end(p)

Next ==
  \/ Load \/ fakedev_init \/ sdbmem_init
  \/ Unload \/ fakedev_exit \/ sdbmem_exit
  \/ \E n \in DOMAIN Image : Mount(n)
  \/ get_by_name \/ fill_super \/ Umount \/ sdbfs_put
  \/ \E e \in dcache : Evict(e)
  \/ \E p \in Procs :
       \/ Open(p) \/ Walk(p) \/ readdir_start(p) \/ Close(p) \/ Call(p)
       \/ \E n \in Names \ {"."} : lookup_start(p, n)
       \/ \E c \in Counts : read_start(p, c)

Spec == Init /\ [][Next]_vars

\* A call that has begun goes on: the kernel runs its processes.
LiveSpec == Spec /\ \A p \in Procs : WF_vars(~undefined /\ Call(p))

(***************************************************************************)
(* Properties.                                                             *)
(***************************************************************************)
\* What is mounted can be read: its device is registered, and holds its
\* firmware or its area, and the device module is held by exactly the
\* superblock and the releases under way, though a mount looks for its device
\* without a lock and the module may begin to go, or go and come again, at any
\* step of that.  A module that is gone has left no device in the list.
DevicePinned ==
  /\ sb # NoDev => sb \in devlist /\ module \in {"coming", "live"}
  /\ \A d \in devlist : fw[d]
  /\ refs = puts + (IF sb = NoDev THEN 0 ELSE 1)
  /\ module = "out" => devlist = {}

\* What is in the directory at an address, if there is one.
Listing(i, at) == IF At(i, at).magic THEN Records(i, at) ELSE <<>>

\* A name in the cache leads to what the image says: an inode whose data and
\* records are where the first record of that name, in the directory the name
\* was looked up in, puts them; or to nothing if there is no such record.  An
\* inode's number keeps only the addresses that are multiples of 16: of other
\* directories this says only which names lead to something.
NamesRight ==
  \A e \in dcache : \E d \in Dirs[Fsimg[sb]] :
    LET rs   == {a \in Range(Listing(img, d.sdb)) : At(img, a).name = e.name}
        r    == At(img, CHOOSE a \in rs : \A b \in rs : a <= b)
        here == [first |-> d.base + r.first, size |-> r.last - r.first + 1,
                 sdb |-> IF r.type = "bridge" THEN d.base + r.child ELSE 0]
    IN /\ inode[e.dir].base_sdb = d.sdb
       /\ (e.ino = NoIno) = (rs = {})
       /\ rs # {} /\ r.type # "other" /\ d.sdb % 16 = 0 =>
            LET n == inode[e.ino]
            IN [first |-> n.base_data, size |-> n.size, sdb |-> n.base_sdb] = here

\* A listing that was read to its end, by any number of calls and whatever
\* other processes look up meanwhile, is dot, dotdot and the directory's
\* records, each once and in order, and all with the number of the first; and
\* so is what was read of it before memory was used that was never set.
ListingComplete ==
  \A p \in Procs :
    proc[p].at # NoIno /\ inode[proc[p].at].kind = "dir" =>
      LET L   == Listing(img, dir(p).base_sdb)
          all == Dots \o [k \in 1..Len(L) |-> EntryOf(dir(p), L[k])]
      IN /\ IsPrefix(proc[p].got, all)
         /\ proc[p].ended => proc[p].got = all

\* The files of the root directory, and what there is of one in the image.
AtRootFile(p) ==
  \E e \in dcache : /\ e.dir = ROOT /\ e.ino # NoIno /\ proc[p].at = e.ino
                    /\ inode[e.ino].kind = "file"
Bytes(f) ==
  LET there == IF f.first + f.size <= img.size THEN f.size ELSE img.size - f.first
  IN  [k \in 1..there |-> f.first + k - 1]

InOrder(p) == /\ IsPrefix(proc[p].got, Bytes(file(p)))
              /\ proc[p].ended => proc[p].got = Bytes(file(p))

\* A file of the root directory, read from its start call after call, gives
\* its bytes in order, and at the end all of those that the image has.
ReadFaithful == \A p \in Procs : AtRootFile(p) => InOrder(p)

\* What a read of a file of the root directory stores, however long it is:
\* the bytes from the position on up to the size of the kernel's buffer, and
\* those again and again.  Reads of no more than that give the file's bytes in
\* order, to the end of the file or of the image.
ReadExact ==
  \A p \in Procs : AtRootFile(p) =>
    /\ proc[p].op # "idle" =>
         \A k \in 1..Len(proc[p].buf) :
           proc[p].buf[k] = file(p).first + proc[p].pos + ((k - 1) % Kbuf)
    /\ ~proc[p].long => InOrder(p)

\* Every call a process makes of the file system returns, unless behaviour is
\* undefined before.
CallReturns ==
  \A p \in Procs : proc[p].op # "idle" ~> proc[p].op = "idle" \/ undefined

(***************************************************************************)
(* What the proof of NamesRight asks of the images besides.                *)
(***************************************************************************)
\* No record is in two directories, so that its address, the inode's number,
\* says where its own addresses start from.
DirsApart ==
  \A n \in DOMAIN Image : \A c, d \in Dirs[n] :
    Range(Records(Image[n], c.sdb)) \cap Range(Records(Image[n], d.sdb)) # {}
      => c = d
===============================================================================
