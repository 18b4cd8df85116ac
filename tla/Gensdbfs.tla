------------------------------- MODULE Gensdbfs -------------------------------
(***************************************************************************)
(* gensdbfs (sdbfs/userspace/gensdbfs.c), which turns a directory into an  *)
(* SDB image: it places every file and directory in the storage, going     *)
(* down into directories, and then writes records and data.  Both passes   *)
(* are recursive; here they keep their stack.                              *)
(*                                                                         *)
(* Addresses count bytes.  What is written is told by its origin: the      *)
(* record of an entry or the data of a file, and which byte of it.         *)
(***************************************************************************)
EXTENDS Integers, Sequences, FiniteSets, SequencesExt

CONSTANTS
  Trees,      \* input directories with their configuration, see Prepared
  Devsizes,   \* values of option -s; 0 is none
  blocksize,  \* option -b
  RECORD,     \* sizeof(struct sdb_device)
  ULONG,      \* unsigned long counts modulo this
  Unset,      \* what the configuration does not set
  Growth      \* how much a file may grow while it is being copied

\* SDB_ALIGN masks bits, which aligns to powers of two only.
ASSUME GensdbfsAssumption ==
  /\ blocksize \in {2 ^ i : i \in 0..16} /\ RECORD \in Nat \ {0}
  /\ Devsizes \subseteq Nat /\ Growth \in Nat /\ ULONG \in Nat \ {0}
  /\ Unset \notin Int

SDB_ALIGN(x) == ((x + blocksize - 1) \div blocksize) * blocksize

VARIABLES
  tree, devsize,  \* the input; it does not change
  entry,   \* of each entry of a directory: struct sdbf and its record
  dot,     \* of each directory: slot 0 of its array
  stack,   \* the calls of alloc_storage or write_sdb under way, innermost last
  phase,   \* "alloc", "write", "done", or "failed": it exits with status 1
  image,   \* the output file: a function on the addresses written
  lastwritten,
  copied   \* ghost: how many bytes of each file were copied

vars == <<tree, devsize, entry, dot, stack, phase, image, lastwritten, copied>>

Dirs    == DOMAIN tree.kids
Entries == UNION {Range(tree.kids[d]) : d \in Dirs}
Files   == Entries \ Dirs
Kid(d, i) == tree.kids[d][i]
Count(d)  == Len(tree.kids[d]) + 1  \* sdb_records: with the dot

\* Steps 0 and 1: what stat and the configuration say.  The dot of a
\* subdirectory cannot be configured.
Ustart(d)  == IF d = tree.root /\ tree.position[d] # Unset THEN tree.position[d] ELSE 0
Userpos(f) == tree.position[f] # Unset
FileSize(f) == IF f \in tree.writable THEN SDB_ALIGN(tree.st_size[f]) ELSE tree.st_size[f]
Prepared(f) ==
  [rstart |-> 0, first |-> 0, last |-> 0, child |-> 0,
   size |-> IF tree.maxsize[f] # Unset THEN tree.maxsize[f]
            ELSE IF f \in Dirs THEN 0 ELSE FileSize(f)]

\* A call of alloc_storage for directory d, before its first entry.
Call_nodot(d) ==  \* mutant: the record of the dot has no place
  LET rpos == Ustart(d) + SDB_ALIGN((Count(d) - 1) * RECORD)
  IN [dir |-> d, i |-> 1, rpos |-> rpos, last |-> rpos, below |-> FALSE]
Call(d) ==
  LET rpos == Ustart(d) + SDB_ALIGN(Count(d) * RECORD)
  IN [dir |-> d, i |-> 1, rpos |-> rpos, last |-> rpos, below |-> FALSE]

Init ==
  /\ tree \in Trees /\ devsize \in Devsizes
  /\ entry = [f \in Entries |-> Prepared(f)]
  /\ dot = [d \in Dirs |-> [base |-> 0, last |-> 0]]
  /\ stack = << Call(tree.root) >> /\ phase = "alloc"
  /\ image = [a \in {} |-> Unset] /\ lastwritten = 0
  /\ copied = [f \in Files |-> 0]

Top    == Last(stack)
Done   == Top.i = Count(Top.dir)
Here   == Kid(Top.dir, Top.i)

(***************************************************************************)
(* Step 2: alloc_storage.                                                  *)
(***************************************************************************)
\* A directory allocates itself, at the next place of the one it is in.
alloc_enter ==
  /\ phase = "alloc" /\ ~Done /\ Here \in Dirs /\ ~Top.below
  /\ dot' = [dot EXCEPT ![Here].base = dot[Top.dir].base + Top.rpos]
  /\ stack' = Append(stack, Call(Here))
  /\ UNCHANGED <<tree, devsize, entry, phase, image, lastwritten, copied>>

\* What the caller makes of the last byte of a directory: its size.
SizeOfDir_none(last) == 0  \* mutant: the directory takes no place
SizeOfDir(last) == last

\* Back in the caller, which may reserve more than the directory needs.
alloc_return ==
  /\ phase = "alloc" /\ Done
  /\ dot' = [dot EXCEPT ![Top.dir].last = Top.last]
  /\ IF Len(stack) = 1
       THEN /\ phase' = "write" /\ stack' = << [dir |-> Top.dir, i |-> 0] >>
            /\ UNCHANGED entry
       ELSE LET d == Top.dir
                caller == Front(stack)
                subsize == SizeOfDir(Top.last)
            IN /\ entry' = [entry EXCEPT
                              ![d].size = IF subsize > @ THEN subsize ELSE @,
                              ![d].child = Last(caller).rpos]
               /\ stack' = [caller EXCEPT ![Len(caller)].below = TRUE]
               /\ UNCHANGED phase
  /\ UNCHANGED <<tree, devsize, image, lastwritten, copied>>

\* The frame after an entry whose last byte is l.
Placed(rpos, l) ==
  [Top EXCEPT !.i = @ + 1, !.below = FALSE, !.rpos = rpos,
              !.last = IF l > @ THEN l ELSE @]

\* The place that the user wants, or the next one.  The last byte wraps around
\* when an empty file is placed at 0.
NextPos(rpos, size) == SDB_ALIGN(rpos + size)
alloc_place ==
  /\ phase = "alloc" /\ ~Done /\ (Here \in Files \/ Top.below)
  /\ LET f     == Here
         first == IF Userpos(f) THEN tree.position[f] ELSE Top.rpos
         l     == (first + entry[f].size - 1) % ULONG
     IN /\ entry' = [entry EXCEPT
                       ![f].first = first, ![f].last = l,
                       ![f].rstart = IF Userpos(f) THEN @ ELSE first]
        /\ stack' = [stack EXCEPT ![Len(stack)] =
                       Placed(IF Userpos(f) THEN @.rpos
                              ELSE NextPos(@.rpos, entry[f].size), l)]
  /\ UNCHANGED <<tree, devsize, dot, phase, image, lastwritten, copied>>

(***************************************************************************)
(* Step 3: write_sdb.                                                      *)
(***************************************************************************)
\* The image after the n bytes of item are written from address a on.
Written(a, item, n) ==
  [x \in DOMAIN image \cup a..a + n - 1 |->
     IF x \in a..a + n - 1 THEN <<item, x - a>> ELSE image[x]]

\* The items: the records of a directory, the data of a file, the filling.
Records(d) == <<"records", d>>
Data(f)    == <<"data", f>>
Zero       == <<"zero", tree.root>>

write_dir ==
  /\ phase = "write" /\ Top.i = 0
  /\ image' = Written(dot[Top.dir].base + Ustart(Top.dir), Records(Top.dir),
                      Count(Top.dir) * RECORD)
  /\ stack' = [stack EXCEPT ![Len(stack)].i = 1]
  /\ UNCHANGED <<tree, devsize, entry, dot, phase, lastwritten, copied>>

write_enter ==
  /\ phase = "write" /\ Top.i > 0 /\ ~Done /\ Here \in Dirs
  /\ stack' = Append(stack, [dir |-> Here, i |-> 0])
  /\ UNCHANGED <<tree, devsize, entry, dot, phase, image, lastwritten, copied>>

Start_absolute(f) ==  \* mutant: without the base of the directory
  IF Userpos(f) THEN tree.position[f] ELSE entry[f].rstart
Start(f) ==
  IF Userpos(f) THEN tree.position[f] ELSE dot[Top.dir].base + entry[f].rstart

\* A file is copied in blocks until as much as stat said is copied: of one that
\* has grown since, the rest of the last block is copied too.
CopyLength(f, length) ==
  LET most == SDB_ALIGN(tree.st_size[f]) IN IF length < most THEN length ELSE most

\* A file that cannot be opened is ignored; it may have been emptied or grown.
write_file ==
  /\ phase = "write" /\ Top.i > 0 /\ ~Done /\ Here \in Files
  /\ \E length \in {0, tree.st_size[Here], tree.st_size[Here] + Growth} :
       LET n == CopyLength(Here, length)
           end == Start(Here) + n
       IN /\ image' = Written(Start(Here), Data(Here), n)
          /\ lastwritten' = IF n > 0 /\ end > lastwritten THEN end ELSE lastwritten
          /\ copied' = [copied EXCEPT ![Here] = n]
  /\ stack' = [stack EXCEPT ![Len(stack)].i = @ + 1]
  /\ UNCHANGED <<tree, devsize, entry, dot, phase>>

\* At the end the output is made as long as the device.
Exceeds_last(end) == end >= devsize  \* mutant
Exceeds(end) == end > devsize
write_return ==
  /\ phase = "write" /\ Done
  /\ IF Len(stack) > 1
       THEN LET caller == Front(stack)
            IN /\ stack' = [caller EXCEPT ![Len(caller)].i = @ + 1]
               /\ UNCHANGED <<phase, image>>
       ELSE /\ image' = IF lastwritten < devsize
                          THEN Written(devsize - 1, Zero, 1) ELSE image
            /\ phase' = IF devsize # 0 /\ Exceeds(lastwritten)
                          THEN "failed" ELSE "done"
            /\ UNCHANGED stack
  /\ UNCHANGED <<tree, devsize, entry, dot, lastwritten, copied>>

Next ==
  \/ alloc_enter \/ alloc_place \/ alloc_return
  \/ write_dir \/ write_enter \/ write_file \/ write_return

Spec == Init /\ [][Next]_vars

(***************************************************************************)
(* The reference: where a reader of the image looks (sdbfs_scan).  The     *)
(* records of a directory are at its child address, what its records say   *)
(* is relative to its first address, both relative to the directory above. *)
(***************************************************************************)
Parent(f) == CHOOSE d \in Dirs : f \in Range(tree.kids[d])

Base[d \in Dirs] ==
  IF d = tree.root THEN 0 ELSE Base[Parent(d)] + entry[d].first

Table(d) ==
  IF d = tree.root THEN Ustart(d) ELSE Base[Parent(d)] + entry[d].child

First(f) == Base[Parent(f)] + entry[f].first
Length(f) == (entry[f].last + 1 - entry[f].first) % ULONG
Area(f)   == First(f)..First(f) + Length(f) - 1

Holds(a, item, n) == \A k \in 0..n - 1 : a + k \in DOMAIN image /\ image[a + k] = <<item, k>>

Ended == phase \in {"done", "failed"}

(***************************************************************************)
(* Properties.                                                             *)
(***************************************************************************)
\* A reader finds every directory, whole, at the address that the record in the
\* directory above gives, and the first one where the user placed it.
TablesReadBack ==
  Ended => \A d \in Dirs : Holds(Table(d), Records(d), Count(d) * RECORD)

\* A reader finds the data of every file at the address its record gives: as
\* much as was copied, and overwritten by nothing.
FilesReadBack == Ended => \A f \in Files : Holds(First(f), Data(f), copied[f])

\* The area that a file has reserved, beyond its data too, holds nothing else.
AreaOwned ==
  Ended => \A f \in Files : \A a \in Area(f) \cap DOMAIN image : image[a][1] \in {Data(f), Zero}

\* The exit status tells whether the data of all files fits the device.
DataFits ==
  Ended /\ devsize # 0 =>
    (phase = "failed" <=> \E f \in Files : copied[f] > 0 /\ First(f) + copied[f] > devsize)
===============================================================================
