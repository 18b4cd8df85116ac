----------------------------- MODULE MCSdbfsKernel -----------------------------
(***************************************************************************)
(* An instance of the file system in the kernel: an image with a           *)
(* subdirectory and one that holds no directory, which sdb-fakedev has and *)
(* finds at address 0, and an area of sdb-iomem with an odd entry point.   *)
(***************************************************************************)
EXTENDS SdbfsKernel

Record(type, name, first, last) ==
  [type |-> type, magic |-> FALSE, records |-> 0, name |-> name,
   first |-> first, last |-> last, child |-> 0]
Inter(name, n, last) ==
  [Record("interconnect", name, 0, last) EXCEPT !.magic = TRUE, !.records = n]
Bridge(name, first, last, child) ==
  [Record("bridge", name, first, last) EXCEPT !.child = child]

\* A subdirectory whose records are not where its data begins; a file that
\* the image has only part of, and, in the subdirectory, one that it has
\* nothing of.
Nested ==
  [entry |-> 0, size |-> 516,
   rec |-> (0 :> Inter(".", 4, 536)) @@ (64 :> Record("device", "a", 512, 514))
           @@ (128 :> Bridge("sub", 16, 536, 384))
           @@ (192 :> Record("device", "x", 513, 517))
           @@ (384 :> Inter(".", 2, 536)) @@ (448 :> Record("device", "a", 516, 517))]

\* No directory at its start.
Wrong == [entry |-> 0, size |-> 64, rec |-> 0 :> Record("device", "a", 0, 0)]

\* An entry point that is not a multiple of 16: what sdbfs_iget reads begins
\* 8 bytes before the record, and has a character of the name for its type.
Odd ==
  [entry |-> 8, size |-> 140,
   rec |-> (8 :> Inter(".", 2, 139)) @@ (72 :> Record("device", "a", 136, 137))
           @@ (0 :> Record("other", ".", 0, 0)) @@ (64 :> Record("other", ".", 0, 136))]

Images == ("nested" :> Nested) @@ ("wrong" :> Wrong) @@ ("odd" :> Odd)

\* TLC computes a definition once, and one that stands for a constant again
\* and again.
MCImage == Images

\* The directories of an image, found from the root on.
DirsOf(i) ==
  LET Root     == [sdb |-> i.entry, base |-> 0]
      Below(d) == {Within(i, d, a) :
                     a \in {x \in Range(Records(i, d.sdb)) : Taken(i, x).type = "bridge"}}
      f[k \in 0..Cardinality(DOMAIN i.rec)] ==
        IF k = 0 THEN {Root} ELSE f[k - 1] \union UNION {Below(d) : d \in f[k - 1]}
  IN  f[Cardinality(DOMAIN i.rec)]

Directories ==
  ("nested" :> DirsOf(Nested)) @@ ("wrong" :> DirsOf(Wrong)) @@ ("odd" :> DirsOf(Odd))

MCDirs == Directories

\* A name that is given twice is refused the second time.
MCGiven == ("sdb-fakedev" :> <<"wrong", "nested">>)
           @@ ("sdb-iomem" :> <<"odd", "odd">>)

\* The memory of a new inode is clear, or an inode was in it that had read
\* its directory.
CleanInodes == {Clean}
UsedInodes  == {Clean, [nfiles |-> 2, files |-> <<384, 448>>]}

ASSUME InstanceAssumption == DirsApart
===============================================================================
