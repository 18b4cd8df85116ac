------------------------------- MODULE SdbfsLib -------------------------------
(***************************************************************************)
(* The sdbfs library (sdbfs/lib) and the tools that show how it is used    *)
(* (sdb-read, sdb-extract): the walk over the records of an SDB image,     *)
(* opening a file by name or by identifier, and reading it.                *)
(*                                                                         *)
(* Addresses count records: a record takes one.  What a file holds is      *)
(* told by its addresses, so data that is read is an interval of them.     *)
(***************************************************************************)
EXTENDS Integers, Sequences, FiniteSets, SequencesExt

CONSTANTS
  Images,       \* the images a file system may hold, see Record
  SDBFS_DEPTH,  \* how many levels of directories the library follows
  MaxRecords,   \* the records of the longest directory, 65535 in the format
  Keys,         \* what files are opened by: a name or an identifier
  NoAddr,       \* NULL
  Accesses,     \* how the storage is reached: "mapped", "method"
  Tools,        \* what is run: "list", "cat", "find", "extract"
  Buf,          \* size of the buffer of a read
  Offsets,      \* explicit offsets of reads
  MaxRuns       \* bound on the uses of the library

ASSUME SdbfsLibAssumption ==
  /\ SDBFS_DEPTH \in Nat \ {0} /\ Buf \in Nat \ {0} /\ MaxRuns \in Nat
  /\ MaxRecords \in Nat \ {0}
  /\ Offsets \subseteq Nat
  /\ Keys \subseteq [by : {"name"}, of : Seq(STRING) \ {<<>>}]
                      \cup [by : {"id"}, of : Nat]
  /\ NoAddr \notin Int

(***************************************************************************)
(* Images.  A record has a type, the magic number and the length of its    *)
(* directory if it starts one, and the addresses of its data and of its    *)
(* subdirectory, both relative to the directory.  A name is a sequence of  *)
(* words; in the record they are parted, and the rest filled, by blanks.   *)
(***************************************************************************)
Blank == [type |-> "empty", magic |-> FALSE, records |-> 1, first |-> 0,
          last |-> 0, child |-> 0, name |-> <<>>, id |-> 0]

At(img, a) == IF a \in DOMAIN img.rec THEN img.rec[a] ELSE Blank

IsDir(img, a) == At(img, a).type = "interconnect" /\ At(img, a).magic

\* A directory counts the record that starts it.  An image starts with one, or
\* is none; a file is not shorter than nothing.
ASSUME ImageAssumption ==
  \A img \in Images :
    /\ img.entry \in Nat /\ DOMAIN img.rec \subseteq Nat
    /\ At(img, img.entry).type # "bridge"
    /\ \A a \in DOMAIN img.rec :
         LET r == img.rec[a]
         IN /\ r.records \in 1..MaxRecords
            /\ r.first \in Nat /\ r.child \in Nat
            /\ r.last \in Int /\ r.last + 1 >= r.first

VARIABLES
  image, access,
  fs,       \* struct sdbfs
  op,       \* what the tool that runs is doing
  listed,   \* ghost: what the scan has returned, and where
  read,     \* ghost: what the last read returned, see Unread
  runs

vars == <<image, access, fs, op, listed, read, runs>>

Levels == 0..SDBFS_DEPTH - 1
Idle   == [tool |-> "none", key |-> NoAddr, step |-> "idle"]
\* A read that should start at offset at of its file and started at address
\* from of the storage; a sequential one should come at offset next.
Unread == [at |-> 0, from |-> 0, count |-> 0, next |-> 0]

Init ==
  /\ image \in Images /\ access \in Accesses
  /\ fs = [currentp |-> NoAddr, f_len |-> 0, f_offset |-> 0, read_offset |-> 0,
           base |-> [d \in Levels |-> 0], this |-> [d \in Levels |-> 0],
           nleft |-> [d \in Levels |-> 0], depth |-> 0]
  /\ op = Idle /\ listed = <<>> /\ read = Unread /\ runs = 0

Current(f) == At(image, f.currentp)

(***************************************************************************)
(* sdbfs_scan: the next record, or none.                                   *)
(***************************************************************************)
\* Where the file of the record is.
Located(f) ==
  [f EXCEPT !.f_offset = f.base[f.depth] + Current(f).first]

\* Enter the directory of level d, if there is one.
scan_newdir(f, d) ==
  LET at == f.this[d]
      g  == [f EXCEPT !.currentp = at]
  IN IF IsDir(image, at)
       THEN [g EXCEPT !.nleft[d] = At(image, at).records - 1,
                      !.this[d] = at + 1, !.depth = d]
       ELSE g

\* A scan that starts, and one that goes into the bridge it returned last.
Restarted(f) ==
  [f EXCEPT !.base[0] = 0, !.this[0] = image.entry, !.depth = 0]
EntersBridge(f) == Current(f).type = "bridge" /\ f.depth + 1 < SDBFS_DEPTH
AtBridge_absolute(f) ==  \* mutant: the records' address is taken as absolute
  LET d == f.depth
  IN [f EXCEPT !.this[d + 1] = Current(f).child,
               !.base[d + 1] = f.base[d] + Current(f).first]
AtBridge(f) ==
  LET d == f.depth
  IN [f EXCEPT !.this[d + 1] = f.base[d] + Current(f).child,
               !.base[d + 1] = f.base[d] + Current(f).first]

\* The next record of level d, or of the nearest one above that has any left.
ReadEntry(f, d) ==
  LET left == {e \in 0..d : f.nleft[e] # 0}
      e    == CHOOSE x \in left : \A y \in left : y <= x
  IN IF left = {}
       THEN [fs |-> [f EXCEPT !.depth = 0], dev |-> NoAddr]
       ELSE [fs |-> Located([f EXCEPT !.depth = e, !.currentp = f.this[e],
                                      !.this[e] = @ + 1, !.nleft[e] = @ - 1]),
             dev |-> f.this[e]]

sdbfs_scan(f, newscan) ==
  LET enters == newscan \/ EntersBridge(f)
      g      == IF newscan THEN Restarted(f)
                ELSE IF enters THEN AtBridge(f) ELSE f
      d      == IF newscan THEN 0 ELSE IF enters THEN f.depth + 1 ELSE f.depth
      h      == IF enters THEN scan_newdir(g, d) ELSE g
  IN CASE enters /\ IsDir(image, g.this[d]) ->
            [fs |-> Located(h), dev |-> g.this[d]]
       [] enters /\ ~IsDir(image, g.this[d]) /\ d = 0 ->
            [fs |-> h, dev |-> NoAddr]
       [] OTHER -> ReadEntry(h, IF enters THEN d - 1 ELSE d)

\* What the scan tells its caller of record dev: where it is, where its file is.
Entry(s) == <<s.dev, s.fs.f_offset>>

\* The state of a use of the library goes to step k.
Goes(k) == op' = [op EXCEPT !.step = k]

(***************************************************************************)
(* Opening a file.  The loop is one step for each record.                  *)
(***************************************************************************)
\* The name asked for is the start of the one in the record, up to a blank.
Matches(key, r) ==
  \/ key.by = "name" /\ Len(key.of) > 0 /\ IsPrefix(key.of, r.name)
  \/ key.by = "id" /\ key.of = r.id

__open_short(f) ==  \* mutant: the last byte is not counted
  [Located(f) EXCEPT !.f_len = Current(f).last - Current(f).first,
                     !.read_offset = 0]
__open_stale(f) ==  \* mutant: read_offset stays as it is
  [Located(f) EXCEPT !.f_len = Current(f).last + 1 - Current(f).first]
__open(f) ==
  [Located(f) EXCEPT !.f_len = Current(f).last + 1 - Current(f).first,
                     !.read_offset = 0]

Start(tool) ==
  /\ op.step = "idle" /\ runs < MaxRuns
  /\ runs' = runs + 1 /\ UNCHANGED <<image, access>>
  /\ tool \in Tools

\* sdbfs_open_name and sdbfs_open_id: the first record is skipped unseen.
sdbfs_open(tool, key) ==
  /\ Start(tool) /\ tool \in {"cat", "find"}
  /\ op' = [tool |-> tool, key |-> key, step |-> "open"]
  /\ LET s == sdbfs_scan(fs, TRUE)
     IN fs' = s.fs /\ listed' = IF s.dev = NoAddr THEN <<>> ELSE <<Entry(s)>>
  /\ read' = Unread

open_next_again ==  \* mutant: the end of the scan does not end the loop
  /\ op.step = "open"
  /\ LET s == sdbfs_scan(fs, FALSE)
         found == s.dev # NoAddr /\ Matches(op.key, At(image, s.dev))
     IN /\ fs' = IF found THEN __open(s.fs) ELSE s.fs
        /\ listed' = IF s.dev = NoAddr THEN listed ELSE Append(listed, Entry(s))
        /\ Goes(IF found THEN "opened" ELSE "open")
  /\ UNCHANGED <<image, access, read, runs>>
open_next ==
  /\ op.step = "open"
  /\ LET s == sdbfs_scan(fs, FALSE)
         found == s.dev # NoAddr /\ Matches(op.key, At(image, s.dev))
     IN /\ fs' = IF found THEN __open(s.fs) ELSE s.fs
        /\ listed' = IF s.dev = NoAddr THEN listed ELSE Append(listed, Entry(s))
        /\ CASE found -> Goes("opened")
             [] s.dev = NoAddr -> Goes("noent")
             [] OTHER -> Goes("open")
  /\ UNCHANGED <<image, access, read, runs>>

sdbfs_close ==
  /\ op.step \in {"opened", "eof"}
  /\ fs' = [fs EXCEPT !.currentp = NoAddr]
  /\ op' = Idle
  /\ UNCHANGED <<image, access, listed, read, runs>>

\* sdb-read ends when its file is not there; a driver goes on without it.
open_failed ==
  /\ op.step = "noent" /\ op' = Idle
  /\ UNCHANGED <<image, access, fs, listed, read, runs>>

(***************************************************************************)
(* Reading.  A negative offset means where the last read ended.  Mapped    *)
(* data is copied whole; the method may return less, or fail.              *)
(***************************************************************************)
Count(f, offset, count) ==
  IF offset + count > f.f_len THEN f.f_len - offset ELSE count

\* Only the data pointer is looked at.
UsesData == access = "mapped"

fread_data(offset, count) == IF UsesData THEN {count} ELSE -1..count

AfterRead(f, offset, ret) ==
  IF ret > 0 THEN [f EXCEPT !.read_offset = offset + ret] ELSE f

sdbfs_fread(asked) ==
  /\ op.tool = "cat" /\ op.step = "opened" /\ fs.currentp # NoAddr
  /\ asked <= fs.f_len
  /\ LET offset == IF asked < 0 THEN fs.read_offset ELSE asked
         at     == IF asked < 0 THEN read.next ELSE asked
     IN \E ret \in fread_data(offset, Count(fs, offset, Buf)) :
          /\ fs' = AfterRead(fs, offset, ret)
          /\ read' = [at |-> at, from |-> fs.f_offset + offset, count |-> ret,
                      next |-> IF ret > 0 THEN at + ret ELSE read.next]
          /\ Goes(IF asked < 0 /\ ret <= 0 THEN "eof" ELSE "opened")
  /\ UNCHANGED <<image, access, listed, runs>>

(***************************************************************************)
(* The tools that go through the whole image: sdb-read without a file      *)
(* lists it, sdb-extract writes each file out.                             *)
(***************************************************************************)
\* sdb-extract takes a file from where its record says, whatever the directory.
create_file(dev) ==
  LET r == At(image, dev)
  IN IF r.name # <<".">>
       THEN [Unread EXCEPT !.from = r.first, !.count = r.last + 1 - r.first]
       ELSE Unread

\* One turn of the loop over sdbfs_scan.
Turn(f, newscan) ==
  LET s == sdbfs_scan(f, newscan)
  IN /\ fs' = s.fs
     /\ listed' = IF s.dev = NoAddr THEN listed
                  ELSE Append(IF newscan THEN <<>> ELSE listed, Entry(s))
     /\ Goes(IF s.dev = NoAddr THEN "end" ELSE "scan")
     /\ read' = IF op.tool = "extract" /\ s.dev # NoAddr
                  THEN create_file(s.dev) ELSE Unread

scan_start(tool) ==
  /\ Start(tool) /\ tool \in {"list", "extract"}
  /\ tool = "extract" => runs = 0 /\ access = "mapped"  \* a program of its own
  /\ op' = [Idle EXCEPT !.tool = tool, !.step = "start"]
  /\ listed' = <<>> /\ read' = Unread /\ UNCHANGED fs

do_list == op.step = "start" /\ op.tool = "list" /\ Turn(fs, TRUE)

\* sdb-extract has given new no value when it first passes it: if it is 0 the
\* scan goes on from currentp, a null pointer.
extract_first ==
  /\ op.step = "start" /\ op.tool = "extract"
  /\ \E new \in BOOLEAN :
       \/ (new \/ fs.currentp # NoAddr) /\ Turn(fs, new)
       \/ /\ ~new /\ fs.currentp = NoAddr
          /\ Goes("crashed") /\ UNCHANGED <<fs, listed, read>>

scan_next == op.step = "scan" /\ Turn(fs, FALSE)

scan_turn ==
  /\ do_list \/ extract_first \/ scan_next
  /\ UNCHANGED <<image, access, runs>>

\* A user may also leave a scan half way.
scan_end ==
  /\ op.step \in {"scan", "end"} /\ op' = Idle
  /\ UNCHANGED <<image, access, fs, listed, read, runs>>

Next ==
  \/ \E tool \in Tools : scan_start(tool) \/ \E key \in Keys : sdbfs_open(tool, key)
  \/ open_next \/ open_failed \/ sdbfs_close
  \/ \E asked \in Offsets \cup {-1} : sdbfs_fread(asked)
  \/ scan_turn \/ scan_end

Spec     == Init /\ [][Next]_vars
\* A call of the library runs until it returns.
LiveSpec == Spec /\ WF_vars(open_next) /\ WF_vars(scan_turn)

(***************************************************************************)
(* The reference: the records of a directory, each followed by those of    *)
(* the directory it leads to, at their absolute addresses.                 *)
(***************************************************************************)
\* A part of a directory: its level, the address of the first record of the
\* part, what addresses in it are relative to, and how many records it has.
Part == Levels \X Nat \X Nat \X (0..MaxRecords)

\* The record at the start of part c leads to directory Under.
Leads(img, c) ==
  LET r == At(img, c[2])
  IN r.type = "bridge" /\ c[1] + 1 < SDBFS_DEPTH /\ IsDir(img, c[3] + r.child)
Under(img, c) ==
  LET at == c[3] + At(img, c[2]).child
  IN <<c[1] + 1, at, c[3] + At(img, c[2]).first, At(img, at).records>>

Listing(img) ==
  LET f[c \in Part] ==
        IF c[4] = 0 THEN <<>>
        ELSE <<<<c[2], c[3] + At(img, c[2]).first>>>>
               \o (IF Leads(img, c) THEN f[Under(img, c)] ELSE <<>>)
               \o f[<<c[1], c[2] + 1, c[3], c[4] - 1>>]
  IN f

Contents(img) ==
  IF IsDir(img, img.entry)
    THEN Listing(img)[<<0, img.entry, 0, At(img, img.entry).records>>]
    ELSE <<>>

\* The files an open may choose from, as places in Contents: the first is not.
Candidates(key) ==
  LET c == Contents(image)
  IN {i \in 2..Len(c) : LET r == At(image, c[i][1])
                        IN key.of = IF key.by = "name" THEN r.name ELSE r.id}

(***************************************************************************)
(* Properties.                                                             *)
(***************************************************************************)
\* Whatever was scanned, opened or left half way before, a scan returns the
\* records of the image in order, each bridge before what is under it, with
\* absolute addresses; and when it ends it has returned them all.
ScanInOrder ==
  /\ IsPrefix(listed, Contents(image))
  /\ op.step \in {"end", "noent"} => listed = Contents(image)

\* No name that is asked for is only the first words of the name of a record:
\* then what Matches looks at is all of it.
NamesWhole ==
  \A img \in Images, key \in Keys :
    key.by = "name" =>
      \A a \in DOMAIN img.rec :
        IsPrefix(key.of, img.rec[a].name) => key.of = img.rec[a].name

\* Opening finds the first file that has exactly the name or the identifier
\* asked for, its address and its length; it fails only if there is none.
OpenFindsFirst ==
  LET found == Candidates(op.key)
      c     == Contents(image)
  IN /\ op.step = "noent" => found = {}
     /\ op.step \in {"opened", "eof"} =>
          \E i \in found :
            /\ \A j \in found : i <= j
            /\ fs.currentp = c[i][1] /\ fs.f_offset = c[i][2]
            /\ fs.f_len = Current(fs).last + 1 - Current(fs).first

\* A read returns bytes of the open file and of no other, at the offset asked
\* for; sequential ones return each byte once and in order, however short the
\* reads of the storage are; and a reader of mapped storage that stops at the
\* end has got the whole file.
ReadFaithful ==
  /\ op.step \in {"opened", "eof"} /\ read.count > 0 =>
       \E i \in Candidates(op.key) :
         LET c == Contents(image)
         IN /\ fs.currentp = c[i][1] /\ read.from = c[i][2] + read.at
            /\ read.at + read.count <= Current(fs).last + 1 - Current(fs).first
            /\ fs.read_offset = read.next
  /\ op.step = "eof" /\ access = "mapped" => read.next = fs.f_len

\* A scan ends, also over directories that lead to one another.
CallReturns == op.step \in {"open", "scan", "start"} ~>
  op.step \in {"opened", "noent", "end", "idle", "crashed"}
===============================================================================
