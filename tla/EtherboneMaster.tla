--------------------------- MODULE EtherboneMaster ---------------------------
(***************************************************************************)
(* One open file of the Wishbone master character device                   *)
(* (pcie-wb/wishbone.c): a ring buffer that user space fills with          *)
(* Etherbone records and from which it reads back the answers.  Records    *)
(* are executed on the bus and answered in place, in the same ring bytes.  *)
(*                                                                         *)
(* Cursors and lengths count bytes, exactly as in the code.  The content   *)
(* of a byte is abstract: <<w, b>> is byte b (0..3) of the word w.         *)
(*                                                                         *)
(* context->mutex is held from the start of a write to the end of the      *)
(* processing it triggers; pc says where its holder is.  Reads, polls and  *)
(* other writes of the same file wait for it.                              *)
(***************************************************************************)
EXTENDS EtherboneWords

CONSTANTS
  RING_SIZE,  \* bytes of the ring; 8192 in the code, a power of two
  Streams,    \* what a user may write: sequences of words
  Lookalikes, \* headers that a word not sent as one may be taken for
  IovLens,    \* lengths of one read or write call
  Faulty,     \* those of the streams in memory that may not be there
  FaultAt,    \* bytes after which copying one of these may fault
  MaxOpens    \* bound: how many times the device is opened

ASSUME RingAssumption ==
  /\ RING_SIZE \in Nat /\ RING_SIZE % 4 = 0 /\ MaxRecord <= RING_SIZE
  /\ \A s \in Streams : s \in Seq(Word)
  /\ Lookalikes \subseteq Header /\ Lookalikes # {}
  /\ IovLens \subseteq Nat \ {0}
  /\ Faulty \subseteq Streams /\ FaultAt \subseteq Nat
  /\ MaxOpens \in Nat

VARIABLES
  state,      \* "closed" (no open file) or context->state
  sent, processed, received,   \* the ring cursors, modulo 2 * RING_SIZE
  buf,        \* the ring bytes
  pc,         \* "unlocked", or where the holder of context->mutex is
  i, left, size,               \* locals of etherbone_master_process
  bus,        \* history: operations this file has issued on the bus
  stream, fed,                 \* what the user writes; bytes accepted so far
  taken, out, \* bytes read back so far; history: those bytes
  opens       \* how many opens so far

cursors == <<sent, processed, received>>
locals  == <<i, left, size>>
user    == <<stream, fed, taken, out, opens>>
vars    == <<state, cursors, buf, pc, locals, bus, user>>

(***************************************************************************)
(* Ring arithmetic.  The cursors run modulo twice the size of the ring, so *)
(* that a full ring differs from an empty one.                             *)
(***************************************************************************)
\* Mutants of the ring arithmetic: the cursors wrap too early; a write may
\* take the place of answers that were not read.
RING_POS_early(x)     == x % RING_SIZE
RING_WRITE_LEN_unread == (processed + RING_SIZE - received) % (2 * RING_SIZE)

RING_INDEX(x) == x % RING_SIZE
RING_POS(x)   == x % (2 * RING_SIZE)

RING_READ_LEN  == RING_POS(processed - sent)
RING_PROC_LEN  == RING_POS(received - processed)
RING_WRITE_LEN == RING_POS(sent + RING_SIZE - received)

MinOf(a, b) == IF a <= b THEN a ELSE b

\* The word stored at ring index x (a multiple of 4).
WordAt(x) ==
  IF \A b \in 0..3 : buf[x + b] = <<buf[x][1], b>> THEN buf[x][1] ELSE Garbled

\* The headers the four bytes of a word may be read as.
HeadersOf(w) ==
  CASE w[1] = "hdr" -> {w[2]}
    [] w = Zero     -> {ZeroHeader}
    [] OTHER        -> Lookalikes

Uninitialised == [x \in 0..RING_SIZE - 1 |-> <<Garbled, 0>>]

(***************************************************************************)
(* The operations of the character device.                                 *)
(***************************************************************************)
Init ==
  /\ state = "closed" /\ pc = "unlocked"
  /\ sent = 0 /\ processed = 0 /\ received = 0
  /\ buf = Uninitialised
  /\ i = 0 /\ left = 0 /\ size = 0
  /\ bus = <<>> /\ stream = <<>> /\ fed = 0
  /\ taken = 0 /\ out = <<>> /\ opens = 0

\* kmalloc does not clear the ring.
char_master_open ==
  /\ state = "closed" /\ opens < MaxOpens
  /\ opens' = opens + 1
  /\ state' = "header"
  /\ sent' = 0 /\ processed' = 0 /\ received' = 0
  /\ buf' = Uninitialised
  /\ \E s \in Streams : stream' = s
  /\ fed' = 0 /\ taken' = 0 /\ out' = <<>> /\ bus' = <<>>
  /\ UNCHANGED <<pc, locals>>

\* Mutant: close leaves the cycle line up.
char_master_release_cycle ==
  /\ state # "closed" /\ pc = "unlocked"
  /\ state' = "closed"
  /\ UNCHANGED <<cursors, buf, pc, locals, bus, user>>

\* The last close: no call on this file is running.
char_master_release ==
  /\ state # "closed" /\ pc = "unlocked"
  /\ bus' = IF state = "cycle" THEN Append(bus, <<"cycle", 0>>) ELSE bus
  /\ state' = "closed"
  /\ UNCHANGED <<cursors, buf, pc, locals, user>>

\* Reading copies answered bytes out, in two pieces if they wrap.
char_master_aio_read(iov_len) ==
  /\ state # "closed" /\ pc = "unlocked"
  /\ LET len == MinOf(RING_READ_LEN, iov_len)
     IN  /\ sent'  = RING_POS(sent + len)
         /\ taken' = taken + len
         /\ out'   = [k \in 1..taken + len |->
                        IF k <= taken THEN out[k]
                        ELSE buf[RING_INDEX(sent + (k - taken - 1))]]
  /\ UNCHANGED <<state, processed, received, buf, pc, locals, bus,
                 stream, fed, opens>>

\* How many of len bytes may really be copied.
Copies(len) ==
  {len} \cup (IF stream \in Faulty THEN FaultAt \cap 0..len ELSE {})

\* The ring after n of the user's bytes were copied to it.
Copied(n) ==
  [x \in 0..RING_SIZE - 1 |->
     LET k == RING_INDEX(x - received)
     IN  IF k < n THEN StreamByte(stream, fed + k) ELSE buf[x]]

\* Writing copies as much as fits, then processes.  The result of the copy
\* is not looked at: after a fault the ring keeps its old bytes, but the
\* cursor moves as if they had been copied.
char_master_aio_write(iov_len) ==
  /\ state # "closed" /\ pc = "unlocked"
  /\ fed + iov_len <= 4 * Len(stream)
  /\ LET len == MinOf(RING_WRITE_LEN, iov_len)
     IN  /\ \E n \in Copies(len) : buf' = Copied(n)
         /\ received' = RING_POS(received + len)
         /\ fed' = fed + len
  /\ pc' = "enter"
  /\ UNCHANGED <<state, sent, processed, locals, bus, stream, taken, out, opens>>

\* char_master_poll, which takes the mutex: what the file is ready for.
PollMask ==
  {m \in {"POLLIN", "POLLOUT"} : \/ m = "POLLIN"  /\ RING_READ_LEN # 0
                                 \/ m = "POLLOUT" /\ RING_WRITE_LEN # 0}

(***************************************************************************)
(* etherbone_master_process, called with context->mutex held: answer the   *)
(* probe once its 8 bytes are there, then one step per complete record.    *)
(***************************************************************************)
process_wait ==
  /\ pc = "enter" /\ state = "header" /\ received < 8
  /\ pc' = "unlocked"
  /\ UNCHANGED <<state, cursors, buf, locals, bus, user>>

\* Bytes 4-7, the probe identifier, are echoed.
process_probe ==
  /\ pc = "enter" /\ state = "header" /\ received >= 8
  /\ buf' = [x \in 0..RING_SIZE - 1 |->
               IF x < 4 THEN <<ProbeResp, x>> ELSE buf[x]]
  /\ processed' = 8
  /\ state' = "idle"
  /\ UNCHANGED <<sent, received, pc, locals, bus, user>>

process_start ==
  /\ pc = "enter" /\ state # "header"
  /\ i' = RING_INDEX(processed)
  /\ size' = RING_PROC_LEN
  /\ left' = RING_PROC_LEN
  /\ pc' = "process"
  /\ UNCHANGED <<state, cursors, buf, bus, user>>

Bool(p) == IF p THEN 1 ELSE 0

\* Mutant: both parts are counted with an address, even an empty one.
RecordLen_padded(h) == 4 * (3 + h.wcount + h.rcount)

RecordLen(h) ==
  4 * (1 + h.wcount + h.rcount + Bool(h.wcount > 0) + Bool(h.rcount > 0))

\* Ring index of word k of the record at i.
Slot(k) == RING_INDEX(i + 4 * k)

\* The word of the record that becomes the header of the answer.
AnswerSlot(h) == IF h.wcount > 0 THEN 1 + h.wcount ELSE 0

\* Mutant: the answer repeats the flags of the request.
AnswerHeader_flags(h) ==
  <<"hdr", [flags  |-> h.flags, be |-> h.be, wcount |-> h.rcount,
            rcount |-> 0]>>

AnswerHeader(h) ==
  <<"hdr", [flags  |-> (h.flags \cap {"CYC"})
                         \cup (IF "RFF" \in h.flags THEN {"WFF"} ELSE {})
                         \cup (IF "BCA" \in h.flags THEN {"WCA"} ELSE {}),
            be     |-> h.be, wcount |-> h.rcount, rcount |-> 0]>>

\* What the walk over the record at i leaves in the ring: the write part is
\* erased up to its last word, which becomes the header of the answer; the
\* return address stays; each address is replaced by what was read there.
AnsweredByte(h, x) ==
  LET k     == RING_INDEX(x - i) \div 4      \* the word of byte x
      a     == AnswerSlot(h)
      space == IF "RCA" \in h.flags THEN "cfg" ELSE "mem"
      word  == CASE k < a -> Zero
                 [] k = a -> AnswerHeader(h)
                 [] k > a -> Answer(space, WordAt(Slot(k)))
      kept  == k = a + 1 \/ k > a + 1 + h.rcount
  IN  IF kept THEN buf[x] ELSE <<word, x % 4>>

Answered(h) == [x \in 0..RING_SIZE - 1 |-> AnsweredByte(h, x)]

\* Mutant: the address is incremented for a FIFO as well.
WriteOps_fifo(h) ==
  IF "WCA" \in h.flags THEN <<>>
  ELSE [j \in 1..h.wcount |->
          <<"write", (ValueOf(WordAt(Slot(1))) + 4 * (j - 1)) % AddrSpace,
            WordAt(Slot(1 + j))>>]

WriteOps(h) ==
  LET base == ValueOf(WordAt(Slot(1)))
      inc  == IF "WFF" \in h.flags THEN 0 ELSE 4
  IN  IF "WCA" \in h.flags THEN <<>>
      ELSE [j \in 1..h.wcount |->
              <<"write", (base + inc * (j - 1)) % AddrSpace,
                WordAt(Slot(1 + j))>>]

ReadOps(h) ==
  [j \in 1..h.rcount |->
     <<IF "RCA" \in h.flags THEN "read_cfg" ELSE "read",
       WordAt(Slot(AnswerSlot(h) + 1 + j))>>]

RecordOps(h) ==
  (IF state = "idle" THEN <<<<"cycle", 1>>>> ELSE <<>>)
    \o <<<<"byteenable", h.be>>>>
    \o WriteOps(h)
    \o ReadOps(h)
    \o (IF "CYC" \in h.flags THEN <<<<"cycle", 0>>>> ELSE <<>>)

\* How far the walk moves i over the record.
Walked(h) ==
  4 * (AnswerSlot(h) + (IF h.rcount > 0 THEN 2 + h.rcount ELSE 1))

process_record ==
  /\ pc = "process" /\ left >= 4
  /\ \E h \in HeadersOf(WordAt(i)) :
       /\ left >= RecordLen(h)
       /\ buf'   = Answered(h)
       /\ bus'   = bus \o RecordOps(h)
       /\ i'     = RING_INDEX(i + Walked(h))
       /\ left'  = left - RecordLen(h)
       /\ state' = IF "CYC" \in h.flags THEN "idle" ELSE "cycle"
  /\ UNCHANGED <<cursors, pc, size, user>>

\* Mutant: what was processed is not handed to the reader.
process_done_lost ==
  /\ pc = "process"
  /\ left < 4 \/ \E h \in HeadersOf(WordAt(i)) : left < RecordLen(h)
  /\ pc' = "unlocked"
  /\ UNCHANGED <<state, cursors, buf, locals, bus, user>>

process_done ==
  /\ pc = "process"
  /\ left < 4 \/ \E h \in HeadersOf(WordAt(i)) : left < RecordLen(h)
  /\ processed' = RING_POS(processed + size - left)
  /\ pc' = "unlocked"
  /\ UNCHANGED <<state, sent, received, buf, locals, bus, user>>

Process ==
  \/ process_wait
  \/ process_probe
  \/ process_start
  \/ process_record
  \/ process_done

Next ==
  \/ char_master_open
  \/ char_master_release
  \/ \E n \in IovLens : char_master_aio_read(n)
  \/ \E n \in IovLens : char_master_aio_write(n)
  \/ Process

Spec == Init /\ [][Next]_vars

(***************************************************************************)
(* Fairness.  The process holding the mutex runs on; the mutex is fair, so *)
(* a user who keeps reading and keeps offering the rest of the stream gets *)
(* both calls through.  Nothing obliges the user to close the file.        *)
(***************************************************************************)
Fairness ==
  /\ WF_vars(Process)
  /\ SF_vars(\E n \in IovLens : char_master_aio_read(n))
  /\ SF_vars(\E n \in IovLens : char_master_aio_write(n))

FairSpec == Spec /\ Fairness

(***************************************************************************)
(* Properties.                                                             *)
(***************************************************************************)
Position == 0..2 * RING_SIZE - 1

\* The values of the variables of one open master file.
TypeOK ==
  /\ state \in {"closed", "header", "idle", "cycle"}
  /\ pc \in {"unlocked", "enter", "process"}
  /\ sent \in Position /\ processed \in Position /\ received \in Position
  /\ buf = [x \in 0..RING_SIZE - 1 |-> buf[x]]
  /\ i \in 0..RING_SIZE - 1 /\ left \in Nat /\ size \in Nat
  /\ fed \in Nat /\ taken \in Nat /\ opens \in 0..MaxOpens

Open == state # "closed"

\* sent <= processed <= received although the cursors wrap: the three ring
\* lengths always partition the ring into the bytes the user can read, the
\* bytes to process and the free bytes, and agree with what was really
\* written and read.
RingOrder ==
  Open => /\ taken + RING_READ_LEN + RING_PROC_LEN = fed
          /\ fed - taken <= RING_SIZE
          /\ RING_WRITE_LEN = RING_SIZE - (fed - taken)

\* The index that etherbone_master_process moves word by word over a record
\* stays at the end of the bytes it has accounted for in left, and at a word
\* boundary, so no word it reads or writes straddles the end of the ring.
WalkInStep ==
  /\ processed % 4 = 0
  /\ pc = "process" => /\ size = RING_PROC_LEN
                       /\ left \in 0..size
                       /\ i = RING_INDEX(processed + size - left)
                       /\ i % 4 = 0

\* A file that nobody is processing is always ready for something: the ring
\* never fills up with a record too long to complete, so poll never returns
\* an empty mask and a user never waits for ever.
NoWedge == Open /\ pc = "unlocked" => PollMask # {}

\* What was accepted and not yet processed is, byte for byte, the tail of
\* what the user wrote: no record execution and no reader disturbs it.
StreamIntact ==
  Open /\ stream \notin Faulty =>
    LET pos == IF pc = "process" THEN i ELSE processed
        len == IF pc = "process" THEN left ELSE RING_PROC_LEN
    IN  \A k \in 0..len - 1 :
          buf[RING_INDEX(pos + k)] = StreamByte(stream, fed - len + k)

\* Byte k (from 0) of all that was answered, read back already or not.
AnswerByte(k) ==
  IF k < taken THEN out[k + 1] ELSE buf[RING_INDEX(sent + (k - taken))]

\* However the stream was cut into writes and reads and wherever the ring
\* wrapped, all complete records, and nothing else, have been answered, with
\* the answer the stream calls for, if it could be copied.
ReplyFaithful ==
  Open /\ pc = "unlocked" /\ stream \notin Faulty =>
    LET reply == Reply(stream, fed \div 4)
    IN  /\ taken + RING_READ_LEN = 4 * Len(reply)
        /\ \A k \in 0..4 * Len(reply) - 1 :
             AnswerByte(k) = StreamByte(reply, k)

\* Likewise the operations on the bus are those of the complete records, each
\* executed once and in order.
BusFaithful ==
  Open /\ pc = "unlocked" /\ stream \notin Faulty =>
    bus = Meaning(stream, fed \div 4)

CycleUp(n) ==
  \E j \in 1..n : /\ bus[j] = <<"cycle", 1>>
                  /\ \A m \in j + 1..n : bus[m] # <<"cycle", 0>>

\* The cycle line, a lock on the whole bus, is raised only when it is down,
\* dropped only when it is up, up during every access, and down again
\* after close, whatever records the user sent.
CycleBalanced ==
  /\ \A n \in 1..Len(bus) :
       IF bus[n] = <<"cycle", 1>> THEN ~CycleUp(n - 1) ELSE CycleUp(n - 1)
  /\ CycleUp(Len(bus)) <=> state = "cycle"

\* Bytes accepted and not yet executed.
Pending == IF pc = "process" THEN left ELSE RING_PROC_LEN

\* The bytes on their way: those from sent on, in the order of the ring.
Tape == [p \in taken..fed - 1 |-> buf[RING_INDEX(sent + (p - taken))]]

\* The file is a pipe as long as its ring.
Pipe == INSTANCE EtherbonePipe WITH
          Size <- RING_SIZE, open <- state # "closed", stream <- stream,
          whole <- stream \notin Faulty,
          taken <- taken, done <- fed - Pending, fed <- fed, out <- out,
          tape <- Tape

\* Bytes are accepted, executed and read in order, each once, and nobody
\* touches those of another stage, although all of them share one ring.
ImplementsPipe == Pipe!Spec

\* Bytes the user may read keep their value until they are read: neither a
\* write that wraps around the ring nor a later record overwrites them.
AnswersStable ==
  [][Open /\ Open' =>
       \A k \in 0..RING_READ_LEN - 1 :
         buf'[RING_INDEX(sent + k)] = buf[RING_INDEX(sent + k)]]_vars

\* A user who keeps offering the stream and keeps reading gets the complete
\* answer, through a ring shorter than the stream.
Delivered ==
  Open /\ stream \notin Faulty ~>
    ~Open \/ taken = 4 * Len(Reply(stream, Len(stream)))
=============================================================================
