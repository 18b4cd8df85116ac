---------------------------- MODULE EtherboneSlave ----------------------------
(***************************************************************************)
(* The slave character device of a Wishbone card (pcie-wb/wishbone.c) and  *)
(* the request queue and interrupt of the PCIe card behind it              *)
(* (pcie-wb/pcie_wb.c): the FPGA asks, user space reads the request as an  *)
(* Etherbone record and answers by writing one.                            *)
(*                                                                         *)
(* Threads of the process that opened the device read, write, poll and     *)
(* close; each call holds context->mutex, and pc says where its holder is. *)
(* The card and its interrupt handler run in between.                      *)
(***************************************************************************)
EXTENDS Integers, Sequences

CONSTANTS
  MaxCount,   \* largest wcount or rcount; 255 in the code
  Messages,   \* what the user may send after negotiation: sequences of words
  Greetings,  \* and before
  ReadLens,   \* lengths of one read call
  WriteLens,  \* lengths of one write call
  MSI,        \* the values of dev->msi to consider
  MaxPending  \* bound: requests of the card that are not answered yet

Word ==
  [tag : {"hdr"}, wca : BOOLEAN, wff : BOOLEAN, be : {15, 3},
   wcount : 0..MaxCount, rcount : 0..MaxCount]
    \cup [tag : {"base"}, addr : {"DATA", "ERR", "other"}]
    \cup [tag : {"val"}, v : Nat]
    \cup [tag : {"response", "noise"}]

\* What kmalloc leaves in a field that is not initialised.
Heap == [tag |-> "heap"]

Bool(p) == IF p THEN 1 ELSE 0

\* Length of a record; a plain zero word is a header without parts.
RecordLen(h) ==
  IF h.tag = "hdr"
  THEN 4 * (1 + h.wcount + h.rcount + Bool(h.wcount > 0) + Bool(h.rcount > 0))
  ELSE 4

\* The cuts of a message into whole records: sets of byte offsets that hold,
\* with the offset of a record, that of the next one.
Cuts(m) ==
  {S \in SUBSET {4 * k : k \in 0..Len(m)} :
     /\ 0 \in S /\ 4 * Len(m) \in S
     /\ \A b \in S \ {4 * Len(m)} : b + RecordLen(m[(b \div 4) + 1]) \in S}

\* What the user sends are whole records.
ASSUME SlaveAssumption ==
  /\ MaxCount \in Nat \ {0} /\ MaxPending \in Nat
  /\ \A m \in Messages \cup Greetings : m \in Seq(Word) /\ Cuts(m) # {}
  /\ ReadLens \cup WriteLens \subseteq Nat \ {0} /\ MSI \subseteq BOOLEAN

VARIABLES
  slave,        \* wishbone->slave is set: the device is open
  pending_err, negotiated, data,        \* of the slave context
  rbuf_done, rbuf_end,
  wbuf,         \* the wbuf_fill bytes received of the current record
  pc, caller,   \* the holder of context->mutex and its call
  iov_len,      \* bytes the call may still transfer
  rec, j,       \* record being executed; loop counter of the call
  msg, pos,     \* message the user is sending; bytes of it handed over
  poller, woken,\* a thread in poll, and whether it was woken up
  queue,        \* requests waiting in the card
  unanswered,   \* requests taken from the card and not replied to
  msi,          \* dev->msi: message signalled interrupts are in use
  int_en,       \* interrupt enable bit of the card
  raised,       \* a message signalled interrupt is on its way
  handler       \* irq_handler is running

context == <<slave, pending_err, negotiated, data>>
rbuf    == <<rbuf_done, rbuf_end>>
call    == <<pc, caller, iov_len>>
exec    == <<rec, j>>
user    == <<msg, pos>>
polling == <<poller, woken>>
card    == <<queue, unanswered>>
intr    == <<msi, int_en, raised, handler>>
vars    == <<context, rbuf, wbuf, call, exec, user, polling, card, intr>>

MinOf(a, b) == IF a <= b THEN a ELSE b

Lock(op, at, n) == pc' = at /\ caller' = op /\ iov_len' = n
Unlock          == pc' = "unlocked" /\ caller' = "none" /\ iov_len' = 0

Init ==
  /\ slave = FALSE /\ pending_err = 0 /\ negotiated = FALSE /\ data = Heap
  /\ rbuf_done = 0 /\ rbuf_end = 0 /\ wbuf = <<>>
  /\ pc = "unlocked" /\ caller = "none" /\ iov_len = 0
  /\ rec = <<>> /\ j = 0 /\ msg = <<>> /\ pos = 0
  /\ poller = "away" /\ woken = FALSE
  /\ queue = 0 /\ unanswered = 0
  /\ msi \in MSI /\ int_en = ~msi /\ raised = FALSE /\ handler = FALSE

(***************************************************************************)
(* The card (external).  It queues requests; an interrupt is a message in  *)
(* MSI mode, otherwise a level gated by int_en.                            *)
(***************************************************************************)
hw_request ==
  /\ queue + unanswered < MaxPending
  /\ queue' = queue + 1
  /\ raised' = msi
  /\ UNCHANGED <<context, rbuf, wbuf, call, exec, user, polling, unanswered,
                 msi, int_en, handler>>

pcie_int_enable(on) == int_en' = (on /\ ~msi)

\* Mutant: only a thread that already sleeps is woken up.
wishbone_slave_ready_asleep == woken' = (poller = "asleep")

wishbone_slave_ready == woken' = (poller # "away")

Interrupted == raised \/ (int_en /\ queue > 0)

\* The line is shared with other devices (IRQF_SHARED), so that without MSI
\* the handler may also run with no request waiting.
irq_handler ==
  /\ ~handler /\ (msi => raised)
  /\ pcie_int_enable(FALSE)
  /\ raised' = FALSE
  /\ handler' = TRUE
  /\ UNCHANGED <<context, rbuf, wbuf, call, exec, user, polling, card, msi>>

\* Mutant: the handler disables the interrupt and wakes nobody up.
irq_handler_wake_nobody ==
  /\ handler
  /\ handler' = FALSE
  /\ UNCHANGED <<context, rbuf, wbuf, call, exec, user, polling, card, msi,
                 int_en, raised>>

irq_handler_wake ==
  /\ handler
  /\ wishbone_slave_ready
  /\ handler' = FALSE
  /\ UNCHANGED <<context, rbuf, wbuf, call, exec, user, poller, card, msi,
                 int_en, raised>>

(***************************************************************************)
(* Opening and closing.  A second open finds slave set and gets EBUSY.     *)
(***************************************************************************)
\* kmalloc leaves data as it was; the probe of 8 bytes is ready to be read.
char_slave_open ==
  /\ ~slave /\ slave' = TRUE
  /\ pending_err' = 0 /\ negotiated' = FALSE /\ data' = Heap
  /\ rbuf_done' = 0 /\ rbuf_end' = 8 /\ wbuf' = <<>>
  /\ msg' = <<>> /\ pos' = 0
  /\ UNCHANGED <<call, exec, polling, card, intr>>

\* The last close: no other thread uses the file.
char_slave_release ==
  /\ slave /\ pc = "unlocked" /\ poller = "away"
  /\ Lock("release", "release", 0)
  /\ j' = pending_err
  /\ UNCHANGED <<context, rbuf, wbuf, rec, user, polling, card, intr>>

\* wb_reply: the card matches it with the oldest request it handed out.
reply == unanswered' = unanswered - 1

release_reply ==
  /\ pc = "release" /\ j > 0
  /\ reply
  /\ j' = j - 1
  /\ UNCHANGED <<context, rbuf, wbuf, call, rec, user, polling, queue, intr>>

release_done ==
  /\ pc = "release" /\ j = 0
  /\ slave' = FALSE
  /\ Unlock
  /\ UNCHANGED <<pending_err, negotiated, data, rbuf, wbuf, exec, user,
                 polling, card, intr>>

(***************************************************************************)
(* etherbone_slave_out_process, called by read and poll: if everything was *)
(* read and negotiation is over, turn the next request into a record.      *)
(***************************************************************************)
Drained == rbuf_done = rbuf_end

out_nothing ==
  /\ pc = "out" /\ (~Drained \/ ~negotiated)
  /\ pc' = "copy"
  /\ UNCHANGED <<context, rbuf, wbuf, caller, iov_len, exec, user, polling,
                 card, intr>>

\* wb_request reads the head of the queue and dequeues it, if there is one...
wb_request ==
  /\ pc = "out" /\ Drained /\ negotiated
  /\ IF queue > 0
     THEN queue' = queue - 1 /\ unanswered' = unanswered + 1 /\ pc' = "got"
     ELSE UNCHANGED card /\ pc' = "none"
  /\ UNCHANGED <<context, rbuf, wbuf, caller, iov_len, exec, user, polling,
                 intr>>

\* ... and then enables the interrupt again; the record takes six words.
wb_request_enable ==
  /\ pc \in {"got", "none"}
  /\ pcie_int_enable(TRUE)
  /\ IF pc = "got"
     THEN pending_err' = pending_err + 1 /\ rbuf_done' = 0 /\ rbuf_end' = 24
     ELSE UNCHANGED <<pending_err, rbuf>>
  /\ pc' = "copy"
  /\ UNCHANGED <<slave, negotiated, data, wbuf, caller, iov_len, exec, user,
                 polling, card, msi, raised, handler>>

char_slave_aio_read(n) ==
  /\ slave /\ pc = "unlocked"
  /\ Lock("read", "out", n)
  /\ UNCHANGED <<context, rbuf, wbuf, exec, user, polling, card, intr>>

read_copy ==
  /\ pc = "copy" /\ caller = "read"
  /\ rbuf_done' = rbuf_done + MinOf(rbuf_end - rbuf_done, iov_len)
  /\ Unlock
  /\ UNCHANGED <<context, rbuf_end, wbuf, exec, user, polling, card, intr>>

(***************************************************************************)
(* A thread that polls for POLLIN: it registers with the wait queue, calls *)
(* char_slave_poll, and sleeps unless there is something to read.          *)
(***************************************************************************)
poll_wait ==
  /\ slave /\ poller = "away" /\ caller # "release"
  /\ poller' = "registered" /\ woken' = FALSE
  /\ UNCHANGED <<context, rbuf, wbuf, call, exec, user, card, intr>>

char_slave_poll ==
  /\ poller = "registered" /\ pc = "unlocked"
  /\ Lock("poll", "out", 0)
  /\ UNCHANGED <<context, rbuf, wbuf, exec, user, polling, card, intr>>

poll_return ==
  /\ pc = "copy" /\ caller = "poll"
  /\ poller' = IF Drained THEN "asleep" ELSE "away"
  /\ Unlock
  /\ UNCHANGED <<context, rbuf, wbuf, exec, user, woken, card, intr>>

poll_wakeup ==
  /\ poller = "asleep" /\ woken
  /\ poller' = "registered" /\ woken' = FALSE
  /\ UNCHANGED <<context, rbuf, wbuf, call, exec, user, card, intr>>

poll_timeout ==
  /\ poller = "asleep"
  /\ poller' = "away" /\ woken' = FALSE
  /\ UNCHANGED <<context, rbuf, wbuf, call, exec, user, card, intr>>

(***************************************************************************)
(* Writing.  The loop of char_slave_aio_write collects a header, then the  *)
(* record it announces, and executes it.                                   *)
(***************************************************************************)
MsgLen == 4 * Len(msg)

\* Bytes from..to (counted from 0) of a message, as <<word, byte>>.
Bytes(m, from, to) ==
  [k \in 1..(to - from) |-> <<m[((from + k - 1) \div 4) + 1], (from + k - 1) % 4>>]

\* The words that a buffer of bytes holds.
WordsOf(b) ==
  [k \in 1..(Len(b) \div 4) |->
     IF \A n \in 0..3 : b[4 * k - 3 + n] = <<b[4 * k - 3][1], n>>
     THEN b[4 * k - 3][1] ELSE [tag |-> "noise"]]

\* The user decides what to send next.
user_message ==
  /\ slave /\ pc = "unlocked" /\ pos = MsgLen
  /\ msg' \in IF negotiated THEN Messages ELSE Greetings
  /\ pos' = 0
  /\ UNCHANGED <<context, rbuf, wbuf, call, exec, polling, card, intr>>

char_slave_aio_write(n) ==
  /\ slave /\ pc = "unlocked" /\ pos + n <= MsgLen
  /\ Lock("write", "write", n)
  /\ UNCHANGED <<context, rbuf, wbuf, exec, user, polling, card, intr>>

\* len more bytes of the user's buffer.
Fetched(len) == wbuf \o Bytes(msg, pos, pos + len)

Took(len) == pos' = pos + len /\ iov_len' = iov_len - len

\* Mutant: the bytes of the header that came before are forgotten.
write_header_whole ==
  /\ pc = "write" /\ iov_len > 0 /\ Len(wbuf) < 4
  /\ LET len == MinOf(4, iov_len)
     IN  wbuf' = Fetched(len) /\ Took(len)
  /\ UNCHANGED <<context, rbuf, pc, caller, exec, msg, polling, card, intr>>

write_header ==
  /\ pc = "write" /\ iov_len > 0 /\ Len(wbuf) < 4
  /\ LET len == MinOf(4 - Len(wbuf), iov_len)
     IN  wbuf' = Fetched(len) /\ Took(len)
  /\ UNCHANGED <<context, rbuf, pc, caller, exec, msg, polling, card, intr>>

Response == WordsOf(wbuf)[1].tag = "response"

write_negotiate ==
  /\ pc = "write" /\ iov_len > 0 /\ Len(wbuf) >= 4 /\ ~negotiated
  /\ IF Response
     THEN /\ wbuf' = <<>> /\ negotiated' = TRUE
          /\ wishbone_slave_ready
          /\ UNCHANGED pc
     ELSE /\ pc' = "fail"
          /\ UNCHANGED <<wbuf, negotiated, woken>>
  /\ UNCHANGED <<slave, pending_err, data, rbuf, caller, iov_len, exec, user,
                 poller, card, intr>>

\* Mutant: a part of a record overwrites the part before it.
write_part_over ==
  /\ pc = "write" /\ iov_len > 0 /\ Len(wbuf) >= 4 /\ negotiated
  /\ RecordLen(WordsOf(wbuf)[1]) - Len(wbuf) > iov_len
  /\ wbuf' = Bytes(msg, pos, pos + iov_len) /\ Took(iov_len)
  /\ UNCHANGED <<context, rbuf, pc, caller, exec, msg, polling, card, intr>>

write_part ==
  /\ pc = "write" /\ iov_len > 0 /\ Len(wbuf) >= 4 /\ negotiated
  /\ RecordLen(WordsOf(wbuf)[1]) - Len(wbuf) > iov_len
  /\ wbuf' = Fetched(iov_len) /\ Took(iov_len)
  /\ UNCHANGED <<context, rbuf, pc, caller, exec, msg, polling, card, intr>>

write_record ==
  /\ pc = "write" /\ iov_len > 0 /\ Len(wbuf) >= 4 /\ negotiated
  /\ LET len == RecordLen(WordsOf(wbuf)[1]) - Len(wbuf)
     IN  /\ len <= iov_len
         /\ rec' = WordsOf(Fetched(len)) /\ Took(len)
  /\ wbuf' = <<>>
  /\ j' = 0 /\ pc' = "in"
  /\ UNCHANGED <<context, rbuf, caller, msg, polling, card, intr>>

\* Every byte was taken: the call succeeds.
write_done ==
  /\ pc = "write" /\ iov_len = 0
  /\ Unlock
  /\ UNCHANGED <<context, rbuf, wbuf, exec, user, polling, card, intr>>

\* EIO: the rest of the buffer is dropped, and the user gives up the message.
write_fail ==
  /\ pc = "fail"
  /\ Unlock
  /\ pos' = MsgLen
  /\ UNCHANGED <<context, rbuf, wbuf, exec, msg, polling, card, intr>>

(***************************************************************************)
(* etherbone_slave_in_process: the record must write to the configuration  *)
(* space; writing WBA_ERR replies with the data written last to WBA_DATA.  *)
(***************************************************************************)
Executable(h) == h.tag = "hdr" /\ h.rcount = 0 /\ h.wcount > 0 /\ h.be = 15 /\ h.wca
NoParts(h)    == h.tag # "hdr" \/ (h.rcount = 0 /\ h.wcount = 0)

\* The call is over, and its locals with it.
Return(to) == pc' = to /\ rec' = <<>> /\ j' = 0

in_header ==
  /\ pc = "in" /\ j = 0
  /\ IF NoParts(rec[1]) THEN Return("write")
     ELSE IF Executable(rec[1]) THEN j' = 1 /\ UNCHANGED <<pc, rec>>
     ELSE Return("fail")
  /\ UNCHANGED <<context, rbuf, wbuf, caller, iov_len, user, polling,
                 card, intr>>

\* Address of the word j of the record.
Target ==
  LET base == IF rec[2].tag = "base" THEN rec[2].addr ELSE "other"
      step == IF rec[1].wff THEN 0 ELSE j - 1
  IN  CASE step = 0                   -> base
        [] step = 1 /\ base = "DATA"  -> "ERR"
        [] OTHER                      -> "other"

Advance ==
  IF j < rec[1].wcount THEN j' = j + 1 /\ UNCHANGED <<pc, rec>>
  ELSE Return("write")

in_data ==
  /\ pc = "in" /\ j > 0 /\ Target = "DATA"
  /\ data' = rec[2 + j]
  /\ Advance
  /\ UNCHANGED <<slave, pending_err, negotiated, rbuf, wbuf, caller, iov_len,
                 user, polling, card, intr>>

\* Mutant: a reply is still counted as owed.
in_reply_owed ==
  /\ pc = "in" /\ j > 0 /\ Target = "ERR" /\ pending_err > 0
  /\ reply
  /\ Advance
  /\ UNCHANGED <<context, rbuf, wbuf, caller, iov_len, user, polling, queue,
                 intr>>

in_reply ==
  /\ pc = "in" /\ j > 0 /\ Target = "ERR" /\ pending_err > 0
  /\ pending_err' = pending_err - 1
  /\ reply
  /\ Advance
  /\ UNCHANGED <<slave, negotiated, data, rbuf, wbuf, caller, iov_len,
                 user, polling, queue, intr>>

in_refuse ==
  /\ pc = "in" /\ j > 0
  /\ Target = "other" \/ (Target = "ERR" /\ pending_err = 0)
  /\ Return("fail")
  /\ UNCHANGED <<context, rbuf, wbuf, caller, iov_len, user, polling,
                 card, intr>>

(***************************************************************************)
(* The specification.                                                      *)
(***************************************************************************)
Interrupt == irq_handler \/ irq_handler_wake

\* What the thread that holds the mutex does next.
Holder ==
  \/ release_reply \/ release_done
  \/ out_nothing \/ wb_request \/ wb_request_enable
  \/ read_copy \/ poll_return
  \/ write_header \/ write_negotiate \/ write_part \/ write_record
  \/ write_done \/ write_fail
  \/ in_header \/ in_data \/ in_reply \/ in_refuse

Next ==
  \/ hw_request \/ Interrupt
  \/ char_slave_open \/ char_slave_release
  \/ \E n \in ReadLens : char_slave_aio_read(n)
  \/ \E n \in WriteLens : char_slave_aio_write(n)
  \/ user_message
  \/ poll_wait \/ char_slave_poll \/ poll_wakeup \/ poll_timeout
  \/ Holder

Spec == Init /\ [][Next]_vars

\* The kernel delivers interrupts, runs the holder of the mutex and resumes
\* a thread that was woken up; nothing is asked of the user.
Fairness ==
  /\ WF_vars(Interrupted /\ irq_handler)
  /\ WF_vars(irq_handler_wake)
  /\ WF_vars(Holder)
  /\ WF_vars(poll_wakeup)

FairSpec == Spec /\ Fairness

(***************************************************************************)
(* Properties.                                                             *)
(***************************************************************************)
\* Every request taken from the card is answered exactly once: it is owed as
\* long as the file is open and no reply was written, release pays what the
\* user left unanswered, and a closed device owes nothing.
AnsweredOnce ==
  unanswered = CASE ~slave         -> 0
                 [] pc = "release" -> j
                 [] pc = "got"     -> pending_err + 1
                 [] OTHER          -> pending_err

\* The buffers of the context are never overrun: 24 bytes of rbuf, and in wbuf
\* no more than the record announced by its first word (which is at most the
\* size of wbuf).
BuffersFit ==
  /\ rbuf_done <= rbuf_end /\ rbuf_end <= 24
  /\ Len(wbuf) >= 4 /\ negotiated =>
       Len(wbuf) < RecordLen(WordsOf(wbuf)[1]) \/ Len(wbuf) = 4
  /\ Len(wbuf) <= 4 * (2 * MaxCount + 3)
  /\ ~negotiated => Len(wbuf) <= 4

\* The offsets in each message at which a record starts, and its end: those
\* that no cut can do without.
Starts ==
  [m \in Messages \cup Greetings \cup {<<>>} |->
     {b \in {4 * k : k \in 0..Len(m)} : \A S \in Cuts(m) : b \in S}]

\* However messages are cut into writes, wbuf holds the beginning of the
\* record the user is in the middle of; a record that is complete stays
\* there only if it is a bare header, which has no effect.
Framed ==
  slave /\ negotiated /\ pc = "unlocked" =>
    \/ \E b \in Starts[msg] : b <= pos /\ wbuf = Bytes(msg, b, pos)
    \/ Len(wbuf) = 4 /\ NoParts(WordsOf(wbuf)[1]) /\ pos \in {0, MsgLen}

\* No lost wake-up: while a thread sleeps in poll and the card has a request,
\* an interrupt is due, or its handler runs and has still to wake the thread.
SleeperNotified ==
  poller = "asleep" /\ ~woken /\ negotiated /\ queue > 0 =>
    Interrupted \/ handler

\* A sleeping reader learns of every request, or another thread takes it.
SleeperWakes ==
  poller = "asleep" /\ negotiated /\ queue > 0 ~> poller # "asleep" \/ queue = 0
=============================================================================
