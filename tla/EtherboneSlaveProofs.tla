------------------------ MODULE EtherboneSlaveProofs ------------------------
(***************************************************************************)
(* Proofs about EtherboneSlave, for every set of messages, every way of    *)
(* cutting them into writes, and both kinds of interrupt.                  *)
(***************************************************************************)
EXTENDS EtherboneSlave, SequenceTheorems, TLAPS

Sent == Messages \cup Greetings \cup {<<>>}
Byte == Word \X (0..3)

TypeOK ==
  /\ slave \in BOOLEAN /\ negotiated \in BOOLEAN /\ pending_err \in Nat
  /\ rbuf_done \in Nat /\ rbuf_end \in Nat
  /\ wbuf \in Seq(Byte)
  /\ pc \in {"unlocked", "release", "out", "got", "none", "copy", "write",
             "fail", "in"}
  /\ caller \in {"none", "release", "read", "poll", "write"}
  /\ iov_len \in Nat /\ j \in Nat
  /\ msg \in Sent /\ pos \in Nat
  /\ poller \in {"away", "registered", "asleep"} /\ woken \in BOOLEAN
  /\ queue \in Nat /\ unanswered \in Int
  /\ msi \in BOOLEAN /\ int_en \in BOOLEAN /\ raised \in BOOLEAN
  /\ handler \in BOOLEAN

\* Which call holds the mutex where.
ControlOK ==
  /\ pc # "unlocked" \/ poller # "away" => slave
  /\ pc = "release" => caller = "release" /\ poller = "away"
  /\ caller = "poll" => /\ pc \in {"out", "got", "none", "copy"}
                        /\ poller = "registered"
  /\ pc \in {"got", "none"} => Drained /\ negotiated
  /\ pc = "in" => negotiated

\* The next request will interrupt.
Armed == IF msi THEN queue > 0 => raised ELSE int_en

\* What SleeperNotified rests on: a thread goes to sleep with the interrupt
\* armed, and whoever disarms it will wake the thread.
WakeUp ==
  /\ poller = "asleep" /\ ~woken /\ negotiated => Armed \/ handler
  /\ caller = "poll" /\ pc = "none" /\ ~woken /\ msi => Armed \/ handler
  /\ caller = "poll" /\ pc = "copy" /\ ~woken /\ Drained /\ negotiated =>
       Armed \/ handler

\* What Framed rests on: between two steps the bytes in wbuf are those since
\* the last start of a record, or a bare header that waits for the next call.
\* Before the negotiation is over it is the first word, or one that failed.
Leftover == Len(wbuf) = 4 /\ NoParts(WordsOf(wbuf)[1]) /\ pos \in {0, MsgLen}

Frame ==
  /\ pos <= MsgLen
  /\ pc \in {"write", "in"} => pos + iov_len <= MsgLen
  /\ pc = "in" => wbuf = <<>>
  /\ slave /\ negotiated /\ pc # "fail" =>
       \/ \E b \in Starts[msg] : b <= pos /\ wbuf = Bytes(msg, b, pos)
       \/ Leftover
  /\ slave /\ negotiated /\ pc = "fail" => wbuf = <<>>
  /\ slave /\ ~negotiated =>
       /\ \/ pos <= 4 /\ wbuf = Bytes(msg, 0, pos)
          \/ Len(wbuf) = 4 /\ (pos = 0 \/ ~Response)
       /\ pc = "fail" => Len(wbuf) = 4 /\ ~Response

IInv == TypeOK /\ ControlOK /\ AnsweredOnce /\ BuffersFit /\ WakeUp /\ Frame

(***************************************************************************)
(* Words and bytes.                                                        *)
(***************************************************************************)
\* The length of a record is a whole number of words, at most that of wbuf.
LEMMA RecordLens ==
  ASSUME NEW h \in Word \cup {[tag |-> "noise"]}
  PROVE  /\ RecordLen(h) \in 4..4 * (2 * MaxCount + 3)
         /\ RecordLen(h) = 4 => NoParts(h)
         /\ h.tag # "hdr" => RecordLen(h) = 4
<1>1. MaxCount \in Nat  BY SlaveAssumption
<1>2. CASE h.tag = "hdr"
  <2>1. h.wcount \in 0..MaxCount /\ h.rcount \in 0..MaxCount
    BY <1>2 DEF Word
  <2> DEFINE w == h.wcount
             r == h.rcount
  <2> HIDE DEF w, r
  <2>2. RecordLen(h) = 4 * (1 + w + r + Bool(w > 0) + Bool(r > 0))
    BY <1>2 DEF RecordLen, w, r
  <2>3. w \in Nat /\ r \in Nat /\ w <= MaxCount /\ r <= MaxCount
    BY <2>1, <1>1 DEF w, r
  <2>4. /\ RecordLen(h) \in 4..4 * (2 * MaxCount + 3)
        /\ RecordLen(h) = 4 => w = 0 /\ r = 0
    BY <2>2, <2>3, <1>1 DEF Bool
  <2> QED  BY <2>4, <1>2 DEF NoParts, w, r
<1>3. CASE h.tag # "hdr"
  BY <1>3, <1>1 DEF RecordLen, NoParts
<1> QED  BY <1>2, <1>3

\* A message that may be sent is a sequence of words, cut into records.
LEMMA MessagesAreWhole ==
  ASSUME NEW m \in Sent
  PROVE  m \in Seq(Word) /\ Len(m) \in Nat /\ Cuts(m) # {}
<1>1. CASE m \in Messages \cup Greetings  BY <1>1, SlaveAssumption
<1>2. CASE m = <<>>
  <2>1. Len(m) = 0 /\ m \in Seq(Word)  BY <1>2
  <2>2. {0} \in Cuts(m)  BY <2>1 DEF Cuts
  <2> QED  BY <2>1, <2>2
<1> QED  BY <1>1, <1>2 DEF Sent

\* Records start at the beginning, at the end, and where one ends.
LEMMA StartsAreCut ==
  ASSUME NEW m \in Sent
  PROVE  /\ 0 \in Starts[m] /\ 4 * Len(m) \in Starts[m]
         /\ \A b \in Starts[m] :
              /\ b \in Nat /\ b <= 4 * Len(m) /\ b % 4 = 0
              /\ b # 4 * Len(m) =>
                   /\ (b \div 4) + 1 \in 1..Len(m)
                   /\ b + RecordLen(m[(b \div 4) + 1]) \in Starts[m]
<1>1. m \in Seq(Word) /\ Len(m) \in Nat /\ Cuts(m) # {}  BY MessagesAreWhole
<1> DEFINE O == {4 * k : k \in 0..Len(m)}
<1>2. Starts[m] = {b \in O : \A S \in Cuts(m) : b \in S}
  BY DEF Starts, Sent
<1>3. 0 \in O /\ 4 * Len(m) \in O
  BY <1>1
<1>4. \A b \in O : b \in Nat /\ b <= 4 * Len(m) /\ b % 4 = 0
                   /\ (b # 4 * Len(m) => (b \div 4) + 1 \in 1..Len(m))
  BY <1>1
<1>5. \A S \in Cuts(m) : 0 \in S /\ 4 * Len(m) \in S
  BY DEF Cuts
<1>6. ASSUME NEW b \in Starts[m], b # 4 * Len(m)
      PROVE  b + RecordLen(m[(b \div 4) + 1]) \in Starts[m]
  <2> DEFINE y == b + RecordLen(m[(b \div 4) + 1])
  <2>1. \A S \in Cuts(m) : y \in S
    BY <1>2, <1>6 DEF Cuts
  <2>2. PICK S \in Cuts(m) : TRUE  BY <1>1
  <2>3. S \subseteq O  BY DEF Cuts
  <2>4. y \in O  BY <2>1, <2>3
  <2> QED  BY <1>2, <2>1, <2>4
<1> QED  BY <1>2, <1>3, <1>4, <1>5, <1>6

\* A function on 1..n is a sequence.
LEMMA FunctionIsSeq ==
  ASSUME NEW S, NEW n \in Nat, NEW f \in [1..n -> S]
  PROVE  f \in Seq(S) /\ Len(f) = n
OBVIOUS

\* What s \o t is.
LEMMA Concatenation ==
  ASSUME NEW S, NEW s \in Seq(S), NEW t \in Seq(S), NEW u \in Seq(S),
         Len(u) = Len(s) + Len(t),
         \A k \in 1..Len(s) : s[k] = u[k],
         \A k \in 1..Len(t) : t[k] = u[Len(s) + k]
  PROVE  s \o t = u
<1>1. Len(s) \in Nat /\ Len(t) \in Nat  OBVIOUS
<1>2. /\ s \o t \in Seq(S) /\ Len(s \o t) = Len(s) + Len(t)
      /\ \A k \in 1..Len(s) + Len(t) :
           (s \o t)[k] = IF k <= Len(s) THEN s[k] ELSE t[k - Len(s)]
  BY ConcatProperties
<1>3. ASSUME NEW k \in 1..Len(u) PROVE (s \o t)[k] = u[k]
  <2>1. CASE k <= Len(s)  BY <2>1, <1>1, <1>2
  <2>2. CASE k > Len(s)
    <3>1. k - Len(s) \in 1..Len(t)  BY <2>2, <1>1
    <3>2. t[k - Len(s)] = u[Len(s) + (k - Len(s))]  BY <3>1
    <3> QED  BY <2>2, <3>2, <1>1, <1>2
  <2> QED  BY <2>1, <2>2, <1>1
<1> QED  BY <1>2, <1>3, SeqEqual

LEMMA BytesType ==
  ASSUME NEW m \in Sent, NEW from \in Nat, NEW to \in Nat,
         from <= to, to <= 4 * Len(m)
  PROVE  /\ Bytes(m, from, to) \in Seq(Byte)
         /\ Len(Bytes(m, from, to)) = to - from
         /\ \A k \in 1..to - from : Bytes(m, from, to)[k] =
              <<m[((from + k - 1) \div 4) + 1], (from + k - 1) % 4>>
<1>1. m \in Seq(Word) /\ Len(m) \in Nat  BY MessagesAreWhole
<1>2. \A k \in 1..to - from : /\ ((from + k - 1) \div 4) + 1 \in 1..Len(m)
                              /\ (from + k - 1) % 4 \in 0..3
  BY <1>1
<1>3. Bytes(m, from, to) \in [1..to - from -> Byte]
  BY <1>1, <1>2 DEF Bytes, Byte
<1>4. to - from \in Nat  OBVIOUS
<1>5. \A k \in 1..to - from : Bytes(m, from, to)[k] =
         <<m[((from + k - 1) \div 4) + 1], (from + k - 1) % 4>>
  BY DEF Bytes
<1> QED  BY <1>3, <1>4, <1>5, FunctionIsSeq

\* Bytes that follow each other.
LEMMA BytesJoin ==
  ASSUME NEW m \in Sent, NEW a \in Nat, NEW b \in Nat, NEW c \in Nat,
         a <= b, b <= c, c <= 4 * Len(m)
  PROVE  Bytes(m, a, b) \o Bytes(m, b, c) = Bytes(m, a, c)
<1>1. Len(m) \in Nat  BY MessagesAreWhole
<1> DEFINE s == Bytes(m, a, b)
           t == Bytes(m, b, c)
           u == Bytes(m, a, c)
<1>2. /\ s \in Seq(Byte) /\ Len(s) = b - a
      /\ t \in Seq(Byte) /\ Len(t) = c - b
      /\ u \in Seq(Byte) /\ Len(u) = c - a
  <2>1. b <= 4 * Len(m) /\ a <= c  BY <1>1
  <2>2. s \in Seq(Byte) /\ Len(s) = b - a  BY <2>1, BytesType
  <2>3. t \in Seq(Byte) /\ Len(t) = c - b  BY BytesType
  <2>4. u \in Seq(Byte) /\ Len(u) = c - a  BY <2>1, BytesType
  <2> QED  BY <2>2, <2>3, <2>4
<1>3. \A k \in 1..Len(s) : s[k] = u[k]
  BY <1>1, <1>2 DEF Bytes
<1>4. \A k \in 1..Len(t) : t[k] = u[Len(s) + k]
  <2> SUFFICES ASSUME NEW k \in 1..c - b PROVE t[k] = u[(b - a) + k]
    BY <1>2
  <2>1. t[k] = <<m[((b + k - 1) \div 4) + 1], (b + k - 1) % 4>>
    BY DEF Bytes
  <2>2. (b - a) + k \in 1..c - a /\ a + ((b - a) + k) - 1 = b + k - 1
    BY <1>1
  <2>3. u[(b - a) + k] = <<m[((a + ((b - a) + k) - 1) \div 4) + 1],
                           (a + ((b - a) + k) - 1) % 4>>
    BY <2>2 DEF Bytes
  <2> QED  BY <2>1, <2>2, <2>3
<1> HIDE DEF s, t, u
<1>5. Len(u) = Len(s) + Len(t)  BY <1>2
<1>6. s \o t = u  BY <1>2, <1>3, <1>4, <1>5, Concatenation
<1> QED  BY <1>6 DEF s, t, u

\* The first word of a buffer.
LEMMA FirstWord ==
  ASSUME NEW b \in Seq(Byte), Len(b) >= 4
  PROVE  WordsOf(b)[1] \in Word \cup {[tag |-> "noise"]}
<1>1. 1 \in 1..(Len(b) \div 4)  OBVIOUS
<1>2. b[1] \in Byte  OBVIOUS
<1>3. b[1][1] \in Word  BY <1>2 DEF Byte
<1> QED  BY <1>1, <1>3 DEF WordsOf

\* It stays when bytes are appended.
LEMMA FirstWordStays ==
  ASSUME NEW b \in Seq(Byte), NEW c \in Seq(Byte), Len(b) >= 4
  PROVE  WordsOf(b \o c)[1] = WordsOf(b)[1]
<1>1. /\ b \o c \in Seq(Byte) /\ Len(b \o c) = Len(b) + Len(c)
      /\ \A k \in 1..Len(b) : (b \o c)[k] = b[k]
  BY ConcatProperties
<1>2. 1 \in 1..(Len(b) \div 4) /\ 1 \in 1..(Len(b \o c) \div 4)
  BY <1>1
<1>3. \A n \in 0..3 : /\ 4 * 1 - 3 + n \in 1..Len(b)
                      /\ (b \o c)[4 * 1 - 3 + n] = b[4 * 1 - 3 + n]
  BY <1>1
<1>4. (b \o c)[4 * 1 - 3] = b[4 * 1 - 3]  BY <1>1
<1> QED  BY <1>2, <1>3, <1>4 DEF WordsOf

\* The first word of the bytes of a message from the start of a word on.
LEMMA FirstWordSent ==
  ASSUME NEW m \in Sent, NEW a \in Nat, NEW c \in Nat,
         a % 4 = 0, a + 4 <= c, c <= 4 * Len(m)
  PROVE  WordsOf(Bytes(m, a, c))[1] = m[(a \div 4) + 1]
<1>1. Len(m) \in Nat /\ a <= c  BY MessagesAreWhole
<1> DEFINE s == Bytes(m, a, c)
<1>2. /\ s \in Seq(Byte) /\ Len(s) = c - a
      /\ \A k \in 1..c - a : s[k] =
           <<m[((a + k - 1) \div 4) + 1], (a + k - 1) % 4>>
  BY <1>1, BytesType
<1>3. \A n \in 0..3 : s[1 + n] = <<m[(a \div 4) + 1], n>>
  <2> SUFFICES ASSUME NEW n \in 0..3 PROVE s[1 + n] = <<m[(a \div 4) + 1], n>>
    OBVIOUS
  <2>1. /\ 1 + n \in 1..c - a /\ (a + (1 + n) - 1) \div 4 = a \div 4
        /\ (a + (1 + n) - 1) % 4 = n
    OBVIOUS
  <2> QED  BY <1>2, <2>1
<1>4. 1 \in 1..(Len(s) \div 4)  BY <1>2
<1> HIDE DEF s
<1>5. s[1] = <<m[(a \div 4) + 1], 0>>  BY <1>3
<1>6. s[1][1] = m[(a \div 4) + 1]  BY <1>5
<1>7. WordsOf(s)[1] = m[(a \div 4) + 1]
  <2>1. \A n \in 0..3 : s[4 * 1 - 3 + n] = <<s[4 * 1 - 3][1], n>>
    BY <1>3, <1>6
  <2> QED  BY <2>1, <1>4, <1>6 DEF WordsOf
<1> QED  BY <1>7 DEF s

(***************************************************************************)
(* Types and control.                                                      *)
(***************************************************************************)
LEMMA InitIInv == Init => IInv
<1> SUFFICES ASSUME Init PROVE IInv  OBVIOUS
<1>1. Len(<<>>) = 0  OBVIOUS
<1>2. TypeOK
  <2>1. msi \in BOOLEAN  BY SlaveAssumption DEF Init
  <2>2. /\ int_en \in BOOLEAN /\ slave \in BOOLEAN /\ negotiated \in BOOLEAN
        /\ woken \in BOOLEAN /\ raised \in BOOLEAN /\ handler \in BOOLEAN
    BY <2>1 DEF Init
  <2>3. wbuf \in Seq(Byte) /\ msg \in Sent  BY DEF Init, Sent
  <2> QED  BY <2>1, <2>2, <2>3 DEF Init, TypeOK
<1>3. ControlOK /\ AnsweredOnce
  BY DEF Init, ControlOK, AnsweredOnce
<1>4. BuffersFit
  <2>1. MaxCount \in Nat  BY SlaveAssumption
  <2> QED  BY <2>1 DEF Init, BuffersFit
<1>5. WakeUp  BY DEF Init, WakeUp
<1>6. Frame  BY DEF Init, Frame, MsgLen
<1> QED  BY <1>2, <1>3, <1>4, <1>5, <1>6 DEF IInv

\* What the bytes added to wbuf are.
LEMMA Fetching ==
  ASSUME IInv, pc = "write", NEW len \in Nat, len <= iov_len
  PROVE  /\ Fetched(len) \in Seq(Byte)
         /\ Len(Fetched(len)) = Len(wbuf) + len
         /\ pos + len \in Nat /\ pos + len <= MsgLen
         /\ Len(wbuf) >= 4 => WordsOf(Fetched(len))[1] = WordsOf(wbuf)[1]
<1>1. /\ pos \in Nat /\ iov_len \in Nat /\ msg \in Sent /\ wbuf \in Seq(Byte)
      /\ Len(msg) \in Nat
      /\ pos + iov_len <= 4 * Len(msg)
  BY MessagesAreWhole DEF IInv, TypeOK, Frame, MsgLen
<1>2. /\ Bytes(msg, pos, pos + len) \in Seq(Byte)
      /\ Len(Bytes(msg, pos, pos + len)) = len
  <2>1. pos + len \in Nat /\ pos <= pos + len /\ pos + len <= 4 * Len(msg)
    BY <1>1
  <2> DEFINE to == pos + len
  <2>2. to - pos = len  BY <1>1
  <2> HIDE DEF to
  <2>3. to \in Nat /\ pos <= to /\ to <= 4 * Len(msg)  BY <2>1 DEF to
  <2>4. Bytes(msg, pos, to) \in Seq(Byte) /\ Len(Bytes(msg, pos, to)) = to - pos
    BY <1>1, <2>3, BytesType
  <2> QED  BY <2>2, <2>4 DEF to
<1>3. Fetched(len) \in Seq(Byte) /\ Len(Fetched(len)) = Len(wbuf) + len
  BY <1>1, <1>2, ConcatProperties DEF Fetched
<1>4. Len(wbuf) >= 4 => WordsOf(Fetched(len))[1] = WordsOf(wbuf)[1]
  BY <1>1, <1>2, FirstWordStays DEF Fetched
<1> QED  BY <1>1, <1>3, <1>4 DEF MsgLen

\* How much write_record takes.
LEMMA RecordTakes ==
  ASSUME IInv, Len(wbuf) >= 4, negotiated
  PROVE  /\ RecordLen(WordsOf(wbuf)[1]) \in Nat
         /\ RecordLen(WordsOf(wbuf)[1]) <= 4 * (2 * MaxCount + 3)
         /\ Len(wbuf) \in Nat /\ Len(wbuf) <= RecordLen(WordsOf(wbuf)[1])
         /\ RecordLen(WordsOf(wbuf)[1]) = 4 => NoParts(WordsOf(wbuf)[1])
<1>1. WordsOf(wbuf)[1] \in Word \cup {[tag |-> "noise"]}
  BY FirstWord DEF IInv, TypeOK
<1>2. MaxCount \in Nat  BY SlaveAssumption
<1> DEFINE h == WordsOf(wbuf)[1]
<1> HIDE DEF h
<1>3. /\ RecordLen(h) \in 4..4 * (2 * MaxCount + 3)
      /\ RecordLen(h) = 4 => NoParts(h)
  BY <1>1, RecordLens DEF h
<1>4. Len(wbuf) \in Nat  BY DEF IInv, TypeOK
<1>5. Len(wbuf) < RecordLen(h) \/ Len(wbuf) = 4
  BY DEF IInv, BuffersFit, h
<1>6. RecordLen(h) \in Nat /\ RecordLen(h) <= 4 * (2 * MaxCount + 3)
      /\ RecordLen(h) >= 4
  BY <1>2, <1>3
<1>7. Len(wbuf) <= RecordLen(h)
  <2>1. CASE Len(wbuf) = 4  BY <2>1, <1>6
  <2>2. CASE Len(wbuf) < RecordLen(h)  BY <2>2, <1>4, <1>6
  <2> QED  BY <2>1, <2>2, <1>5
<1> QED  BY <1>3, <1>4, <1>6, <1>7 DEF h
\* Bytes of the message from one place on stay so.
LEMMA FetchingOn ==
  ASSUME IInv, pc = "write", NEW len \in Nat, len <= iov_len,
         NEW b \in Nat, b <= pos, wbuf = Bytes(msg, b, pos)
  PROVE  Fetched(len) = Bytes(msg, b, pos + len)
<1>1. /\ pos \in Nat /\ iov_len \in Nat /\ msg \in Sent /\ Len(msg) \in Nat
      /\ pos + iov_len <= 4 * Len(msg)
  BY MessagesAreWhole DEF IInv, TypeOK, Frame, MsgLen
<1> DEFINE to == pos + len
<1>2. to \in Nat /\ pos <= to /\ to <= 4 * Len(msg)  BY <1>1
<1> HIDE DEF to
<1>3. Bytes(msg, b, pos) \o Bytes(msg, pos, to) = Bytes(msg, b, to)
  BY <1>1, <1>2, BytesJoin
<1> QED  BY <1>3 DEF to, Fetched

LEMMA NoBytes ==
  ASSUME NEW m, NEW p \in Nat
  PROVE  Bytes(m, p, p) = <<>>
BY DEF Bytes

LEMMA HeldBytes ==
  ASSUME TypeOK, pos <= MsgLen, NEW b \in Nat, b <= pos,
         wbuf = Bytes(msg, b, pos)
  PROVE  Len(wbuf) = pos - b
<1>1. pos \in Nat /\ msg \in Sent /\ pos <= 4 * Len(msg)
  BY DEF TypeOK, MsgLen
<1> QED  BY <1>1, BytesType

LEMMA TypeStep ==
  ASSUME IInv, [Next]_vars
  PROVE  TypeOK'
<1> USE DEF TypeOK, context, rbuf, call, exec, user, polling, card, intr
<1>0. TypeOK /\ ControlOK /\ BuffersFit  BY DEF IInv
<1>1. CASE hw_request
  BY <1>0, <1>1 DEF hw_request, Lock, Unlock
<1>2. CASE irq_handler
  <2>1. int_en' = FALSE  BY <1>2 DEF irq_handler, pcie_int_enable
  <2> QED  BY <2>1, <1>0, <1>2 DEF irq_handler
<1>3. CASE irq_handler_wake
  <2>1. woken' \in BOOLEAN
    BY <1>3 DEF irq_handler_wake, wishbone_slave_ready
  <2>2. handler' \in BOOLEAN  BY <1>3 DEF irq_handler_wake
  <2> QED  BY <2>1, <2>2, <1>0, <1>3 DEF irq_handler_wake
<1>4. CASE char_slave_open
  <2>1. wbuf' \in Seq(Byte) /\ msg' \in Sent
    BY <1>4 DEF char_slave_open, Sent
  <2>2. slave' \in BOOLEAN /\ negotiated' \in BOOLEAN
    BY <1>4 DEF char_slave_open
  <2> QED  BY <2>1, <2>2, <1>0, <1>4 DEF char_slave_open
<1>5. CASE char_slave_release
  BY <1>0, <1>5 DEF char_slave_release, Lock, Unlock
<1>6. ASSUME NEW n \in ReadLens, char_slave_aio_read(n) PROVE TypeOK'
  <2>1. n \in Nat  BY <1>6, SlaveAssumption
  <2> QED  BY <2>1, <1>0, <1>6 DEF char_slave_aio_read, Lock
<1>7. ASSUME NEW n \in WriteLens, char_slave_aio_write(n) PROVE TypeOK'
  <2>1. n \in Nat  BY <1>7, SlaveAssumption
  <2> QED  BY <2>1, <1>0, <1>7 DEF char_slave_aio_write, Lock
<1>8. CASE user_message
  <2>1. msg' \in Sent  BY <1>8 DEF user_message, Sent
  <2> QED  BY <2>1, <1>0, <1>8 DEF user_message
<1>9. CASE poll_wait
  BY <1>0, <1>9 DEF poll_wait, Lock, Unlock
<1>10. CASE char_slave_poll
  BY <1>0, <1>10 DEF char_slave_poll, Lock, Unlock
<1>11. CASE poll_wakeup
  BY <1>0, <1>11 DEF poll_wakeup, Lock, Unlock
<1>12. CASE poll_timeout
  BY <1>0, <1>12 DEF poll_timeout, Lock, Unlock
<1>13. CASE release_reply
  BY <1>0, <1>13 DEF release_reply, reply
<1>14. CASE release_done
  BY <1>0, <1>14 DEF release_done, Lock, Unlock
<1>15. CASE out_nothing
  BY <1>0, <1>15 DEF out_nothing, Lock, Unlock
<1>16. CASE wb_request
  BY <1>0, <1>16 DEF wb_request, Lock, Unlock
<1>17. CASE wb_request_enable
  <2>1. int_en' \in BOOLEAN
    BY <1>0, <1>17 DEF wb_request_enable, pcie_int_enable
  <2> QED  BY <2>1, <1>0, <1>17 DEF wb_request_enable
<1>18. CASE read_copy
  <2>1. rbuf_end - rbuf_done \in Nat  BY <1>0 DEF BuffersFit
  <2>2. MinOf(rbuf_end - rbuf_done, iov_len) \in Nat
    BY <2>1, <1>0 DEF MinOf
  <2>3. rbuf_done' \in Nat  BY <2>2, <1>0, <1>18 DEF read_copy
  <2> QED  BY <2>3, <1>0, <1>18 DEF read_copy, Unlock
<1>19. CASE poll_return
  BY <1>0, <1>19 DEF poll_return, Lock, Unlock
<1>20. CASE write_header
  <2> DEFINE len == MinOf(4 - Len(wbuf), iov_len)
  <2>1. Len(wbuf) \in Nat /\ Len(wbuf) < 4 /\ pc = "write"
    BY <1>0, <1>20 DEF write_header
  <2>2. len \in Nat /\ len <= iov_len  BY <2>1, <1>0 DEF MinOf
  <2>3. wbuf' = Fetched(len) /\ pos' = pos + len /\ iov_len' = iov_len - len
    BY <1>20 DEF write_header, Took
  <2> HIDE DEF len
  <2>4. wbuf' \in Seq(Byte) /\ pos' \in Nat /\ iov_len' \in Nat
    BY <2>1, <2>2, <2>3, <1>0, Fetching
  <2> QED  BY <2>4, <1>0, <1>20 DEF write_header
<1>21. CASE write_negotiate
  <2>1. woken' \in BOOLEAN
    BY <1>0, <1>21 DEF write_negotiate, wishbone_slave_ready
  <2>2. negotiated' \in BOOLEAN
    <3>1. negotiated' = TRUE \/ negotiated' = negotiated
      BY <1>21 DEF write_negotiate
    <3> QED  BY <3>1, <1>0
  <2>3. wbuf' \in Seq(Byte)
    <3>1. wbuf' = <<>> \/ wbuf' = wbuf
      BY <1>21 DEF write_negotiate
    <3>2. <<>> \in Seq(Byte)  OBVIOUS
    <3> QED  BY <3>1, <3>2, <1>0, Zenon
  <2> QED  BY <2>1, <2>2, <2>3, <1>0, <1>21 DEF write_negotiate
<1>22. CASE write_part
  <2>1. pc = "write" /\ iov_len \in Nat  BY <1>0, <1>22 DEF write_part
  <2>2. wbuf' = Fetched(iov_len) /\ pos' = pos + iov_len
        /\ iov_len' = iov_len - iov_len
    BY <1>22 DEF write_part, Took
  <2>3. wbuf' \in Seq(Byte) /\ pos' \in Nat /\ iov_len' \in Nat
    BY <2>1, <2>2, Fetching
  <2> QED  BY <2>3, <1>0, <1>22 DEF write_part
<1>23. CASE write_record
  <2> DEFINE len == RecordLen(WordsOf(wbuf)[1]) - Len(wbuf)
  <2>1. pc = "write" /\ Len(wbuf) >= 4 /\ negotiated /\ len <= iov_len
    BY <1>23 DEF write_record
  <2>2. len \in Nat  BY <2>1, RecordTakes
  <2>3. pos' = pos + len /\ iov_len' = iov_len - len /\ wbuf' = <<>>
    BY <1>23 DEF write_record, Took
  <2> HIDE DEF len
  <2>4. wbuf' \in Seq(Byte) /\ pos' \in Nat /\ iov_len' \in Nat
    BY <2>1, <2>2, <2>3, <1>0
  <2> QED  BY <2>4, <1>0, <1>23 DEF write_record
<1>24. CASE write_done
  BY <1>0, <1>24 DEF write_done, Lock, Unlock
<1>25. CASE write_fail
  <2>1. MsgLen \in Nat  BY <1>0, MessagesAreWhole DEF MsgLen
  <2> QED  BY <2>1, <1>0, <1>25 DEF write_fail, Unlock
<1>26. CASE in_header
  BY <1>0, <1>26 DEF in_header, Return
<1>27. CASE in_data
  BY <1>0, <1>27 DEF in_data, Advance, Return
<1>28. CASE in_reply
  BY <1>0, <1>28 DEF in_reply, Advance, Return, reply
<1>29. CASE in_refuse
  BY <1>0, <1>29 DEF in_refuse, Return
<1>30. CASE UNCHANGED vars
  BY <1>0, <1>30 DEF vars
<1> QED  BY <1>1, <1>2, <1>3, <1>4, <1>5, <1>6, <1>7, <1>8, <1>9, <1>10,
            <1>11, <1>12, <1>13, <1>14, <1>15, <1>16, <1>17, <1>18, <1>19,
            <1>20, <1>21, <1>22, <1>23, <1>24, <1>25, <1>26, <1>27, <1>28,
            <1>29, <1>30
         DEF Next, Holder, Interrupt

LEMMA ControlStep ==
  ASSUME IInv, [Next]_vars
  PROVE  ControlOK'
<1> USE DEF ControlOK, context, rbuf, call, exec, user, polling, card, intr
<1>0. TypeOK /\ ControlOK /\ BuffersFit  BY DEF IInv
<1>1. CASE hw_request
  BY <1>0, <1>1 DEF hw_request, TypeOK, Lock, Unlock, Drained
<1>2. CASE irq_handler
  BY <1>0, <1>2 DEF irq_handler, TypeOK, Lock, Unlock, Drained
<1>3. CASE irq_handler_wake
  BY <1>0, <1>3 DEF irq_handler_wake, TypeOK, Lock, Unlock, Drained
<1>4. CASE char_slave_open
  BY <1>0, <1>4 DEF char_slave_open, TypeOK, Lock, Unlock, Drained
<1>5. CASE char_slave_release
  BY <1>0, <1>5 DEF char_slave_release, TypeOK, Lock, Unlock, Drained
<1>6. ASSUME NEW n \in ReadLens, char_slave_aio_read(n) PROVE ControlOK'
  BY <1>0, <1>6 DEF char_slave_aio_read, TypeOK, Lock, Unlock, Drained
<1>7. ASSUME NEW n \in WriteLens, char_slave_aio_write(n) PROVE ControlOK'
  BY <1>0, <1>7 DEF char_slave_aio_write, TypeOK, Lock, Unlock, Drained
<1>8. CASE user_message
  BY <1>0, <1>8 DEF user_message, TypeOK, Lock, Unlock, Drained
<1>9. CASE poll_wait
  BY <1>0, <1>9 DEF poll_wait, TypeOK, Lock, Unlock, Drained
<1>10. CASE char_slave_poll
  BY <1>0, <1>10 DEF char_slave_poll, TypeOK, Lock, Unlock, Drained
<1>11. CASE poll_wakeup
  BY <1>0, <1>11 DEF poll_wakeup, TypeOK, Lock, Unlock, Drained
<1>12. CASE poll_timeout
  BY <1>0, <1>12 DEF poll_timeout, TypeOK, Lock, Unlock, Drained
<1>13. CASE release_reply
  BY <1>0, <1>13 DEF release_reply, TypeOK, Lock, Unlock, Drained
<1>14. CASE release_done
  BY <1>0, <1>14 DEF release_done, TypeOK, Lock, Unlock, Drained
<1>15. CASE out_nothing
  BY <1>0, <1>15 DEF out_nothing, TypeOK, Lock, Unlock, Drained
<1>16. CASE wb_request
  BY <1>0, <1>16 DEF wb_request, TypeOK, Lock, Unlock, Drained
<1>17. CASE wb_request_enable
  BY <1>0, <1>17 DEF wb_request_enable, TypeOK, Lock, Unlock, Drained
<1>18. CASE read_copy
  BY <1>0, <1>18 DEF read_copy, TypeOK, Lock, Unlock, Drained
<1>19. CASE poll_return
  BY <1>0, <1>19 DEF poll_return, TypeOK, Lock, Unlock, Drained
<1>20. CASE write_header
  BY <1>0, <1>20 DEF write_header, TypeOK, Lock, Unlock, Drained
<1>21. CASE write_negotiate
  BY <1>0, <1>21 DEF write_negotiate, TypeOK, Lock, Unlock, Drained
<1>22. CASE write_part
  BY <1>0, <1>22 DEF write_part, TypeOK, Lock, Unlock, Drained
<1>23. CASE write_record
  BY <1>0, <1>23 DEF write_record, TypeOK, Lock, Unlock, Drained
<1>24. CASE write_done
  BY <1>0, <1>24 DEF write_done, TypeOK, Lock, Unlock, Drained
<1>25. CASE write_fail
  BY <1>0, <1>25 DEF write_fail, TypeOK, Lock, Unlock, Drained
<1>26. CASE in_header
  BY <1>0, <1>26 DEF in_header, Return, Drained
<1>27. CASE in_data
  BY <1>0, <1>27 DEF in_data, Advance, Return, Drained
<1>28. CASE in_reply
  BY <1>0, <1>28 DEF in_reply, Advance, Return, Drained
<1>29. CASE in_refuse
  BY <1>0, <1>29 DEF in_refuse, Return, Drained
<1>30. CASE UNCHANGED vars
  BY <1>0, <1>30 DEF vars, Drained
<1> QED  BY <1>1, <1>2, <1>3, <1>4, <1>5, <1>6, <1>7, <1>8, <1>9, <1>10,
            <1>11, <1>12, <1>13, <1>14, <1>15, <1>16, <1>17, <1>18, <1>19,
            <1>20, <1>21, <1>22, <1>23, <1>24, <1>25, <1>26, <1>27, <1>28,
            <1>29, <1>30
         DEF Next, Holder, Interrupt

LEMMA AnsweredStep ==
  ASSUME IInv, [Next]_vars
  PROVE  AnsweredOnce'
<1> USE DEF AnsweredOnce, context, rbuf, call, exec, user, polling, card, intr
<1>0. TypeOK /\ ControlOK /\ AnsweredOnce  BY DEF IInv
<1>1. CASE hw_request
  BY <1>0, <1>1 DEF hw_request, TypeOK, ControlOK, Lock, Unlock
<1>2. CASE irq_handler
  BY <1>0, <1>2 DEF irq_handler, TypeOK, ControlOK, Lock, Unlock
<1>3. CASE irq_handler_wake
  BY <1>0, <1>3 DEF irq_handler_wake, TypeOK, ControlOK, Lock, Unlock
<1>4. CASE char_slave_open
  BY <1>0, <1>4 DEF char_slave_open, TypeOK, ControlOK, Lock, Unlock
<1>5. CASE char_slave_release
  BY <1>0, <1>5 DEF char_slave_release, TypeOK, ControlOK, Lock, Unlock
<1>6. ASSUME NEW n \in ReadLens, char_slave_aio_read(n) PROVE AnsweredOnce'
  BY <1>0, <1>6 DEF char_slave_aio_read, TypeOK, ControlOK, Lock, Unlock
<1>7. ASSUME NEW n \in WriteLens, char_slave_aio_write(n) PROVE AnsweredOnce'
  BY <1>0, <1>7 DEF char_slave_aio_write, TypeOK, ControlOK, Lock, Unlock
<1>8. CASE user_message
  BY <1>0, <1>8 DEF user_message, TypeOK, ControlOK, Lock, Unlock
<1>9. CASE poll_wait
  BY <1>0, <1>9 DEF poll_wait, TypeOK, ControlOK, Lock, Unlock
<1>10. CASE char_slave_poll
  BY <1>0, <1>10 DEF char_slave_poll, TypeOK, ControlOK, Lock, Unlock
<1>11. CASE poll_wakeup
  BY <1>0, <1>11 DEF poll_wakeup, TypeOK, ControlOK, Lock, Unlock
<1>12. CASE poll_timeout
  BY <1>0, <1>12 DEF poll_timeout, TypeOK, ControlOK, Lock, Unlock
<1>13. CASE release_reply
  BY <1>0, <1>13 DEF release_reply, reply, TypeOK
<1>14. CASE release_done
  BY <1>0, <1>14 DEF release_done, TypeOK, ControlOK, Lock, Unlock
<1>15. CASE out_nothing
  BY <1>0, <1>15 DEF out_nothing, TypeOK, ControlOK, Lock, Unlock
<1>16. CASE wb_request
  BY <1>0, <1>16 DEF wb_request, TypeOK, ControlOK, Lock, Unlock
<1>17. CASE wb_request_enable
  BY <1>0, <1>17 DEF wb_request_enable, TypeOK, ControlOK, Lock, Unlock
<1>18. CASE read_copy
  BY <1>0, <1>18 DEF read_copy, TypeOK, ControlOK, Lock, Unlock
<1>19. CASE poll_return
  BY <1>0, <1>19 DEF poll_return, TypeOK, ControlOK, Lock, Unlock
<1>20. CASE write_header
  BY <1>0, <1>20 DEF write_header, TypeOK, ControlOK, Lock, Unlock
<1>21. CASE write_negotiate
  BY <1>0, <1>21 DEF write_negotiate, TypeOK, ControlOK, Lock, Unlock
<1>22. CASE write_part
  BY <1>0, <1>22 DEF write_part, TypeOK, ControlOK, Lock, Unlock
<1>23. CASE write_record
  BY <1>0, <1>23 DEF write_record, TypeOK, ControlOK, Lock, Unlock
<1>24. CASE write_done
  BY <1>0, <1>24 DEF write_done, TypeOK, ControlOK, Lock, Unlock
<1>25. CASE write_fail
  BY <1>0, <1>25 DEF write_fail, TypeOK, ControlOK, Lock, Unlock
<1>26. CASE in_header
  BY <1>0, <1>26 DEF in_header, Return, TypeOK
<1>27. CASE in_data
  BY <1>0, <1>27 DEF in_data, Advance, Return
<1>28. CASE in_reply
  BY <1>0, <1>28 DEF in_reply, Advance, Return, reply, TypeOK, ControlOK
<1>29. CASE in_refuse
  BY <1>0, <1>29 DEF in_refuse, Return
<1>30. CASE UNCHANGED vars
  BY <1>0, <1>30 DEF vars
<1> QED  BY <1>1, <1>2, <1>3, <1>4, <1>5, <1>6, <1>7, <1>8, <1>9, <1>10,
            <1>11, <1>12, <1>13, <1>14, <1>15, <1>16, <1>17, <1>18, <1>19,
            <1>20, <1>21, <1>22, <1>23, <1>24, <1>25, <1>26, <1>27, <1>28,
            <1>29, <1>30
         DEF Next, Holder, Interrupt

LEMMA BuffersStep ==
  ASSUME IInv, [Next]_vars
  PROVE  BuffersFit'
<1> USE DEF BuffersFit, context, rbuf, call, exec, user, polling, card, intr
<1>0. TypeOK /\ BuffersFit /\ MaxCount \in Nat  BY SlaveAssumption DEF IInv
<1>1. CASE hw_request
  BY <1>0, <1>1 DEF hw_request, Lock, Unlock
<1>2. CASE irq_handler
  BY <1>0, <1>2 DEF irq_handler, Lock, Unlock
<1>3. CASE irq_handler_wake
  BY <1>0, <1>3 DEF irq_handler_wake, Lock, Unlock
<1>4. CASE char_slave_open
  <2>1. rbuf_done' = 0 /\ rbuf_end' = 8 /\ wbuf' = <<>>
    BY <1>4 DEF char_slave_open
  <2>2. Len(<<>>) = 0  OBVIOUS
  <2> QED  BY <2>1, <2>2, <1>0
<1>5. CASE char_slave_release
  BY <1>0, <1>5 DEF char_slave_release, Lock, Unlock
<1>6. ASSUME NEW n \in ReadLens, char_slave_aio_read(n) PROVE BuffersFit'
  BY <1>0, <1>6 DEF char_slave_aio_read, Lock, Unlock
<1>7. ASSUME NEW n \in WriteLens, char_slave_aio_write(n) PROVE BuffersFit'
  BY <1>0, <1>7 DEF char_slave_aio_write, Lock, Unlock
<1>8. CASE user_message
  BY <1>0, <1>8 DEF user_message, Lock, Unlock
<1>9. CASE poll_wait
  BY <1>0, <1>9 DEF poll_wait, Lock, Unlock
<1>10. CASE char_slave_poll
  BY <1>0, <1>10 DEF char_slave_poll, Lock, Unlock
<1>11. CASE poll_wakeup
  BY <1>0, <1>11 DEF poll_wakeup, Lock, Unlock
<1>12. CASE poll_timeout
  BY <1>0, <1>12 DEF poll_timeout, Lock, Unlock
<1>13. CASE release_reply
  BY <1>0, <1>13 DEF release_reply
<1>14. CASE release_done
  BY <1>0, <1>14 DEF release_done
<1>15. CASE out_nothing
  BY <1>0, <1>15 DEF out_nothing, Lock, Unlock
<1>16. CASE wb_request
  BY <1>0, <1>16 DEF wb_request, Lock, Unlock
<1>17. CASE wb_request_enable
  BY <1>0, <1>17 DEF wb_request_enable, Lock, Unlock
<1>18. CASE read_copy
  <2>1. MinOf(rbuf_end - rbuf_done, iov_len) <= rbuf_end - rbuf_done
    BY <1>0 DEF MinOf, TypeOK
  <2>2. MinOf(rbuf_end - rbuf_done, iov_len) \in Nat
    BY <1>0 DEF MinOf, TypeOK
  <2>3. rbuf_done' <= rbuf_end' /\ rbuf_end' <= 24
    BY <2>1, <2>2, <1>0, <1>18 DEF read_copy, TypeOK
  <2> QED  BY <2>3, <1>0, <1>18 DEF read_copy
<1>19. CASE poll_return
  BY <1>0, <1>19 DEF poll_return, Lock, Unlock
<1>20. CASE write_header
  <2> DEFINE len == MinOf(4 - Len(wbuf), iov_len)
  <2>1. Len(wbuf) \in Nat /\ Len(wbuf) < 4 /\ pc = "write"
    BY <1>0, <1>20 DEF write_header, TypeOK
  <2>2. len \in Nat /\ len <= iov_len /\ Len(wbuf) + len <= 4
    BY <2>1, <1>0 DEF MinOf, TypeOK
  <2>3. wbuf' = Fetched(len)  BY <1>20 DEF write_header
  <2> HIDE DEF len
  <2>4. Len(wbuf') \in Nat /\ Len(wbuf') <= 4
    BY <2>1, <2>2, <2>3, Fetching
  <2>5. /\ Len(wbuf') >= 4 => Len(wbuf') = 4
        /\ Len(wbuf') <= 4 * (2 * MaxCount + 3)
    <3> DEFINE x == Len(wbuf')
               y == 4 * (2 * MaxCount + 3)
    <3>1. y \in Nat /\ 4 <= y  BY <1>0
    <3>2. x \in Nat /\ x <= 4  BY <2>4
    <3> HIDE DEF x, y
    <3>3. (x >= 4 => x = 4) /\ x <= y  BY <3>1, <3>2
    <3> QED  BY <3>3 DEF x, y
  <2>6. rbuf_done' <= rbuf_end' /\ rbuf_end' <= 24
    BY <1>0, <1>20 DEF write_header
  <2> QED  BY <2>4, <2>5, <2>6
<1>21. CASE write_negotiate
  <2>1. CASE wbuf' = <<>>
    <3>1. Len(wbuf') = 0  BY <2>1
    <3> QED  BY <3>1, <1>0, <1>21 DEF write_negotiate
  <2>2. CASE wbuf' = wbuf /\ negotiated' = negotiated
    BY <2>2, <1>0, <1>21 DEF write_negotiate
  <2> QED  BY <2>1, <2>2, <1>21 DEF write_negotiate
<1>22. CASE write_part
  <2> DEFINE n == RecordLen(WordsOf(wbuf)[1])
  <2>1. /\ pc = "write" /\ iov_len \in Nat /\ Len(wbuf) >= 4 /\ negotiated
        /\ n - Len(wbuf) > iov_len /\ wbuf' = Fetched(iov_len)
        /\ negotiated' /\ rbuf_done' = rbuf_done /\ rbuf_end' = rbuf_end
    BY <1>0, <1>22 DEF write_part, TypeOK
  <2>2. n \in Nat /\ n <= 4 * (2 * MaxCount + 3) /\ Len(wbuf) \in Nat
    BY <2>1, RecordTakes
  <2>3. /\ Len(wbuf') = Len(wbuf) + iov_len
        /\ RecordLen(WordsOf(wbuf')[1]) = n
    BY <2>1, Fetching
  <2> HIDE DEF n
  <2>4. Len(wbuf') < n /\ Len(wbuf') <= 4 * (2 * MaxCount + 3)
    BY <2>1, <2>2, <2>3, <1>0
  <2> QED  BY <2>1, <2>3, <2>4, <1>0
<1>23. CASE write_record
  <2>1. wbuf' = <<>>  BY <1>23 DEF write_record
  <2>2. Len(wbuf') = 0  BY <2>1
  <2> QED  BY <2>2, <1>0, <1>23 DEF write_record
<1>24. CASE write_done
  BY <1>0, <1>24 DEF write_done, Lock, Unlock
<1>25. CASE write_fail
  BY <1>0, <1>25 DEF write_fail, Lock, Unlock
<1>26. CASE in_header
  BY <1>0, <1>26 DEF in_header
<1>27. CASE in_data
  BY <1>0, <1>27 DEF in_data
<1>28. CASE in_reply
  BY <1>0, <1>28 DEF in_reply
<1>29. CASE in_refuse
  BY <1>0, <1>29 DEF in_refuse
<1>30. CASE UNCHANGED vars
  BY <1>0, <1>30 DEF vars
<1> QED  BY <1>1, <1>2, <1>3, <1>4, <1>5, <1>6, <1>7, <1>8, <1>9, <1>10,
            <1>11, <1>12, <1>13, <1>14, <1>15, <1>16, <1>17, <1>18, <1>19,
            <1>20, <1>21, <1>22, <1>23, <1>24, <1>25, <1>26, <1>27, <1>28,
            <1>29, <1>30
         DEF Next, Holder, Interrupt

LEMMA WakeStep ==
  ASSUME IInv, [Next]_vars
  PROVE  WakeUp'
<1> USE DEF WakeUp, Armed, Drained, context, rbuf, call, exec, user, polling,
            card, intr
<1>0. TypeOK /\ ControlOK /\ WakeUp  BY DEF IInv
<1>1. CASE hw_request
  BY <1>0, <1>1 DEF hw_request, TypeOK, ControlOK, Lock, Unlock
<1>2. CASE irq_handler
  BY <1>0, <1>2 DEF irq_handler, pcie_int_enable
<1>3. CASE irq_handler_wake
  <2>1. poller # "away" => woken'
    BY <1>3 DEF irq_handler_wake, wishbone_slave_ready
  <2>2. caller = "poll" => poller # "away"  BY <1>0 DEF ControlOK
  <2> QED  BY <2>1, <2>2, <1>3 DEF irq_handler_wake
<1>4. CASE char_slave_open
  BY <1>0, <1>4 DEF char_slave_open, TypeOK, ControlOK, Lock, Unlock
<1>5. CASE char_slave_release
  BY <1>0, <1>5 DEF char_slave_release, TypeOK, ControlOK, Lock, Unlock
<1>6. ASSUME NEW n \in ReadLens, char_slave_aio_read(n) PROVE WakeUp'
  BY <1>0, <1>6 DEF char_slave_aio_read, TypeOK, ControlOK, Lock, Unlock
<1>7. ASSUME NEW n \in WriteLens, char_slave_aio_write(n) PROVE WakeUp'
  BY <1>0, <1>7 DEF char_slave_aio_write, TypeOK, ControlOK, Lock, Unlock
<1>8. CASE user_message
  BY <1>0, <1>8 DEF user_message, TypeOK, ControlOK, Lock, Unlock
<1>9. CASE poll_wait
  BY <1>0, <1>9 DEF poll_wait, TypeOK, ControlOK, Lock, Unlock
<1>10. CASE char_slave_poll
  BY <1>0, <1>10 DEF char_slave_poll, TypeOK, ControlOK, Lock, Unlock
<1>11. CASE poll_wakeup
  BY <1>0, <1>11 DEF poll_wakeup, TypeOK, ControlOK, Lock, Unlock
<1>12. CASE poll_timeout
  BY <1>0, <1>12 DEF poll_timeout, TypeOK, ControlOK, Lock, Unlock
<1>13. CASE release_reply
  BY <1>0, <1>13 DEF release_reply, TypeOK, ControlOK, Lock, Unlock
<1>14. CASE release_done
  BY <1>0, <1>14 DEF release_done, TypeOK, ControlOK, Lock, Unlock
<1>15. CASE out_nothing
  BY <1>0, <1>15 DEF out_nothing, TypeOK, ControlOK, Lock, Unlock
<1>16. CASE wb_request
  BY <1>0, <1>16 DEF wb_request, TypeOK, ControlOK, Lock, Unlock
<1>17. CASE wb_request_enable
  BY <1>0, <1>17 DEF wb_request_enable, pcie_int_enable, TypeOK, ControlOK
<1>18. CASE read_copy
  BY <1>0, <1>18 DEF read_copy, TypeOK, ControlOK, Lock, Unlock
<1>19. CASE poll_return
  BY <1>0, <1>19 DEF poll_return, TypeOK, ControlOK, Lock, Unlock
<1>20. CASE write_header
  BY <1>0, <1>20 DEF write_header, TypeOK, ControlOK, Lock, Unlock
<1>21. CASE write_negotiate
  BY <1>0, <1>21 DEF write_negotiate, wishbone_slave_ready, TypeOK, ControlOK
<1>22. CASE write_part
  BY <1>0, <1>22 DEF write_part, TypeOK, ControlOK, Lock, Unlock
<1>23. CASE write_record
  BY <1>0, <1>23 DEF write_record, TypeOK, ControlOK, Lock, Unlock
<1>24. CASE write_done
  BY <1>0, <1>24 DEF write_done, TypeOK, ControlOK, Lock, Unlock
<1>25. CASE write_fail
  BY <1>0, <1>25 DEF write_fail, TypeOK, ControlOK, Lock, Unlock
<1>26. CASE in_header
  BY <1>0, <1>26 DEF in_header, Return, TypeOK, ControlOK
<1>27. CASE in_data
  BY <1>0, <1>27 DEF in_data, Advance, Return, TypeOK, ControlOK
<1>28. CASE in_reply
  BY <1>0, <1>28 DEF in_reply, Advance, Return, reply, TypeOK, ControlOK
<1>29. CASE in_refuse
  BY <1>0, <1>29 DEF in_refuse, Return, TypeOK, ControlOK
<1>30. CASE UNCHANGED vars
  BY <1>0, <1>30 DEF vars
<1> QED  BY <1>1, <1>2, <1>3, <1>4, <1>5, <1>6, <1>7, <1>8, <1>9, <1>10,
            <1>11, <1>12, <1>13, <1>14, <1>15, <1>16, <1>17, <1>18, <1>19,
            <1>20, <1>21, <1>22, <1>23, <1>24, <1>25, <1>26, <1>27, <1>28,
            <1>29, <1>30
         DEF Next, Holder, Interrupt

LEMMA FrameStep ==
  ASSUME IInv, [Next]_vars
  PROVE  Frame'
<1> USE DEF Frame, Leftover, Response, MsgLen, context, rbuf, call, exec, user,
            polling, card, intr
<1>0. TypeOK /\ ControlOK /\ BuffersFit /\ Frame  BY DEF IInv
<1>1. CASE hw_request
  BY <1>0, <1>1 DEF hw_request, TypeOK, ControlOK, Lock, Unlock
<1>2. CASE irq_handler
  BY <1>0, <1>2 DEF irq_handler, TypeOK, ControlOK, Lock, Unlock
<1>3. CASE irq_handler_wake
  BY <1>0, <1>3 DEF irq_handler_wake, TypeOK, ControlOK, Lock, Unlock
<1>4. CASE char_slave_open
  <2>1. /\ slave' /\ ~negotiated' /\ msg' = <<>> /\ pos' = 0 /\ wbuf' = <<>>
        /\ pc' = pc /\ iov_len' = iov_len /\ ~slave
    BY <1>4 DEF char_slave_open
  <2>2. pc = "unlocked"  BY <2>1, <1>0 DEF ControlOK
  <2>3. MsgLen' = 0  BY <2>1
  <2>4. Bytes(<<>>, 0, 0) = <<>>  BY DEF Bytes
  <2> QED  BY <2>1, <2>2, <2>3, <2>4
<1>5. CASE char_slave_release
  BY <1>0, <1>5 DEF char_slave_release, TypeOK, ControlOK, Lock, Unlock
<1>6. ASSUME NEW n \in ReadLens, char_slave_aio_read(n) PROVE Frame'
  BY <1>0, <1>6 DEF char_slave_aio_read, TypeOK, ControlOK, Lock, Unlock
<1>7. ASSUME NEW n \in WriteLens, char_slave_aio_write(n) PROVE Frame'
  BY <1>0, <1>7 DEF char_slave_aio_write, TypeOK, ControlOK, Lock, Unlock
<1>8. CASE user_message
  <2>1. /\ slave /\ pc = "unlocked" /\ pos = MsgLen /\ msg' \in Sent /\ pos' = 0
        /\ UNCHANGED <<slave, negotiated, wbuf, pc, iov_len>>
    BY <1>8 DEF user_message, Sent
  <2>2. MsgLen' \in Nat /\ MsgLen \in Nat
    BY <2>1, <1>0, MessagesAreWhole DEF TypeOK
  <2>3. 0 \in Starts[msg'] /\ Bytes(msg', 0, 0) = <<>>
    BY <2>1, StartsAreCut DEF Bytes
  <2>4. CASE ~negotiated
    <3>1. CASE wbuf = Bytes(msg, 0, pos) /\ pos <= 4
      <4>1. pos \in {0, 4}  BY <3>1, <2>1, <1>0, MessagesAreWhole DEF TypeOK
      <4>2. CASE pos = 0
        <5>1. wbuf' = Bytes(msg', 0, 0)
          BY <4>2, <3>1, <2>1, <2>3 DEF Bytes
        <5> QED  BY <5>1, <2>1, <2>2, <2>4
      <4>3. CASE pos = 4
        <5>1. Len(wbuf) = pos - 0
          BY <3>1, <2>1, <1>0, HeldBytes
        <5>2. Len(wbuf) = 4  BY <5>1, <4>3
        <5> QED  BY <5>2, <2>1, <2>2, <2>4
      <4> QED  BY <4>1, <4>2, <4>3
    <3>2. CASE Len(wbuf) = 4
      BY <3>2, <2>1, <2>2, <2>4
    <3> QED  BY <3>1, <3>2, <2>1, <2>4, <1>0
  <2>5. CASE negotiated
    <3>1. CASE Leftover
      <4>1. Leftover'  BY <3>1, <2>1
      <4> QED  BY <4>1, <2>1, <2>2, <2>5
    <3>2. ASSUME NEW b \in Starts[msg], wbuf = Bytes(msg, b, pos)
          PROVE  Frame'
      <4>1. msg \in Sent /\ Len(msg) \in Nat
        BY <1>0, MessagesAreWhole DEF TypeOK
      <4>2. b \in Nat /\ b <= 4 * Len(msg) /\ b % 4 = 0
        BY <4>1, StartsAreCut
      <4>3. Len(wbuf) = pos - b
        BY <4>2, <3>2, <2>1, <1>0, HeldBytes
      <4>4. CASE b = pos
        <5>1. wbuf' = Bytes(msg', 0, 0)
          BY <4>4, <3>2, <2>1, <2>3 DEF Bytes
        <5> QED  BY <5>1, <2>1, <2>2, <2>3, <2>5
      <4>5. CASE b # pos
        <5> DEFINE h == msg[(b \div 4) + 1]
        <5>1. /\ (b \div 4) + 1 \in 1..Len(msg)
              /\ b + RecordLen(h) \in Starts[msg]
          BY <4>1, <4>5, <2>1, StartsAreCut
        <5>2. b + RecordLen(h) <= pos
          BY <5>1, <4>1, <2>1, StartsAreCut
        <5>3. h \in Word  BY <5>1, <4>1, MessagesAreWhole
        <5>4. b + 4 <= pos  BY <5>1, <4>1, <4>2, <2>1
        <5>5. WordsOf(wbuf)[1] = h
          BY <5>4, <4>1, <4>2, <3>2, <2>1, <2>2, FirstWordSent
        <5>6. RecordLen(h) \in Nat /\ (RecordLen(h) = 4 => NoParts(h))
          BY <5>3, RecordLens, SlaveAssumption
        <5>7. Len(wbuf) >= 4 /\ Len(wbuf) >= RecordLen(h)
          BY <5>2, <5>4, <5>6, <4>2, <4>3, <2>1, <2>2
        <5>8. Len(wbuf) = 4
          <6>1. Len(wbuf) < RecordLen(h) \/ Len(wbuf) = 4
            BY <5>5, <5>7, <2>5, <1>0 DEF BuffersFit
          <6>2. Len(wbuf) \in Nat  BY <1>0 DEF TypeOK
          <6> QED  BY <6>1, <6>2, <5>6, <5>7
        <5>9. RecordLen(h) = 4
          BY <5>3, <5>6, <5>7, <5>8, RecordLens, SlaveAssumption
        <5>10. Leftover'  BY <5>5, <5>6, <5>8, <5>9, <2>1
        <5> QED  BY <5>10, <2>1, <2>2, <2>5
      <4> QED  BY <4>4, <4>5
    <3> QED  BY <3>1, <3>2, <2>1, <2>5, <1>0
  <2> QED  BY <2>4, <2>5
<1>9. CASE poll_wait
  BY <1>0, <1>9 DEF poll_wait, TypeOK, ControlOK, Lock, Unlock
<1>10. CASE char_slave_poll
  BY <1>0, <1>10 DEF char_slave_poll, TypeOK, ControlOK, Lock, Unlock
<1>11. CASE poll_wakeup
  BY <1>0, <1>11 DEF poll_wakeup, TypeOK, ControlOK, Lock, Unlock
<1>12. CASE poll_timeout
  BY <1>0, <1>12 DEF poll_timeout, TypeOK, ControlOK, Lock, Unlock
<1>13. CASE release_reply
  BY <1>0, <1>13 DEF release_reply, TypeOK, ControlOK, Lock, Unlock
<1>14. CASE release_done
  BY <1>0, <1>14 DEF release_done, TypeOK, ControlOK, Lock, Unlock
<1>15. CASE out_nothing
  BY <1>0, <1>15 DEF out_nothing, TypeOK, ControlOK, Lock, Unlock
<1>16. CASE wb_request
  BY <1>0, <1>16 DEF wb_request, TypeOK, ControlOK, Lock, Unlock
<1>17. CASE wb_request_enable
  BY <1>0, <1>17 DEF wb_request_enable, TypeOK, ControlOK, Lock, Unlock
<1>18. CASE read_copy
  BY <1>0, <1>18 DEF read_copy, TypeOK, ControlOK, Lock, Unlock
<1>19. CASE poll_return
  BY <1>0, <1>19 DEF poll_return, TypeOK, ControlOK, Lock, Unlock
<1>20. CASE write_header
  <2> DEFINE len == MinOf(4 - Len(wbuf), iov_len)
  <2>1. /\ pc = "write" /\ slave /\ Len(wbuf) \in Nat /\ Len(wbuf) < 4
        /\ iov_len \in Nat
    BY <1>0, <1>20 DEF write_header, TypeOK, ControlOK
  <2>2. len \in Nat /\ len <= iov_len /\ Len(wbuf) + len <= 4
    BY <2>1 DEF MinOf
  <2>3. /\ wbuf' = Fetched(len) /\ pos' = pos + len
        /\ iov_len' = iov_len - len
        /\ UNCHANGED <<slave, negotiated, msg, pc>>
    BY <1>20 DEF write_header, Took
  <2> HIDE DEF len
  <2>4. UNCHANGED MsgLen  BY <2>3
  <2>5. /\ pos' \in Nat /\ pos' <= MsgLen /\ pos' + iov_len' <= MsgLen
    BY <2>1, <2>2, <2>3, <1>0, MessagesAreWhole DEF TypeOK
  <2>6. CASE negotiated
    <3>1. PICK b \in Starts[msg] : b <= pos /\ wbuf = Bytes(msg, b, pos)
      <4>1. Len(wbuf) # 4  BY <2>1
      <4>2. pc # "fail"  BY <2>1
      <4> QED  BY <4>1, <4>2, <2>1, <2>6, <1>0, Zenon
    <3>2. b \in Nat  BY <1>0, StartsAreCut DEF TypeOK
    <3>3. wbuf' = Bytes(msg, b, pos') /\ b <= pos'
      BY <3>1, <3>2, <2>1, <2>2, <2>3, <1>0, FetchingOn DEF TypeOK
    <3> QED  BY <3>3, <2>1, <2>3, <2>4, <2>5, <2>6
  <2>7. CASE ~negotiated
    <3>1. pos <= 4 /\ wbuf = Bytes(msg, 0, pos)
      <4>1. Len(wbuf) # 4  BY <2>1
      <4> QED  BY <4>1, <2>1, <2>7, <1>0, Zenon
    <3>2. Len(wbuf) = pos
      <4>1. pos \in Nat /\ 0 <= pos  BY <1>0 DEF TypeOK
      <4>2. Len(wbuf) = pos - 0  BY <3>1, <4>1, <1>0, HeldBytes
      <4> QED  BY <4>1, <4>2
    <3>3. wbuf' = Bytes(msg, 0, pos') /\ pos' <= 4
      BY <3>1, <3>2, <2>1, <2>2, <2>3, <1>0, FetchingOn DEF TypeOK
    <3> QED  BY <3>3, <2>1, <2>3, <2>4, <2>5, <2>7
  <2> QED  BY <2>6, <2>7
<1>21. CASE write_negotiate
  <2>1. /\ pc = "write" /\ ~negotiated /\ Len(wbuf) >= 4 /\ slave
        /\ UNCHANGED <<slave, iov_len, msg, pos>>
        /\ msg \in Sent /\ pos \in Nat /\ iov_len \in Nat
    BY <1>0, <1>21 DEF write_negotiate, TypeOK, ControlOK
  <2>2. CASE Response
    <3>1. negotiated' /\ wbuf' = <<>> /\ pc' = "write"
      BY <2>1, <2>2, <1>21 DEF write_negotiate
    <3>2. pos \in Starts[msg]
      <4>1. CASE pos = 0  BY <4>1, <2>1, StartsAreCut
      <4>2. CASE pos <= 4 /\ wbuf = Bytes(msg, 0, pos) /\ pos # 0
        <5>1. pos <= 4 * Len(msg) /\ Len(msg) \in Nat
          BY <2>1, <1>0, MessagesAreWhole
        <5>2. Len(wbuf) = pos - 0  BY <4>2, <2>1, <1>0, HeldBytes
        <5>3. pos = 4  BY <5>2, <4>2, <2>1
        <5>4. WordsOf(wbuf)[1] = msg[1]
          <6>1. /\ 0 \in Nat /\ 4 \in Nat /\ 0 % 4 = 0 /\ 0 + 4 <= 4
                /\ 4 <= 4 * Len(msg) /\ (0 \div 4) + 1 = 1
            BY <5>1, <5>3
          <6>2. WordsOf(Bytes(msg, 0, 4))[1] = msg[(0 \div 4) + 1]
            BY <6>1, <2>1, FirstWordSent, Zenon
          <6> QED  BY <6>1, <6>2, <5>3, <4>2
        <5>5. RecordLen(msg[1]) = 4
          BY <5>4, <2>2 DEF RecordLen
        <5>6. 0 + RecordLen(msg[(0 \div 4) + 1]) \in Starts[msg]
          BY <5>1, <5>3, <2>1, StartsAreCut
        <5> QED  BY <5>3, <5>5, <5>6
      <4> QED  BY <4>1, <4>2, <2>1, <2>2, <1>0
    <3>3. Bytes(msg, pos, pos) = <<>>  BY <2>1 DEF Bytes
    <3> QED  BY <3>1, <3>2, <3>3, <2>1, <1>0
  <2>3. CASE ~Response
    <3>1. ~negotiated' /\ wbuf' = wbuf /\ pc' = "fail"
      BY <2>1, <2>3, <1>21 DEF write_negotiate
    <3>2. Len(wbuf) = 4
      <4> DEFINE x == Len(wbuf)
      <4>1. x <= 4  BY <2>1, <1>0 DEF BuffersFit
      <4>2. x \in Nat  BY <1>0 DEF TypeOK
      <4>3. x >= 4  BY <2>1
      <4> HIDE DEF x
      <4>4. x = 4  BY <4>1, <4>2, <4>3
      <4> QED  BY <4>4 DEF x
    <3> QED  BY <3>1, <3>2, <2>1, <2>3, <1>0
  <2> QED  BY <2>2, <2>3
<1>22. CASE write_part
  <2>1. /\ pc = "write" /\ slave /\ negotiated /\ iov_len \in Nat
        /\ Len(wbuf) >= 4 /\ RecordLen(WordsOf(wbuf)[1]) - Len(wbuf) > iov_len
        /\ wbuf' = Fetched(iov_len) /\ pos' = pos + iov_len
        /\ iov_len' = iov_len - iov_len
        /\ UNCHANGED <<slave, negotiated, msg, pc>>
    BY <1>0, <1>22 DEF write_part, Took, TypeOK, ControlOK
  <2>2. UNCHANGED MsgLen  BY <2>1
  <2>3. /\ pos' \in Nat /\ pos' <= MsgLen /\ pos' + iov_len' <= MsgLen
    BY <2>1, <1>0, MessagesAreWhole DEF TypeOK
  <2>4. ~Leftover
    <3> DEFINE n == RecordLen(WordsOf(wbuf)[1])
    <3>1. n - Len(wbuf) > 0 /\ n \in Nat
      BY <2>1, RecordTakes
    <3>2. ASSUME Len(wbuf) = 4, NoParts(WordsOf(wbuf)[1]) PROVE FALSE
      <4>1. n = 4
        BY <3>2 DEF RecordLen, NoParts, Bool
      <4> QED  BY <4>1, <3>1, <3>2
    <3> QED  BY <3>2
  <2>5. PICK b \in Starts[msg] : b <= pos /\ wbuf = Bytes(msg, b, pos)
    BY <2>1, <2>4, <1>0
  <2>6. b \in Nat  BY <1>0, StartsAreCut DEF TypeOK
  <2>7. wbuf' = Bytes(msg, b, pos') /\ b <= pos'
    BY <2>1, <2>5, <2>6, <1>0, FetchingOn DEF TypeOK
  <2> QED  BY <2>1, <2>2, <2>3, <2>7
<1>23. CASE write_record
  <2> DEFINE len == RecordLen(WordsOf(wbuf)[1]) - Len(wbuf)
  <2>1. /\ pc = "write" /\ slave /\ negotiated /\ Len(wbuf) >= 4
        /\ len <= iov_len /\ pos' = pos + len /\ iov_len' = iov_len - len
        /\ wbuf' = <<>> /\ pc' = "in"
        /\ UNCHANGED <<slave, negotiated, msg>>
    BY <1>0, <1>23 DEF write_record, Took, ControlOK
  <2>2. len \in Nat  BY <2>1, RecordTakes
  <2>3. /\ msg \in Sent /\ Len(msg) \in Nat /\ pos \in Nat /\ iov_len \in Nat
    BY <1>0, MessagesAreWhole DEF TypeOK
  <2>4. UNCHANGED MsgLen  BY <2>1
  <2>5. pos' \in Starts[msg]
    <3>1. CASE Leftover
      <4>1. RecordLen(WordsOf(wbuf)[1]) = 4
        BY <3>1 DEF RecordLen, NoParts, Bool
      <4>2. pos' = pos  BY <4>1, <3>1, <2>1, <2>3
      <4> QED  BY <4>2, <3>1, <2>3, StartsAreCut
    <3>2. ASSUME NEW b \in Starts[msg], b <= pos, wbuf = Bytes(msg, b, pos)
          PROVE  pos' \in Starts[msg]
      <4>1. b \in Nat /\ b <= 4 * Len(msg) /\ b % 4 = 0
        BY <2>3, StartsAreCut
      <4>2. Len(wbuf) = pos - b
        BY <4>1, <3>2, <2>3, <1>0, BytesType
      <4>3. b + 4 <= pos /\ b # 4 * Len(msg)
        BY <4>1, <4>2, <2>1, <2>3, <1>0
      <4>4. WordsOf(wbuf)[1] = msg[(b \div 4) + 1]
        BY <4>1, <4>3, <3>2, <2>3, <1>0, FirstWordSent
      <4>5. b + RecordLen(msg[(b \div 4) + 1]) \in Starts[msg]
        BY <4>3, <2>3, StartsAreCut
      <4>6. RecordLen(WordsOf(wbuf)[1]) \in Nat
        BY <2>1, RecordTakes
      <4>7. pos' = b + RecordLen(WordsOf(wbuf)[1])
        BY <4>1, <4>2, <4>6, <2>1, <2>3
      <4> QED  BY <4>4, <4>5, <4>7
    <3> QED  BY <3>1, <3>2, <2>1, <1>0
  <2>6. Bytes(msg, pos', pos') = <<>>
    <3>1. pos' \in Nat  BY <2>1, <2>2, <2>3
    <3> QED  BY <3>1, NoBytes
  <2>7. pos' \in Nat /\ pos' <= MsgLen /\ pos' + iov_len' <= MsgLen
    <3>1. iov_len' \in Nat /\ pos' \in Nat /\ pos' + iov_len' = pos + iov_len
      BY <2>1, <2>2, <2>3
    <3>2. pos + iov_len <= MsgLen  BY <2>1, <1>0
    <3>3. pos' + iov_len' <= MsgLen  BY <3>1, <3>2
    <3>4. MsgLen \in Nat  BY <2>3
    <3> QED  BY <3>1, <3>3, <3>4
  <2> HIDE DEF len
  <2> QED  BY <2>1, <2>4, <2>5, <2>6, <2>7
<1>24. CASE write_done
  BY <1>0, <1>24 DEF write_done, TypeOK, ControlOK, Lock, Unlock
<1>25. CASE write_fail
  <2>1. /\ pc = "fail" /\ slave /\ pc' = "unlocked" /\ pos' = MsgLen
        /\ UNCHANGED <<slave, negotiated, wbuf, msg>>
    BY <1>0, <1>25 DEF write_fail, Unlock, ControlOK
  <2>2. msg \in Sent /\ MsgLen \in Nat
    BY <1>0, MessagesAreWhole DEF TypeOK
  <2>3. CASE negotiated
    <3>1. MsgLen \in Starts[msg] /\ Bytes(msg, MsgLen, MsgLen) = <<>>
      BY <2>2, StartsAreCut DEF Bytes
    <3> QED  BY <3>1, <2>1, <2>2, <2>3, <1>0
  <2>4. CASE ~negotiated  BY <2>1, <2>2, <2>4, <1>0
  <2> QED  BY <2>3, <2>4
<1>26. CASE in_header
  BY <1>0, <1>26 DEF in_header, Return, TypeOK, ControlOK
<1>27. CASE in_data
  BY <1>0, <1>27 DEF in_data, Advance, Return, TypeOK, ControlOK
<1>28. CASE in_reply
  BY <1>0, <1>28 DEF in_reply, Advance, Return, reply, TypeOK, ControlOK
<1>29. CASE in_refuse
  BY <1>0, <1>29 DEF in_refuse, Return, TypeOK, ControlOK
<1>30. CASE UNCHANGED vars
  BY <1>0, <1>30 DEF vars, TypeOK, ControlOK
<1> QED  BY <1>1, <1>2, <1>3, <1>4, <1>5, <1>6, <1>7, <1>8, <1>9, <1>10,
            <1>11, <1>12, <1>13, <1>14, <1>15, <1>16, <1>17, <1>18, <1>19,
            <1>20, <1>21, <1>22, <1>23, <1>24, <1>25, <1>26, <1>27, <1>28,
            <1>29, <1>30
         DEF Next, Holder, Interrupt

LEMMA NextIInv == IInv /\ [Next]_vars => IInv'
BY TypeStep, ControlStep, AnsweredStep, BuffersStep, WakeStep, FrameStep
   DEF IInv

\* The invariant holds of every run of the device.
THEOREM Invariance == Spec => []IInv
BY InitIInv, NextIInv, PTL DEF Spec

\* However the device is opened, read, written and closed, and whenever
\* requests and interrupts come: every request that wb_request took from the
\* card is replied to once, by in_reply or by the close.
THEOREM RequestsAnsweredOnce == Spec => []AnsweredOnce
<1>1. IInv => AnsweredOnce  BY DEF IInv
<1> QED  BY <1>1, Invariance, PTL

\* rbuf and wbuf are never overrun, for any record the header can announce.
THEOREM BuffersNeverOverrun == Spec => []BuffersFit
<1>1. IInv => BuffersFit  BY DEF IInv
<1> QED  BY <1>1, Invariance, PTL

\* Records are found again however the writes cut them, for every set of
\* messages that consist of whole records.
THEOREM RecordsStayFramed == Spec => []Framed
<1>1. IInv => Framed
  <2> SUFFICES ASSUME IInv, slave, negotiated, pc = "unlocked"
                PROVE  \/ \E b \in Starts[msg] :
                            b <= pos /\ wbuf = Bytes(msg, b, pos)
                      \/ Leftover
    BY DEF Framed, Leftover
  <2> QED  BY DEF IInv, Frame
<1> QED  BY <1>1, Invariance, PTL

\* A thread that sleeps in poll while the card has a request has an interrupt,
\* or its handler, on the way: with messages as with the legacy line.
THEOREM NoWakeUpLost == Spec => []SleeperNotified
<1>1. IInv => SleeperNotified
  <2> SUFFICES ASSUME IInv, poller = "asleep", ~woken, negotiated, queue > 0
               PROVE  Interrupted \/ handler
    BY DEF SleeperNotified
  <2>1. Armed \/ handler  BY DEF IInv, WakeUp
  <2> QED  BY <2>1 DEF Armed, Interrupted
<1> QED  BY <1>1, Invariance, PTL
=============================================================================
