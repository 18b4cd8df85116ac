----------------------- MODULE EtherboneMasterProofs -----------------------
(***************************************************************************)
(* Proofs about EtherboneMaster, for every ring size, record length and    *)
(* stream, with or without faults while copying from the user: its         *)
(* invariants; that an open file implements the pipe of EtherbonePipe; and *)
(* that it executes and answers what its stream means.                     *)
(***************************************************************************)
EXTENDS EtherboneMaster, SequenceTheorems, WellFoundedInduction, TLAPS

(***************************************************************************)
(* Ring arithmetic without modulus: the cases that occur.                  *)
(***************************************************************************)
\* x % M for x between -M and 2M - 1: one correction is enough.
LEMMA ModCases ==
  ASSUME NEW M \in Nat \ {0}, NEW x \in Int
  PROVE  /\ x \in -2 * M..-M - 1     => x % M = x + 2 * M
         /\ x \in -M..-1             => x % M = x + M
         /\ x \in 0..M - 1           => x % M = x
         /\ x \in M..2 * M - 1       => x % M = x - M
         /\ x \in 2 * M..3 * M - 1   => x % M = x - 2 * M
         /\ x \in 3 * M..4 * M - 1   => x % M = x - 3 * M
         /\ x % M \in 0..M - 1
<1>1. x \in -2 * M..-M - 1 => x % M = x + 2 * M  BY SMT
<1>2. x \in -M..-1 => x % M = x + M  BY SMT
<1>3. x \in 0..M - 1 => x % M = x  BY SMT
<1>4. x \in M..2 * M - 1 => x % M = x - M  BY SMT
<1>5. x \in 2 * M..3 * M - 1 => x % M = x - 2 * M  BY SMT
<1>6. x \in 3 * M..4 * M - 1 => x % M = x - 3 * M  BY SMT
<1>7. x % M \in 0..M - 1  BY SMT
<1> QED  BY <1>1, <1>2, <1>3, <1>4, <1>5, <1>6, <1>7

\* The constants, as the proofs use them.
LEMMA Sizes ==
  /\ RING_SIZE \in Nat \ {0} /\ RING_SIZE % 4 = 0
  /\ MaxRecord \in Nat /\ 20 <= MaxRecord /\ MaxRecord <= RING_SIZE
BY WordsAssumption, RingAssumption DEF MaxRecord

\* RING_POS maps what the code passes to it to a position.
LEMMA PosCases ==
  ASSUME NEW x \in Int
  PROVE  /\ x \in -2 * RING_SIZE..-1              => RING_POS(x) = x + 2 * RING_SIZE
         /\ x \in 0..2 * RING_SIZE - 1            => RING_POS(x) = x
         /\ x \in 2 * RING_SIZE..4 * RING_SIZE - 1 => RING_POS(x) = x - 2 * RING_SIZE
         /\ RING_POS(x) \in Position
<1>1. 2 * RING_SIZE \in Nat \ {0}  BY Sizes
<1> DEFINE M == 2 * RING_SIZE
<1> HIDE DEF M
<1>2. /\ x \in -M..-1       => x % M = x + M
      /\ x \in 0..M - 1     => x % M = x
      /\ x \in M..2 * M - 1 => x % M = x - M
      /\ x % M \in 0..M - 1
  BY <1>1, ModCases DEF M
<1> QED  BY <1>1, <1>2, Sizes DEF M, RING_POS, Position

\* RING_INDEX likewise.
LEMMA IndexCases ==
  ASSUME NEW x \in Int
  PROVE  /\ x \in -2 * RING_SIZE..-RING_SIZE - 1  => RING_INDEX(x) = x + 2 * RING_SIZE
         /\ x \in -RING_SIZE..-1                  => RING_INDEX(x) = x + RING_SIZE
         /\ x \in 0..RING_SIZE - 1                => RING_INDEX(x) = x
         /\ x \in RING_SIZE..2 * RING_SIZE - 1    => RING_INDEX(x) = x - RING_SIZE
         /\ x \in 2 * RING_SIZE..3 * RING_SIZE - 1 => RING_INDEX(x) = x - 2 * RING_SIZE
         /\ x \in 3 * RING_SIZE..4 * RING_SIZE - 1 => RING_INDEX(x) = x - 3 * RING_SIZE
         /\ RING_INDEX(x) \in 0..RING_SIZE - 1
BY Sizes, ModCases DEF RING_INDEX

(***************************************************************************)
(* The inductive invariant.                                                *)
(***************************************************************************)
\* Whatever looks like a header in the ring has counts that fit in a byte.
HeadersOK ==
  \A x \in 0..RING_SIZE - 1 : buf[x][1][1] = "hdr" => buf[x][1][2] \in Header

\* The user's side: what was accepted is a part of the stream.
UserOK == stream \in Seq(Word) /\ fed <= 4 * Len(stream)

\* Which points of a call go with which states of the file, and how much may
\* be left unprocessed when the mutex is released.
ControlOK ==
  /\ pc \in {"enter", "process"} => Open
  /\ pc = "process" => state # "header"
  /\ state = "header" => sent = 0 /\ processed = 0 /\ taken = 0
  /\ Open /\ pc = "unlocked" => RING_PROC_LEN < MaxRecord

IInv == TypeOK /\ HeadersOK /\ UserOK /\ ControlOK /\ RingOrder /\ WalkInStep

(***************************************************************************)
(* Facts about the state.                                                  *)
(***************************************************************************)
\* The distances the code computes between cursors, without modulus.
Ahead(a, b) == IF b <= a THEN a - b ELSE a - b + 2 * RING_SIZE

\* The free bytes: how far a, one ring ahead, is before b.
Free(a, b) ==
  IF a + RING_SIZE < b THEN a + RING_SIZE - b + 2 * RING_SIZE
  ELSE IF a + RING_SIZE - b < 2 * RING_SIZE THEN a + RING_SIZE - b
  ELSE a - RING_SIZE - b

\* The distances that the length macros compute, without the modulus.
LEMMA Distances ==
  ASSUME NEW a \in Position, NEW b \in Position
  PROVE  /\ RING_POS(a - b) = Ahead(a, b)
         /\ RING_POS(a + RING_SIZE - b) = Free(a, b)
<1> DEFINE x == a - b
           z == a + RING_SIZE - b
<1>1. /\ x \in Int /\ z \in Int
      /\ x \in -2 * RING_SIZE..2 * RING_SIZE - 1
      /\ z \in -2 * RING_SIZE..4 * RING_SIZE - 1
  BY Sizes DEF Position
<1>2. RING_POS(x) = IF x < 0 THEN x + 2 * RING_SIZE ELSE x
  <2> HIDE DEF x
  <2> QED  BY <1>1, PosCases, Sizes
<1>3. RING_POS(z) = IF z < 0 THEN z + 2 * RING_SIZE
                    ELSE IF z < 2 * RING_SIZE THEN z ELSE z - 2 * RING_SIZE
  <2> HIDE DEF z
  <2> QED  BY <1>1, PosCases, Sizes
<1> QED  BY <1>1, <1>2, <1>3, Sizes DEF Position, Ahead, Free

\* A distance between two cursors is never negative.
LEMMA AheadType ==
  ASSUME NEW a \in Position, NEW b \in Position
  PROVE  Ahead(a, b) \in Nat
<1>1. a \in Int /\ b \in Int /\ a >= 0 /\ b < 2 * RING_SIZE
  BY Sizes DEF Position
<1>2. CASE b <= a  BY <1>1, <1>2 DEF Ahead
<1>3. CASE ~(b <= a)  BY <1>1, <1>3, Sizes DEF Ahead
<1> QED  BY <1>2, <1>3

\* As long as the bytes to read and to process fit in the ring, the free
\* bytes are all the others.
LEMMA FreeRest ==
  ASSUME NEW s \in Position, NEW p \in Position, NEW r \in Position,
         Ahead(p, s) + Ahead(r, p) <= RING_SIZE
  PROVE  Free(s, r) = RING_SIZE - (Ahead(p, s) + Ahead(r, p))
BY Sizes DEF Position, Ahead, Free

\* A cursor that advances leaves the one behind it farther behind, and comes
\* nearer to the one before it.
LEMMA Advance ==
  ASSUME NEW x \in Position, NEW y \in Position,
         NEW n \in Nat, n <= RING_SIZE
  PROVE  /\ RING_POS(x + n) \in Position
         /\ Ahead(x, y) + n <= RING_SIZE =>
              Ahead(RING_POS(x + n), y) = Ahead(x, y) + n
         /\ n <= Ahead(y, x) => Ahead(y, RING_POS(x + n)) = Ahead(y, x) - n
<1> DEFINE z == x + n
<1>1. z \in Int /\ z \in 0..4 * RING_SIZE - 1
  BY Sizes DEF Position
<1>2. RING_POS(z) = IF z < 2 * RING_SIZE THEN z ELSE z - 2 * RING_SIZE
  <2> HIDE DEF z
  <2> QED  BY <1>1, PosCases, Sizes
<1>3. CASE z < 2 * RING_SIZE
  <2>1. RING_POS(x + n) = x + n
    <3>1. RING_POS(z) = z  BY <1>2, <1>3, Zenon
    <3> QED  BY <3>1
  <2> QED  BY <2>1, <1>3, Sizes DEF Position, Ahead
<1>4. CASE ~(z < 2 * RING_SIZE)
  <2>1. RING_POS(x + n) = (x + n) - 2 * RING_SIZE
    <3>1. RING_POS(z) = z - 2 * RING_SIZE  BY <1>2, <1>4, Zenon
    <3> QED  BY <3>1, Sizes DEF Position
  <2> QED  BY <2>1, <1>4, Sizes DEF Position, Ahead
<1> QED  BY <1>3, <1>4

\* Indices of a cursor that advances, and the alignment of both.
LEMMA IndexAdvance ==
  ASSUME NEW x \in Nat, x < 3 * RING_SIZE, NEW n \in Nat, n <= RING_SIZE
  PROVE  RING_INDEX(RING_INDEX(x) + n) = RING_INDEX(x + n)
<1> DEFINE a == RING_INDEX(x)
           b == x + n
           c == a + n
<1>1. /\ a = IF x < RING_SIZE THEN x
             ELSE IF x < 2 * RING_SIZE THEN x - RING_SIZE ELSE x - 2 * RING_SIZE
      /\ a \in 0..RING_SIZE - 1
  BY IndexCases, Sizes
<1> HIDE DEF a
<1>2. b \in Nat /\ b < 4 * RING_SIZE /\ c \in Nat /\ c < 2 * RING_SIZE
  BY <1>1, Sizes
<1>3. RING_INDEX(b) = IF b < RING_SIZE THEN b
                      ELSE IF b < 2 * RING_SIZE THEN b - RING_SIZE
                      ELSE IF b < 3 * RING_SIZE THEN b - 2 * RING_SIZE
                      ELSE b - 3 * RING_SIZE
  <2> HIDE DEF b
  <2> QED  BY <1>2, IndexCases, Sizes
<1>4. RING_INDEX(c) = IF c < RING_SIZE THEN c ELSE c - RING_SIZE
  <2> HIDE DEF c
  <2> QED  BY <1>2, IndexCases, Sizes
<1>5. RING_INDEX(c) = RING_INDEX(b)
  BY <1>1, <1>3, <1>4, Sizes
<1> QED  BY <1>5 DEF a

\* The index of a wrapped position is that of the position itself.
LEMMA IndexOfPos ==
  ASSUME NEW x \in Nat, x < 4 * RING_SIZE
  PROVE  RING_INDEX(RING_POS(x)) = RING_INDEX(x)
<1>1. RING_POS(x) = IF x < 2 * RING_SIZE THEN x ELSE x - 2 * RING_SIZE
  BY PosCases, Sizes
<1>2. CASE x < 2 * RING_SIZE  BY <1>1, <1>2
<1>3. CASE ~(x < 2 * RING_SIZE)
  <2> DEFINE y == x - 2 * RING_SIZE
  <2>1. y \in Nat /\ y < 2 * RING_SIZE  BY <1>3, Sizes
  <2>2. RING_INDEX(y) = IF y < RING_SIZE THEN y ELSE y - RING_SIZE
    <3> HIDE DEF y
    <3> QED  BY <2>1, IndexCases, Sizes
  <2>3. RING_INDEX(x) = IF x < 3 * RING_SIZE THEN x - 2 * RING_SIZE
                        ELSE x - 3 * RING_SIZE
    BY <1>3, IndexCases, Sizes
  <2>4. RING_INDEX(y) = RING_INDEX(x)  BY <2>2, <2>3, <1>3, Sizes
  <2> QED  BY <2>4, <1>1, <1>3
<1> QED  BY <1>2, <1>3

\* Wrapping, of positions and of indices, keeps the word alignment.
LEMMA Aligned ==
  ASSUME NEW x \in Nat, x < 4 * RING_SIZE
  PROVE  RING_INDEX(x) % 4 = x % 4 /\ RING_POS(x) % 4 = x % 4
<1>1. RING_POS(x) = IF x < 2 * RING_SIZE THEN x ELSE x - 2 * RING_SIZE
  BY PosCases, Sizes
<1>2. RING_INDEX(x) = IF x < RING_SIZE THEN x
                      ELSE IF x < 2 * RING_SIZE THEN x - RING_SIZE
                      ELSE IF x < 3 * RING_SIZE THEN x - 2 * RING_SIZE
                      ELSE x - 3 * RING_SIZE
  BY IndexCases, Sizes
<1>3. RING_POS(x) % 4 = x % 4  BY <1>1, Sizes
<1>4. RING_INDEX(x) % 4 = x % 4  BY <1>2, Sizes
<1> QED  BY <1>3, <1>4

\* The three lengths, before and after a step.
LEMMA Lengths ==
  ASSUME sent \in Position, processed \in Position, received \in Position
  PROVE  /\ RING_READ_LEN = Ahead(processed, sent)
         /\ RING_PROC_LEN = Ahead(received, processed)
         /\ RING_WRITE_LEN = Free(sent, received)
BY Distances, Zenon DEF RING_READ_LEN, RING_PROC_LEN, RING_WRITE_LEN

\* The same for the cursors after a step.
LEMMA LengthsNext ==
  ASSUME sent' \in Position, processed' \in Position, received' \in Position
  PROVE  /\ RING_READ_LEN' = Ahead(processed', sent')
         /\ RING_PROC_LEN' = Ahead(received', processed')
         /\ RING_WRITE_LEN' = Free(sent', received')
BY Distances, Zenon DEF RING_READ_LEN, RING_PROC_LEN, RING_WRITE_LEN

\* What the lengths satisfy between two calls.
LEMMA LengthBounds ==
  ASSUME TypeOK, RingOrder, Open
  PROVE  /\ RING_READ_LEN \in Nat /\ RING_PROC_LEN \in Nat
         /\ RING_READ_LEN + RING_PROC_LEN <= RING_SIZE
         /\ RING_WRITE_LEN = RING_SIZE - (RING_READ_LEN + RING_PROC_LEN)
<1>1. /\ RING_READ_LEN = Ahead(processed, sent)
      /\ RING_PROC_LEN = Ahead(received, processed)
  BY Lengths DEF TypeOK
<1>2. Ahead(processed, sent) \in Nat /\ Ahead(received, processed) \in Nat
  BY AheadType DEF TypeOK
<1>3. fed \in Nat /\ taken \in Nat  BY DEF TypeOK
<1> QED  BY <1>1, <1>2, <1>3, Sizes DEF RingOrder

\* RingOrder follows from its first two parts.
LEMMA RestOfRing ==
  ASSUME sent' \in Position, processed' \in Position, received' \in Position,
         fed' \in Nat, taken' \in Nat,
         taken' + RING_READ_LEN' + RING_PROC_LEN' = fed',
         fed' - taken' <= RING_SIZE
  PROVE  RingOrder'
<1>1. /\ RING_READ_LEN' = Ahead(processed', sent')
      /\ RING_PROC_LEN' = Ahead(received', processed')
      /\ RING_WRITE_LEN' = Free(sent', received')
  BY LengthsNext
<1>2. Ahead(processed', sent') \in Nat /\ Ahead(received', processed') \in Nat
  BY AheadType
<1>3. Ahead(processed', sent') + Ahead(received', processed') = fed' - taken'
  BY <1>1, <1>2
<1>4. Free(sent', received') = RING_SIZE - (fed' - taken')
  BY <1>2, <1>3, FreeRest
<1> QED  BY <1>1, <1>4 DEF RingOrder

\* A header's record has between 1 word and the longest record, and the walk
\* over it moves by exactly its length.
LEMMA RecordSize ==
  ASSUME NEW h \in Header
  PROVE  /\ RecordLen(h) \in 4..MaxRecord
         /\ RecordLen(h) % 4 = 0
         /\ Walked(h) = RecordLen(h)
BY WordsAssumption DEF Header, RecordLen, Walked, AnswerSlot, Bool, MaxRecord

\* What the process loop takes for a header is one.
LEMMA HeaderFound ==
  ASSUME HeadersOK, NEW x \in 0..RING_SIZE - 1, NEW h \in HeadersOf(WordAt(x))
  PROVE  h \in Header
<1>1. Lookalikes \subseteq Header /\ ZeroHeader \in Header
  BY RingAssumption, WordsAssumption DEF ZeroHeader, Header
<1>2. WordAt(x) = buf[x][1] \/ WordAt(x) = Garbled
  BY DEF WordAt
<1>3. WordAt(x)[1] = "hdr" => WordAt(x)[2] \in Header
  BY <1>2 DEF HeadersOK, Garbled
<1> QED  BY <1>1, <1>3 DEF HeadersOf

\* A header of the user's stream has counts that fit in a byte.
LEMMA StreamHeaders ==
  ASSUME UserOK, fed \in Nat, NEW n \in Nat, n < 4 * Len(stream)
  PROVE  LET b == StreamByte(stream, n)
         IN  b[1][1] = "hdr" => b[1][2] \in Header
<1>1. (n \div 4) + 1 \in 1..Len(stream)
  BY DEF UserOK
<1>2. stream[(n \div 4) + 1] \in Word
  BY <1>1 DEF UserOK
<1>3. ASSUME NEW w \in Word, w[1] = "hdr" PROVE w[2] \in Header
  BY <1>3 DEF Word
<1> QED  BY <1>2, <1>3 DEF StreamByte

\* No file is open yet.
LEMMA InitIInv == Init => IInv
<1> SUFFICES ASSUME Init PROVE IInv  OBVIOUS
<1>1. TypeOK
  BY Sizes, RingAssumption DEF Init, TypeOK, Position, Uninitialised
<1>2. HeadersOK
  BY DEF Init, HeadersOK, Uninitialised, Garbled
<1>3. UserOK
  BY DEF Init, UserOK
<1>4. ControlOK /\ RingOrder /\ WalkInStep
  BY DEF Init, ControlOK, RingOrder, WalkInStep, Open
<1> QED  BY <1>1, <1>2, <1>3, <1>4 DEF IInv

\* char_master_open starts the cursors at zero over a fresh ring.
LEMMA OpenIInv == IInv /\ char_master_open => IInv'
<1> SUFFICES ASSUME IInv, char_master_open PROVE IInv'  OBVIOUS
<1> USE DEF IInv, char_master_open
<1>1. TypeOK'
  <2>1. buf' = [x \in 0..RING_SIZE - 1 |-> buf'[x]]
    BY DEF Uninitialised
  <2>2. opens' \in 0..MaxOpens
    BY RingAssumption DEF TypeOK
  <2>3. /\ pc' = pc /\ i' = i /\ left' = left /\ size' = size
        /\ sent' = 0 /\ processed' = 0 /\ received' = 0 /\ 0 \in Position
    BY Sizes DEF locals, Position
  <2> HIDE DEF char_master_open
  <2>4. state' = "header" /\ fed' = 0 /\ taken' = 0  BY DEF char_master_open
  <2> QED  BY <2>1, <2>2, <2>3, <2>4 DEF TypeOK
<1>2. HeadersOK'
  BY DEF HeadersOK, Uninitialised, Garbled
<1>3. UserOK'
  BY RingAssumption DEF UserOK
<1>4. /\ RING_READ_LEN' = 0 /\ RING_PROC_LEN' = 0
      /\ RING_WRITE_LEN' = RING_SIZE
  <2>1. sent' = 0 /\ processed' = 0 /\ received' = 0 /\ 0 \in Position
    BY Sizes DEF Position
  <2> QED  BY <2>1, LengthsNext, Sizes DEF Ahead, Free
<1>5. RingOrder'
  BY <1>4, Sizes DEF RingOrder
<1>6. ControlOK' /\ WalkInStep'
  BY <1>4, Sizes DEF ControlOK, WalkInStep, Open, locals
<1> QED  BY <1>1, <1>2, <1>3, <1>5, <1>6

\* char_master_release forgets the file.
LEMMA ReleaseIInv == IInv /\ char_master_release => IInv'
<1> SUFFICES ASSUME IInv, char_master_release PROVE IInv'  OBVIOUS
<1> USE DEF IInv, char_master_release, cursors, locals, user
<1>1. TypeOK'  BY DEF TypeOK
<1>2. HeadersOK' /\ UserOK'  BY DEF HeadersOK, UserOK
<1>3. ControlOK' /\ RingOrder' /\ WalkInStep'
  BY DEF ControlOK, RingOrder, WalkInStep, Open
<1> QED  BY <1>1, <1>2, <1>3

\* char_master_aio_read moves sent, at most up to processed.
LEMMA ReadIInv ==
  ASSUME NEW n \in IovLens
  PROVE  IInv /\ char_master_aio_read(n) => IInv'
<1> SUFFICES ASSUME IInv, char_master_aio_read(n) PROVE IInv'  OBVIOUS
<1> USE DEF IInv
<1> DEFINE len == MinOf(RING_READ_LEN, n)
<1>1. /\ sent \in Position /\ processed \in Position /\ received \in Position
      /\ fed \in Nat /\ taken \in Nat /\ n \in Nat /\ Open
  BY RingAssumption DEF TypeOK, char_master_aio_read, Open
<1>2. /\ RING_READ_LEN \in Nat /\ RING_PROC_LEN \in Nat
      /\ RING_READ_LEN + RING_PROC_LEN <= RING_SIZE
  BY <1>1, LengthBounds
<1>3. len \in Nat /\ len <= RING_READ_LEN
  BY <1>1, <1>2 DEF MinOf
<1>4. /\ sent' = RING_POS(sent + len) /\ taken' = taken + len
      /\ pc = "unlocked"
      /\ UNCHANGED <<state, processed, received, buf, pc, locals, bus,
                     stream, fed, opens>>
  BY DEF char_master_aio_read
<1> HIDE DEF len
<1>5. len <= RING_SIZE /\ RING_READ_LEN = Ahead(processed, sent)
  BY <1>1, <1>2, <1>3, Lengths, Sizes
<1>6. sent' \in Position /\ processed' \in Position /\ received' \in Position
  BY <1>1, <1>3, <1>4, <1>5, Advance
<1>7. TypeOK'
  BY <1>1, <1>3, <1>4, <1>6 DEF TypeOK, locals
<1>8. HeadersOK' /\ UserOK'
  BY <1>4 DEF HeadersOK, UserOK
<1>9. RING_PROC_LEN' = RING_PROC_LEN
  BY <1>4 DEF RING_PROC_LEN
<1>10. RING_READ_LEN' = RING_READ_LEN - len
  <2>1. RING_READ_LEN' = Ahead(processed, sent')
    BY <1>4, <1>6, LengthsNext
  <2> QED  BY <2>1, <1>1, <1>3, <1>4, <1>5, Advance
<1>11. RingOrder'
  <2>1. /\ taken' + RING_READ_LEN' + RING_PROC_LEN' = fed'
        /\ fed' - taken' <= RING_SIZE
    BY <1>1, <1>2, <1>3, <1>4, <1>9, <1>10, LengthBounds, Sizes DEF RingOrder
  <2> QED  BY <2>1, <1>1, <1>3, <1>4, <1>6, RestOfRing
<1>12. ControlOK'
  <2>1. state = "header" => len = 0 /\ sent' = 0
    <3> SUFFICES ASSUME state = "header" PROVE len = 0 /\ sent' = 0  OBVIOUS
    <3>1. sent = 0 /\ processed = 0 /\ taken = 0  BY DEF ControlOK
    <3>2. len = 0  BY <3>1, <1>2, <1>3, <1>5, Sizes DEF Ahead
    <3>3. RING_POS(0) = 0  BY PosCases, Sizes
    <3> QED  BY <3>1, <3>2, <3>3, <1>4
  <2> QED  BY <2>1, <1>1, <1>4, <1>9 DEF ControlOK, Open
<1>13. WalkInStep'
  BY <1>4, <1>9 DEF WalkInStep
<1> QED  BY <1>7, <1>8, <1>11, <1>12, <1>13

\* char_master_aio_write moves received, by at most the free bytes.
LEMMA WriteIInv ==
  ASSUME NEW n \in IovLens
  PROVE  IInv /\ char_master_aio_write(n) => IInv'
<1> SUFFICES ASSUME IInv, char_master_aio_write(n) PROVE IInv'  OBVIOUS
<1> USE DEF IInv
<1> DEFINE len == MinOf(RING_WRITE_LEN, n)
<1>1. /\ sent \in Position /\ processed \in Position /\ received \in Position
      /\ fed \in Nat /\ taken \in Nat /\ n \in Nat /\ Open
      /\ state # "header" \/ state = "header"
  BY RingAssumption DEF TypeOK, char_master_aio_write, Open
<1>2. /\ RING_READ_LEN \in Nat /\ RING_PROC_LEN \in Nat
      /\ RING_READ_LEN + RING_PROC_LEN <= RING_SIZE
      /\ RING_WRITE_LEN = RING_SIZE - (RING_READ_LEN + RING_PROC_LEN)
  BY <1>1, LengthBounds
<1>3. len \in Nat /\ len <= RING_WRITE_LEN /\ len <= n /\ len <= RING_SIZE
  BY <1>1, <1>2, Sizes DEF MinOf
<1>4. /\ received' = RING_POS(received + len) /\ fed' = fed + len
      /\ fed + n <= 4 * Len(stream)
      /\ pc' = "enter"
      /\ UNCHANGED <<state, sent, processed, locals, bus, stream, taken,
                     out, opens>>
      /\ \E m \in Copies(len) : buf' = Copied(m)
  BY DEF char_master_aio_write
<1> HIDE DEF len
<1>5. PICK m \in 0..len : buf' = Copied(m)
  BY <1>3, <1>4 DEF Copies
<1>6. sent' \in Position /\ processed' \in Position /\ received' \in Position
  BY <1>1, <1>3, <1>4, Advance
<1>7. TypeOK'
  <2>1. buf' = [x \in 0..RING_SIZE - 1 |-> buf'[x]]
    BY <1>5 DEF Copied
  <2>2. fed' \in Nat  BY <1>1, <1>3, <1>4
  <2> QED  BY <2>1, <2>2, <1>1, <1>4, <1>6 DEF TypeOK, locals
<1>8. UserOK'
  <2>1. Len(stream) \in Nat  BY DEF UserOK
  <2> QED  BY <2>1, <1>1, <1>3, <1>4 DEF UserOK
<1>9. HeadersOK'
  <2> SUFFICES ASSUME NEW x \in 0..RING_SIZE - 1, buf'[x][1][1] = "hdr"
               PROVE  buf'[x][1][2] \in Header
    BY DEF HeadersOK
  <2> DEFINE k == RING_INDEX(x - received)
  <2>1. k \in Nat
    BY <1>1, IndexCases, Sizes DEF Position
  <2>2. buf'[x] = IF k < m THEN StreamByte(stream, fed + k) ELSE buf[x]
    BY <1>5 DEF Copied
  <2> HIDE DEF k
  <2>3. CASE k < m
    <3>1. fed + k \in Nat /\ fed + k < 4 * Len(stream)
      <4>1. Len(stream) \in Nat  BY DEF UserOK
      <4> QED  BY <4>1, <2>1, <2>3, <1>1, <1>3, <1>4
    <3> QED  BY <3>1, <2>2, <2>3, <1>1, StreamHeaders
  <2>4. CASE ~(k < m)
    BY <2>2, <2>4 DEF HeadersOK
  <2> QED  BY <2>3, <2>4
<1>10. /\ RING_READ_LEN' = RING_READ_LEN
       /\ RING_PROC_LEN' = RING_PROC_LEN + len
  <2>1. /\ RING_READ_LEN' = Ahead(processed, sent)
        /\ RING_PROC_LEN' = Ahead(received', processed)
        /\ RING_READ_LEN = Ahead(processed, sent)
        /\ RING_PROC_LEN = Ahead(received, processed)
    BY <1>1, <1>4, <1>6, Lengths, LengthsNext
  <2>2. Ahead(received, processed) + len <= RING_SIZE
    BY <2>1, <1>2, <1>3, Sizes
  <2> QED  BY <2>1, <2>2, <1>1, <1>3, <1>4, Advance
<1>11. RingOrder'
  <2>1. /\ taken' + RING_READ_LEN' + RING_PROC_LEN' = fed'
        /\ fed' - taken' <= RING_SIZE
    BY <1>1, <1>2, <1>3, <1>4, <1>10, Sizes DEF RingOrder
  <2> QED  BY <2>1, <1>1, <1>3, <1>4, <1>6, RestOfRing
<1>12. ControlOK' /\ WalkInStep'
  BY <1>1, <1>4 DEF ControlOK, WalkInStep, Open
<1> QED  BY <1>7, <1>8, <1>9, <1>11, <1>12

\* A process pass that finds too little to do changes nothing.
LEMMA WaitIInv == IInv /\ process_wait => IInv'
<1> SUFFICES ASSUME IInv, process_wait PROVE IInv'  OBVIOUS
<1> USE DEF IInv, process_wait, cursors, locals, user
<1>1. TypeOK'  BY DEF TypeOK
<1>2. HeadersOK' /\ UserOK'  BY DEF HeadersOK, UserOK
<1>3. RingOrder' /\ WalkInStep'
  BY DEF RingOrder, WalkInStep, Open, RING_READ_LEN, RING_PROC_LEN, RING_WRITE_LEN
<1>4. ControlOK'
  <2>1. RING_PROC_LEN < MaxRecord
    <3>1. RING_PROC_LEN = Ahead(received, 0)
      BY Lengths DEF TypeOK, ControlOK
    <3>2. received \in Nat /\ received < 8  BY DEF TypeOK, Position
    <3> QED  BY <3>1, <3>2, Sizes DEF Ahead
  <2> QED  BY <2>1 DEF ControlOK, Open, RING_PROC_LEN
<1> QED  BY <1>1, <1>2, <1>3, <1>4

\* The probe answer moves processed over the first eight bytes.
LEMMA ProbeIInv == IInv /\ process_probe => IInv'
<1> SUFFICES ASSUME IInv, process_probe PROVE IInv'  OBVIOUS
<1> USE DEF IInv, locals, user
<1>1. /\ sent \in Position /\ processed \in Position /\ received \in Position
      /\ sent = 0 /\ processed = 0 /\ taken = 0 /\ received >= 8 /\ Open
      /\ fed \in Nat
  BY DEF TypeOK, process_probe, ControlOK, Open
<1>2. /\ sent' = 0 /\ processed' = 8 /\ received' = received
      /\ sent' \in Position /\ processed' \in Position /\ received' \in Position
  BY <1>1, Sizes DEF process_probe, Position
<1>3. buf' = [x \in 0..RING_SIZE - 1 |->
               IF x < 4 THEN <<ProbeResp, x>> ELSE buf[x]]
  BY DEF process_probe
<1>4. TypeOK'
  <2>1. buf' = [x \in 0..RING_SIZE - 1 |-> buf'[x]]  BY <1>3
  <2> QED  BY <2>1, <1>2 DEF TypeOK, process_probe
<1>5. HeadersOK'
  BY <1>3 DEF HeadersOK, ProbeResp
<1>6. RING_READ_LEN' = 8 /\ RING_PROC_LEN' = RING_PROC_LEN - 8
  <2>1. /\ RING_READ_LEN' = Ahead(8, 0) /\ RING_PROC_LEN' = Ahead(received, 8)
        /\ RING_PROC_LEN = Ahead(received, 0)
    BY <1>1, <1>2, Lengths, LengthsNext
  <2>2. received \in Nat  BY <1>1 DEF Position
  <2> QED  BY <2>1, <2>2, <1>1, Sizes DEF Ahead
<1>7. RingOrder'
  <2>1. RING_READ_LEN = 0
    BY <1>1, Lengths, Sizes DEF Ahead
  <2>2. RING_PROC_LEN \in Nat  BY <1>1, LengthBounds
  <2>3. /\ taken' + RING_READ_LEN' + RING_PROC_LEN' = fed'
        /\ fed' - taken' <= RING_SIZE /\ fed' \in Nat /\ taken' \in Nat
    BY <2>1, <2>2, <1>1, <1>6 DEF RingOrder, process_probe
  <2> QED  BY <2>3, <1>2, RestOfRing
<1>8. UserOK' /\ ControlOK' /\ WalkInStep'
  BY <1>1, <1>2 DEF process_probe, UserOK, ControlOK, WalkInStep, Open
<1> QED  BY <1>4, <1>5, <1>7, <1>8

\* The process loop starts at processed, with all that was received.
LEMMA StartIInv == IInv /\ process_start => IInv'
<1> SUFFICES ASSUME IInv, process_start PROVE IInv'  OBVIOUS
<1> USE DEF IInv, cursors, user
<1>1. /\ processed \in Nat /\ processed < 2 * RING_SIZE /\ Open
  BY Sizes DEF TypeOK, Position, process_start, ControlOK
<1>2. RING_PROC_LEN \in Nat  BY <1>1, LengthBounds
<1>3. /\ i' = RING_INDEX(processed) /\ size' = RING_PROC_LEN
      /\ left' = RING_PROC_LEN /\ pc' = "process" /\ state # "header"
      /\ UNCHANGED <<state, cursors, buf, bus, user>>
  BY DEF process_start
<1>4. i' \in 0..RING_SIZE - 1 /\ i' % 4 = 0
  BY <1>1, <1>3, IndexCases, Aligned, Sizes DEF WalkInStep
<1>5. TypeOK'
  BY <1>2, <1>3, <1>4 DEF TypeOK
<1>6. HeadersOK' /\ UserOK' /\ ControlOK' /\ RingOrder'
  BY <1>1, <1>3 DEF HeadersOK, UserOK, ControlOK, RingOrder, Open,
                    RING_READ_LEN, RING_PROC_LEN, RING_WRITE_LEN
<1>7. WalkInStep'
  <2>1. RING_PROC_LEN' = RING_PROC_LEN  BY <1>3 DEF RING_PROC_LEN
  <2>2. processed + size' - left' = processed  BY <1>1, <1>2, <1>3
  <2> QED  BY <2>1, <2>2, <1>2, <1>3, <1>4 DEF WalkInStep
<1> QED  BY <1>5, <1>6, <1>7

\* Executing a record leaves the cursors alone and only writes well-formed
\* headers into the ring.
LEMMA AnsweredHeaders ==
  ASSUME HeadersOK, NEW h \in Header, i \in 0..RING_SIZE - 1,
         NEW x \in 0..RING_SIZE - 1, AnsweredByte(h, x)[1][1] = "hdr"
  PROVE  AnsweredByte(h, x)[1][2] \in Header
<1> DEFINE k == RING_INDEX(x - i) \div 4
           a == AnswerSlot(h)
           space == IF "RCA" \in h.flags THEN "cfg" ELSE "mem"
           word == CASE k < a -> Zero
                     [] k = a -> AnswerHeader(h)
                     [] k > a -> Answer(space, WordAt(Slot(k)))
           kept == k = a + 1 \/ k > a + 1 + h.rcount
<1>1. k \in Int /\ a \in Int
  <2>1. RING_INDEX(x - i) \in Nat  BY IndexCases, Sizes
  <2> QED  BY <2>1 DEF AnswerSlot, Header
<1>2. AnsweredByte(h, x) = IF kept THEN buf[x] ELSE <<word, x % 4>>
  BY Zenon DEF AnsweredByte
<1> HIDE DEF k, a, kept
<1>3. AnswerHeader(h)[2] \in Header
  <2> DEFINE f == (h.flags \cap {"CYC"})
                    \cup (IF "RFF" \in h.flags THEN {"WFF"} ELSE {})
                    \cup (IF "BCA" \in h.flags THEN {"WCA"} ELSE {})
             g == [flags |-> f, be |-> h.be, wcount |-> h.rcount, rcount |-> 0]
  <2>1. f \in SUBSET Flags  BY DEF Flags
  <2>2. h.be \in 0..15 /\ h.rcount \in 0..MaxCount /\ 0 \in 0..MaxCount
    BY WordsAssumption DEF Header
  <2>3. AnswerHeader(h)[2] = g  BY DEF AnswerHeader
  <2> HIDE DEF f
  <2>4. g \in Header  BY <2>1, <2>2 DEF Header
  <2> QED  BY <2>3, <2>4
<1>4. word[1] = "hdr" => word[2] \in Header
  <2>1. CASE k < a  BY <2>1, <1>1 DEF Zero
  <2>2. CASE k = a
    <3>1. word = AnswerHeader(h)  BY <2>2, <1>1
    <3> QED  BY <3>1, <1>3
  <2>3. CASE k > a
    <3> DEFINE w == WordAt(Slot(k))
    <3>1. word = Answer(space, w)  BY <2>3, <1>1
    <3>2. space # "hdr"  OBVIOUS
    <3> HIDE DEF space, w, word
    <3>3. Answer(space, w)[1] = space  BY DEF Answer
    <3> QED  BY <3>1, <3>2, <3>3
  <2> QED  BY <2>1, <2>2, <2>3, <1>1
<1> HIDE DEF word
<1> QED  BY <1>2, <1>4 DEF HeadersOK

\* One record: i and left move by the same number of bytes.
LEMMA RecordIInv == IInv /\ process_record => IInv'
<1> SUFFICES ASSUME IInv, process_record PROVE IInv'  OBVIOUS
<1> USE DEF IInv, cursors, user
<1>1. /\ pc = "process" /\ i \in 0..RING_SIZE - 1 /\ i % 4 = 0
      /\ left \in Nat /\ size \in Nat /\ Open /\ left <= size
      /\ processed \in Nat /\ processed < 2 * RING_SIZE
      /\ UNCHANGED <<cursors, pc, size, user>>
  <2>1. pc = "process" /\ UNCHANGED <<cursors, pc, size, user>>
    BY DEF process_record
  <2>2. /\ i \in 0..RING_SIZE - 1 /\ left \in Nat /\ size \in Nat
        /\ processed \in Position
    BY DEF TypeOK
  <2>3. Open /\ i % 4 = 0 /\ left <= size
    BY <2>1, <2>2 DEF ControlOK, WalkInStep
  <2> QED  BY <2>1, <2>2, <2>3, Sizes DEF Position
<1>2. PICK h \in HeadersOf(WordAt(i)) :
        /\ left >= RecordLen(h)
        /\ buf' = Answered(h)
        /\ i' = RING_INDEX(i + Walked(h))
        /\ left' = left - RecordLen(h)
        /\ state' = IF "CYC" \in h.flags THEN "idle" ELSE "cycle"
  BY DEF process_record
<1>3. h \in Header  BY <1>1, HeaderFound
<1>4. /\ RecordLen(h) \in Nat /\ RecordLen(h) <= RING_SIZE
      /\ RecordLen(h) % 4 = 0 /\ Walked(h) = RecordLen(h)
  BY <1>3, RecordSize, Sizes
<1>5. RING_PROC_LEN' = RING_PROC_LEN /\ RING_READ_LEN' = RING_READ_LEN
      /\ RING_WRITE_LEN' = RING_WRITE_LEN
  BY <1>1 DEF RING_PROC_LEN, RING_READ_LEN, RING_WRITE_LEN
<1>6. left' \in Nat /\ left' <= size
  BY <1>1, <1>2, <1>4
<1>7. i' \in 0..RING_SIZE - 1 /\ i' % 4 = 0
  <2>1. i + RecordLen(h) \in Nat /\ i + RecordLen(h) < 2 * RING_SIZE
        /\ (i + RecordLen(h)) % 4 = 0
    BY <1>1, <1>4, Sizes
  <2> QED  BY <2>1, <1>2, <1>4, IndexCases, Aligned, Sizes
<1>8. TypeOK'
  <2>1. buf' = [x \in 0..RING_SIZE - 1 |-> buf'[x]]
    BY <1>2 DEF Answered
  <2> QED  BY <2>1, <1>1, <1>2, <1>6, <1>7 DEF TypeOK
<1>9. HeadersOK'
  BY <1>1, <1>2, <1>3, AnsweredHeaders DEF HeadersOK, Answered
<1>10. UserOK' /\ ControlOK' /\ RingOrder'
  BY <1>1, <1>2, <1>5 DEF UserOK, ControlOK, RingOrder, Open
<1>11. WalkInStep'
  <2> DEFINE x == processed + size - left
  <2>1. size <= RING_SIZE
    BY <1>1, LengthBounds, Sizes DEF WalkInStep
  <2>2. x \in Nat /\ x < 3 * RING_SIZE
    BY <2>1, <1>1, Sizes
  <2>3. RING_INDEX(RING_INDEX(x) + RecordLen(h)) = RING_INDEX(x + RecordLen(h))
    <3> HIDE DEF x
    <3> QED  BY <2>2, <1>4, IndexAdvance
  <2>4. x + RecordLen(h) = processed + size - left'
    BY <1>1, <1>2, <1>4
  <2>5. i = RING_INDEX(x)  BY <1>1 DEF WalkInStep
  <2>6. i' = RING_INDEX(processed' + size' - left')
    BY <2>3, <2>4, <2>5, <1>1, <1>2, <1>4
  <2> QED  BY <2>6, <1>1, <1>5, <1>6, <1>7 DEF WalkInStep
<1> QED  BY <1>8, <1>9, <1>10, <1>11

\* The end of the loop moves processed over exactly what was walked.
LEMMA DoneIInv == IInv /\ process_done => IInv'
<1> SUFFICES ASSUME IInv, process_done PROVE IInv'  OBVIOUS
<1> USE DEF IInv, locals, user
<1> DEFINE n == size - left
<1>1. /\ pc = "process" /\ i \in 0..RING_SIZE - 1 /\ i % 4 = 0 /\ Open
      /\ left \in Nat /\ size \in Nat /\ left <= size /\ size = RING_PROC_LEN
      /\ sent \in Position /\ processed \in Position /\ received \in Position
      /\ processed \in Nat /\ processed < 2 * RING_SIZE
      /\ processed' = RING_POS(processed + size - left)
      /\ pc' = "unlocked" /\ fed \in Nat /\ taken \in Nat
      /\ UNCHANGED <<state, sent, received, buf, locals, bus, user>>
  <2>1. /\ pc = "process" /\ pc' = "unlocked"
        /\ processed' = RING_POS(processed + size - left)
        /\ UNCHANGED <<state, sent, received, buf, locals, bus, user>>
    BY DEF process_done
  <2>2. /\ i \in 0..RING_SIZE - 1 /\ left \in Nat /\ size \in Nat
        /\ sent \in Position /\ processed \in Position /\ received \in Position
        /\ fed \in Nat /\ taken \in Nat
    BY DEF TypeOK
  <2>3. Open /\ i % 4 = 0 /\ left <= size /\ size = RING_PROC_LEN
    BY <2>1, <2>2 DEF ControlOK, WalkInStep
  <2> QED  BY <2>1, <2>2, <2>3, Sizes DEF Position
<1>2. /\ RING_READ_LEN \in Nat /\ RING_PROC_LEN \in Nat
      /\ RING_READ_LEN + RING_PROC_LEN <= RING_SIZE
  BY <1>1, LengthBounds
<1>3. n \in Nat /\ n <= RING_PROC_LEN /\ n <= RING_SIZE
      /\ processed + size - left = processed + n
  BY <1>1, <1>2, Sizes
<1>4. left < MaxRecord
  <2>1. CASE left < 4  BY <2>1, <1>1, Sizes
  <2>2. CASE \E h \in HeadersOf(WordAt(i)) : left < RecordLen(h)
    <3>1. PICK h \in HeadersOf(WordAt(i)) : left < RecordLen(h)  BY <2>2
    <3>2. h \in Header  BY <1>1, HeaderFound
    <3> QED  BY <3>1, <3>2, <1>1, RecordSize, Sizes
  <2> QED  BY <2>1, <2>2 DEF process_done
<1>5. processed' = RING_POS(processed + n)  BY <1>1, <1>3
<1> HIDE DEF n
<1>6. sent' \in Position /\ processed' \in Position /\ received' \in Position
  BY <1>1, <1>3, <1>5, Advance
<1>7. RING_READ_LEN' = RING_READ_LEN + n /\ RING_PROC_LEN' = RING_PROC_LEN - n
  <2>1. /\ RING_READ_LEN = Ahead(processed, sent)
        /\ RING_PROC_LEN = Ahead(received, processed)
        /\ RING_READ_LEN' = Ahead(processed', sent)
        /\ RING_PROC_LEN' = Ahead(received, processed')
    BY <1>1, <1>6, Lengths, LengthsNext
  <2>2. RING_READ_LEN + n <= RING_SIZE  BY <1>2, <1>3, Sizes
  <2> QED  BY <2>1, <2>2, <1>1, <1>3, <1>5, Advance
<1>8. RING_PROC_LEN' = left
  BY <1>1, <1>2, <1>3, <1>7 DEF n
<1>9. TypeOK'
  BY <1>1, <1>6 DEF TypeOK
<1>10. HeadersOK' /\ UserOK' /\ ControlOK'
  BY <1>1, <1>4, <1>8 DEF HeadersOK, UserOK, ControlOK, Open
<1>11. RingOrder'
  <2>1. /\ taken' + RING_READ_LEN' + RING_PROC_LEN' = fed'
        /\ fed' - taken' <= RING_SIZE
    BY <1>1, <1>2, <1>3, <1>7 DEF RingOrder
  <2> QED  BY <2>1, <1>1, <1>6, RestOfRing
<1>12. processed' % 4 = 0
  <2> DEFINE x == processed + size - left
  <2>1. x \in Nat /\ x < 4 * RING_SIZE
    BY <1>1, <1>2, Sizes
  <2>2. RING_INDEX(x) % 4 = x % 4 /\ RING_POS(x) % 4 = x % 4
    <3> HIDE DEF x
    <3> QED  BY <2>1, Aligned
  <2> QED  BY <2>2, <1>1 DEF WalkInStep
<1>13. WalkInStep'
  BY <1>1, <1>12 DEF WalkInStep
<1> QED  BY <1>9, <1>10, <1>11, <1>13

\* Every step keeps the inductive invariant.
LEMMA NextIInv == IInv /\ [Next]_vars => IInv'
<1> SUFFICES ASSUME IInv, [Next]_vars PROVE IInv'  OBVIOUS
<1>1. CASE char_master_open  BY <1>1, OpenIInv
<1>2. CASE char_master_release  BY <1>2, ReleaseIInv
<1>3. ASSUME NEW n \in IovLens, char_master_aio_read(n) PROVE IInv'
  BY <1>3, ReadIInv
<1>4. ASSUME NEW n \in IovLens, char_master_aio_write(n) PROVE IInv'
  BY <1>4, WriteIInv
<1>5. CASE Process
  BY <1>5, WaitIInv, ProbeIInv, StartIInv, RecordIInv, DoneIInv DEF Process
<1>6. CASE UNCHANGED vars
  <2> USE <1>6 DEF IInv, vars, cursors, locals, user
  <2>1. TypeOK'  BY DEF TypeOK
  <2>2. HeadersOK' /\ UserOK'  BY DEF HeadersOK, UserOK
  <2>3. /\ RING_READ_LEN' = RING_READ_LEN /\ RING_PROC_LEN' = RING_PROC_LEN
        /\ RING_WRITE_LEN' = RING_WRITE_LEN
    BY DEF RING_READ_LEN, RING_PROC_LEN, RING_WRITE_LEN
  <2>4. ControlOK' /\ RingOrder' /\ WalkInStep'
    BY <2>3 DEF ControlOK, RingOrder, WalkInStep, Open
  <2> QED  BY <2>1, <2>2, <2>4
<1> QED  BY <1>1, <1>2, <1>3, <1>4, <1>5, <1>6 DEF Next

(***************************************************************************)
(* The theorems.                                                           *)
(***************************************************************************)
\* The inductive invariant holds in every reachable state.
THEOREM Invariance == Spec => []IInv
BY InitIInv, NextIInv, PTL DEF Spec

\* Every variable of an open master file keeps its type.
THEOREM TypeCorrect == Spec => []TypeOK
<1>1. IInv => TypeOK  BY DEF IInv
<1> QED  BY <1>1, Invariance, PTL

\* sent <= processed <= received for every ring size and record length, in
\* spite of the wrapping cursors and of copies from the user that fault.
THEOREM RingOrdered == Spec => []RingOrder
<1>1. IInv => RingOrder  BY DEF IInv
<1> QED  BY <1>1, Invariance, PTL

\* The word index and the bytes left of the process loop never drift apart.
THEOREM WalkStaysInStep == Spec => []WalkInStep
<1>1. IInv => WalkInStep  BY DEF IInv
<1> QED  BY <1>1, Invariance, PTL

\* No ring of at least the longest record can fill up and stay full: poll
\* always reports something.
THEOREM NeverWedged == Spec => []NoWedge
<1>1. IInv => NoWedge
  <2> SUFFICES ASSUME IInv, Open, pc = "unlocked" PROVE PollMask # {}
    BY DEF NoWedge
  <2>1. /\ RING_READ_LEN \in Nat /\ RING_PROC_LEN \in Nat
        /\ RING_WRITE_LEN = RING_SIZE - (RING_READ_LEN + RING_PROC_LEN)
    BY LengthBounds DEF IInv
  <2>2. RING_PROC_LEN < RING_SIZE
    BY <2>1, Sizes DEF IInv, ControlOK
  <2>3. RING_READ_LEN # 0 \/ RING_WRITE_LEN # 0
    BY <2>1, <2>2, Sizes
  <2> QED  BY <2>3 DEF PollMask
<1> QED  BY <1>1, Invariance, PTL

(***************************************************************************)
(* Which bytes of the ring a step may change.                              *)
(***************************************************************************)
\* Byte k after cursor a lies at this offset from cursor b.
LEMMA Offset ==
  ASSUME NEW a \in Position, NEW b \in Position,
         NEW k \in Nat, k < RING_SIZE, Ahead(b, a) <= RING_SIZE
  PROVE  LET x == RING_INDEX(a + k)
             d == IF k < Ahead(b, a) THEN RING_SIZE + (k - Ahead(b, a))
                  ELSE k - Ahead(b, a)
         IN  /\ x \in 0..RING_SIZE - 1
             /\ RING_INDEX(x - b) = d
             /\ RING_INDEX(x - RING_INDEX(b)) = d
<1> DEFINE e == Ahead(b, a)
           y == a + k
           x == RING_INDEX(y)
           d == IF k < e THEN RING_SIZE + (k - e) ELSE k - e
           u == x - b
           c == RING_INDEX(b)
           v == x - c
<1>1. /\ e \in Nat /\ (b = a + e \/ b = a + (e - 2 * RING_SIZE))
      /\ a \in Nat /\ b \in Nat
      /\ a < 2 * RING_SIZE /\ b < 2 * RING_SIZE
  BY AheadType, Sizes DEF Ahead, Position
<1>2. y \in Nat /\ y < 3 * RING_SIZE  BY <1>1, Sizes
<1> HIDE DEF e
<1>3. /\ x = IF y < RING_SIZE THEN y
             ELSE IF y < 2 * RING_SIZE THEN y - RING_SIZE
             ELSE y - 2 * RING_SIZE
      /\ x \in 0..RING_SIZE - 1
  <2> HIDE DEF y
  <2> QED  BY <1>2, IndexCases, Sizes
<1>4. /\ c = IF b < RING_SIZE THEN b ELSE b - RING_SIZE
      /\ c \in 0..RING_SIZE - 1
  BY <1>1, IndexCases, Sizes
<1> HIDE DEF x, c
<1>5. RING_INDEX(u) = IF u < -RING_SIZE THEN u + 2 * RING_SIZE
                      ELSE IF u < 0 THEN u + RING_SIZE ELSE u
  <2>1. u \in Int /\ -2 * RING_SIZE <= u /\ u < RING_SIZE
    BY <1>1, <1>3, Sizes
  <2> HIDE DEF u
  <2> QED  BY <2>1, IndexCases, Sizes
<1>6. RING_INDEX(v) = IF v < 0 THEN v + RING_SIZE ELSE v
  <2>1. v \in Int /\ -RING_SIZE <= v /\ v < RING_SIZE
    BY <1>3, <1>4, Sizes
  <2> HIDE DEF v
  <2> QED  BY <2>1, IndexCases, Sizes
<1>7. e <= RING_SIZE  BY DEF e
<1>8. RING_INDEX(u) = d
  BY <1>1, <1>2, <1>3, <1>5, <1>7, Sizes
<1>9. RING_INDEX(v) = d
  BY <1>1, <1>2, <1>3, <1>4, <1>6, <1>7, Sizes
<1> QED  BY <1>3, <1>8, <1>9 DEF x, c, e

\* Executing the record at i keeps every byte from the end of the record on.
LEMMA Beyond ==
  ASSUME NEW h \in Header, NEW x, NEW n \in Nat, n >= RecordLen(h),
         RING_INDEX(x - i) = n
  PROVE  AnsweredByte(h, x) = buf[x]
<1> DEFINE a == AnswerSlot(h)
           k == n \div 4
<1>1. /\ a \in Nat /\ h.rcount \in Nat
      /\ RecordLen(h) = 4 * (a + (IF h.rcount > 0 THEN 2 + h.rcount ELSE 1))
  BY WordsAssumption DEF Header, RecordLen, AnswerSlot, Bool
<1> HIDE DEF a
<1>2. k >= a + (IF h.rcount > 0 THEN 2 + h.rcount ELSE 1) /\ k \in Nat
  BY <1>1
<1>3. k = a + 1 \/ k > a + 1 + h.rcount
  BY <1>1, <1>2
<1> QED  BY <1>3 DEF AnsweredByte, a

\* What a write and a record leave of the bytes from sent up to processed,
\* and of the bytes from processed up to received.
LEMMA WriteKeeps ==
  ASSUME IInv, NEW n \in IovLens, char_master_aio_write(n),
         NEW k \in Nat, k < RING_READ_LEN + RING_PROC_LEN
  PROVE  LET x == RING_INDEX(sent + k) IN buf'[x] = buf[x]
<1> DEFINE x == RING_INDEX(sent + k)
           len == MinOf(RING_WRITE_LEN, n)
           e == Ahead(received, sent)
<1>1. /\ sent \in Position /\ processed \in Position /\ received \in Position
      /\ n \in Nat /\ Open
  BY RingAssumption DEF IInv, TypeOK, char_master_aio_write, Open
<1>2. /\ RING_READ_LEN \in Nat /\ RING_PROC_LEN \in Nat
      /\ RING_READ_LEN + RING_PROC_LEN <= RING_SIZE
      /\ RING_WRITE_LEN = RING_SIZE - (RING_READ_LEN + RING_PROC_LEN)
  BY <1>1, LengthBounds DEF IInv
<1>3. len \in Nat /\ len <= RING_WRITE_LEN
  BY <1>1, <1>2, Sizes DEF MinOf
<1>4. PICK m \in 0..len : buf' = Copied(m)
  BY <1>3 DEF char_master_aio_write, Copies
<1> HIDE DEF len
<1>5. e = RING_READ_LEN + RING_PROC_LEN
  BY <1>1, <1>2, Lengths, Sizes DEF Ahead, Position
<1>6. /\ x \in 0..RING_SIZE - 1
      /\ RING_INDEX(x - received) = RING_SIZE + (k - e)
  BY <1>1, <1>2, <1>5, Offset, Sizes
<1> HIDE DEF x, e
<1>7. ~(RING_INDEX(x - received) < m)
  BY <1>2, <1>3, <1>4, <1>5, <1>6, Sizes
<1>8. buf'[x] = buf[x]
  BY <1>4, <1>6, <1>7 DEF Copied
<1> QED  BY <1>8 DEF x

\* A record is executed behind the answers that wait to be read, and behind
\* those of the records before it.
LEMMA RecordKeeps ==
  ASSUME IInv, process_record, NEW k \in Nat, k < RING_READ_LEN + (size - left)
  PROVE  LET x == RING_INDEX(sent + k) IN buf'[x] = buf[x]
<1> DEFINE x == RING_INDEX(sent + k)
           n == size - left
           b == RING_POS(processed + n)
           e == Ahead(b, sent)
<1>1. /\ i \in 0..RING_SIZE - 1 /\ Open
      /\ left \in Nat /\ size \in Nat /\ left <= size /\ size = RING_PROC_LEN
      /\ sent \in Position /\ processed \in Position /\ received \in Position
      /\ processed \in Nat /\ processed < 2 * RING_SIZE
      /\ i = RING_INDEX(processed + size - left)
  <2>1. pc = "process"  BY DEF process_record
  <2>2. /\ i \in 0..RING_SIZE - 1 /\ left \in Nat /\ size \in Nat
        /\ sent \in Position /\ processed \in Position /\ received \in Position
    BY DEF IInv, TypeOK
  <2>3. /\ left <= size /\ size = RING_PROC_LEN /\ Open
        /\ i = RING_INDEX(processed + size - left)
    BY <2>1, <2>2 DEF IInv, WalkInStep, ControlOK
  <2> QED  BY <2>2, <2>3, Sizes DEF Position
<1>2. PICK h \in HeadersOf(WordAt(i)) :
        left >= RecordLen(h) /\ buf' = Answered(h)
  BY DEF process_record
<1>3. h \in Header /\ RecordLen(h) \in Nat
  BY <1>1, HeaderFound, RecordSize, Sizes DEF IInv
<1>4. /\ RING_READ_LEN \in Nat /\ RING_PROC_LEN \in Nat
      /\ RING_READ_LEN + RING_PROC_LEN <= RING_SIZE
  BY <1>1, LengthBounds DEF IInv
<1>5. /\ n \in Nat /\ n <= RING_PROC_LEN /\ n <= RING_SIZE
      /\ processed + size - left = processed + n
  BY <1>1, <1>4, Sizes
<1>6. n = size - left  OBVIOUS
<1> HIDE DEF n
<1>7. /\ b \in Position
      /\ e = RING_READ_LEN + n
  <2>1. RING_READ_LEN = Ahead(processed, sent)  BY <1>1, Lengths
  <2>2. Ahead(processed, sent) + n <= RING_SIZE  BY <2>1, <1>4, <1>5, Sizes
  <2> QED  BY <2>1, <2>2, <1>1, <1>5, Advance
<1>8. i = RING_INDEX(b)
  <2> DEFINE z == processed + n
  <2>1. z \in Nat /\ z < 4 * RING_SIZE  BY <1>1, <1>5, Sizes
  <2>2. RING_INDEX(RING_POS(z)) = RING_INDEX(z)
    <3> HIDE DEF z
    <3> QED  BY <2>1, IndexOfPos
  <2> QED  BY <2>2, <1>1, <1>5
<1> HIDE DEF b
<1>9. /\ x \in 0..RING_SIZE - 1
      /\ RING_INDEX(x - i) = RING_SIZE + (k - e)
  <2>1. e <= RING_SIZE /\ k < e /\ k < RING_SIZE
    BY <1>1, <1>4, <1>5, <1>6, <1>7, Sizes
  <2> QED  BY <2>1, <1>1, <1>7, <1>8, Offset
<1> HIDE DEF x, e
<1>10. RING_SIZE + (k - e) \in Nat /\ RING_SIZE + (k - e) >= RecordLen(h)
  BY <1>1, <1>2, <1>3, <1>4, <1>5, <1>6, <1>7, Sizes
<1>11. AnsweredByte(h, x) = buf[x]
  BY <1>3, <1>9, <1>10, Beyond
<1>12. buf'[x] = buf[x]
  BY <1>2, <1>9, <1>11 DEF Answered
<1> QED  BY <1>12 DEF x

\* No step changes an answer that is waiting to be read.
THEOREM AnswersAreStable == Spec => AnswersStable
<1> DEFINE Kept == Open /\ Open' =>
              \A k \in 0..RING_READ_LEN - 1 :
                buf'[RING_INDEX(sent + k)] = buf[RING_INDEX(sent + k)]
<1>1. IInv /\ [Next]_vars => [Kept]_vars
  <2> SUFFICES ASSUME IInv, Next, Open, Open',
                      NEW k \in 0..RING_READ_LEN - 1
               PROVE  buf'[RING_INDEX(sent + k)] = buf[RING_INDEX(sent + k)]
    OBVIOUS
  <2>1. /\ RING_READ_LEN \in Nat /\ RING_PROC_LEN \in Nat
    BY LengthBounds DEF IInv
  <2>2. k \in Nat /\ k < RING_READ_LEN /\ k < RING_READ_LEN + RING_PROC_LEN
    BY <2>1
  <2>3. CASE char_master_open \/ char_master_release
    BY <2>3 DEF char_master_open, char_master_release, Open
  <2>4. ASSUME NEW n \in IovLens, char_master_aio_read(n) PROVE buf' = buf
    BY <2>4 DEF char_master_aio_read
  <2>5. ASSUME NEW n \in IovLens, char_master_aio_write(n)
        PROVE  buf'[RING_INDEX(sent + k)] = buf[RING_INDEX(sent + k)]
    BY <2>2, <2>5, WriteKeeps
  <2>6. CASE process_wait \/ process_start \/ process_done
    BY <2>6 DEF process_wait, process_start, process_done
  <2>7. CASE process_probe
    <3>1. sent = 0 /\ processed = 0
      BY <2>7 DEF process_probe, IInv, ControlOK
    <3>2. RING_READ_LEN = 0
      BY <3>1, Lengths, Sizes DEF IInv, TypeOK, Ahead
    <3> QED  BY <2>2, <3>2
  <2>8. CASE process_record
    <3>1. left \in Nat /\ size \in Nat /\ left <= size
      BY <2>8 DEF process_record, IInv, TypeOK, WalkInStep
    <3>2. k < RING_READ_LEN + (size - left)
      BY <2>1, <2>2, <3>1
    <3> QED  BY <2>2, <2>8, <3>2, RecordKeeps
  <2> QED  BY <2>3, <2>4, <2>5, <2>6, <2>7, <2>8 DEF Next, Process
<1> QED  BY <1>1, Invariance, PTL DEF Spec, AnswersStable

(***************************************************************************)
(* The unprocessed bytes are the user's: StreamIntact, given IInv.         *)
(***************************************************************************)
\* A write appends the user's next bytes behind the unprocessed ones.
LEMMA WriteTail ==
  ASSUME IInv, StreamIntact, NEW n \in IovLens, char_master_aio_write(n)
  PROVE  StreamIntact'
<1> SUFFICES ASSUME stream' \notin Faulty, NEW k \in 0..RING_PROC_LEN' - 1
             PROVE  buf'[RING_INDEX(processed' + k)]
                      = StreamByte(stream', fed' - RING_PROC_LEN' + k)
  <2>1. pc' = "enter"  BY DEF char_master_aio_write
  <2> QED  BY <2>1 DEF StreamIntact
<1> DEFINE len == MinOf(RING_WRITE_LEN, n)
           x == RING_INDEX(processed + k)
           e == Ahead(received, processed)
<1>1. /\ sent \in Position /\ processed \in Position /\ received \in Position
      /\ fed \in Nat /\ taken \in Nat /\ n \in Nat /\ Open /\ pc = "unlocked"
  BY RingAssumption DEF IInv, TypeOK, char_master_aio_write, Open
<1>2. /\ RING_READ_LEN \in Nat /\ RING_PROC_LEN \in Nat
      /\ RING_READ_LEN + RING_PROC_LEN <= RING_SIZE
      /\ RING_WRITE_LEN = RING_SIZE - (RING_READ_LEN + RING_PROC_LEN)
  BY <1>1, LengthBounds DEF IInv
<1>3. len \in Nat /\ len <= RING_WRITE_LEN /\ len <= RING_SIZE
  BY <1>1, <1>2, Sizes DEF MinOf
<1>4. /\ received' = RING_POS(received + len) /\ fed' = fed + len
      /\ UNCHANGED <<sent, processed, stream>>
      /\ stream \notin Faulty
      /\ buf' = Copied(len)
  BY DEF char_master_aio_write, Copies
<1> HIDE DEF len
<1>5. e = RING_PROC_LEN  BY <1>1, Lengths
<1>6. RING_PROC_LEN' = RING_PROC_LEN + len
  <2>1. received' \in Position /\ processed' \in Position /\ sent' \in Position
    BY <1>1, <1>3, <1>4, Advance
  <2>2. Ahead(received, processed) + len <= RING_SIZE
    BY <1>2, <1>3, <1>5, Sizes
  <2>3. RING_PROC_LEN' = Ahead(received', processed)
    BY <2>1, <1>4, LengthsNext
  <2> QED  BY <2>2, <2>3, <1>1, <1>3, <1>4, <1>5, Advance
<1>7. k \in Nat /\ k < RING_PROC_LEN + len /\ k < RING_SIZE
  BY <1>2, <1>3, <1>6, Sizes
<1>8. /\ x \in 0..RING_SIZE - 1
      /\ RING_INDEX(x - received) =
           IF k < e THEN RING_SIZE + (k - e) ELSE k - e
  <2>1. e <= RING_SIZE  BY <1>2, <1>5, Sizes
  <2> QED  BY <2>1, <1>1, <1>7, Offset
<1>9. buf'[x] = IF RING_INDEX(x - received) < len
                THEN StreamByte(stream, fed + RING_INDEX(x - received))
                ELSE buf[x]
  BY <1>4, <1>8 DEF Copied
<1>10. x = RING_INDEX(processed + k)  OBVIOUS
<1> HIDE DEF x, e
<1>11. buf'[x] = StreamByte(stream, fed' - RING_PROC_LEN' + k)
  <2>1. CASE k < e
    <3>1. ~(RING_INDEX(x - received) < len)
      BY <2>1, <1>2, <1>3, <1>5, <1>7, <1>8, Sizes
    <3>2. buf[x] = StreamByte(stream, fed - RING_PROC_LEN + k)
      BY <2>1, <1>1, <1>2, <1>4, <1>5, <1>7, <1>10 DEF StreamIntact
    <3>3. fed - RING_PROC_LEN + k = fed' - RING_PROC_LEN' + k
      BY <1>1, <1>2, <1>3, <1>4, <1>6, <1>7
    <3> QED  BY <3>1, <3>2, <3>3, <1>9
  <2>2. CASE ~(k < e)
    <3>1. RING_INDEX(x - received) = k - e /\ k - e < len
      BY <2>2, <1>2, <1>3, <1>5, <1>7, <1>8
    <3>2. fed + (k - e) = fed' - RING_PROC_LEN' + k
      BY <1>1, <1>2, <1>3, <1>4, <1>5, <1>6, <1>7
    <3> QED  BY <3>1, <3>2, <1>9
  <2> QED  BY <2>1, <2>2
<1> QED  BY <1>4, <1>10, <1>11

\* A record's answers leave the bytes behind it alone.
LEMMA RecordBehind ==
  ASSUME IInv, process_record, NEW j \in Nat, left - left' <= j, j < left
  PROVE  LET x == RING_INDEX(i + j) IN buf'[x] = buf[x]
<1>1. pc = "process"
  BY DEF process_record
<1>2. /\ i \in 0..RING_SIZE - 1 /\ left \in Nat /\ size \in Nat
      /\ Open /\ left <= size /\ size = RING_PROC_LEN
  BY <1>1 DEF IInv, TypeOK, WalkInStep, ControlOK
<1>3. left <= RING_SIZE
  BY <1>2, LengthBounds, Sizes DEF IInv
<1>4. PICK h \in HeadersOf(WordAt(i)) :
        /\ left >= RecordLen(h)
        /\ buf' = Answered(h)
        /\ left' = left - RecordLen(h)
  BY DEF process_record
<1> DEFINE m == RecordLen(h)
           x == RING_INDEX(i + j)
<1>5. h \in Header /\ m \in Nat
  BY <1>2, HeaderFound, RecordSize, Sizes DEF IInv
<1>6. m <= j /\ j < RING_SIZE
  BY <1>2, <1>3, <1>4, <1>5, Sizes
<1> HIDE DEF m
<1>7. /\ x \in 0..RING_SIZE - 1
      /\ RING_INDEX(x - i) = j
  <2>1. i \in Position /\ Ahead(i, i) = 0
    BY <1>2, Sizes DEF Position, Ahead
  <2>2. /\ x \in 0..RING_SIZE - 1
        /\ RING_INDEX(x - i) = IF j < 0 THEN RING_SIZE + (j - 0) ELSE j - 0
    BY <2>1, <1>6, Offset, Sizes
  <2> QED  BY <2>2
<1> HIDE DEF x
<1>8. AnsweredByte(h, x) = buf[x]
  BY <1>5, <1>6, <1>7, Beyond DEF m
<1> QED  BY <1>4, <1>7, <1>8 DEF Answered, x

\* So it leaves the records behind it as the user sent them.
LEMMA RecordTail ==
  ASSUME IInv, StreamIntact, process_record
  PROVE  StreamIntact'
<1> SUFFICES ASSUME stream' \notin Faulty, NEW k \in 0..left' - 1
             PROVE  buf'[RING_INDEX(i' + k)]
                      = StreamByte(stream', fed' - left' + k)
  <2>1. pc' = "process"  BY DEF process_record
  <2> QED  BY <2>1 DEF StreamIntact
<1>1. pc = "process" /\ UNCHANGED <<stream, fed>>
  BY DEF process_record, user
<1>2. /\ i \in 0..RING_SIZE - 1 /\ left \in Nat /\ size \in Nat
      /\ fed \in Nat /\ Open /\ left <= size /\ size = RING_PROC_LEN
  BY <1>1 DEF IInv, TypeOK, WalkInStep, ControlOK
<1>3. left <= RING_SIZE
  BY <1>2, LengthBounds, Sizes DEF IInv
<1>4. PICK h \in HeadersOf(WordAt(i)) :
        /\ left >= RecordLen(h)
        /\ i' = RING_INDEX(i + Walked(h))
        /\ left' = left - RecordLen(h)
  BY DEF process_record
<1> DEFINE m == RecordLen(h)
           j == m + k
<1>5. h \in Header /\ m \in Nat /\ m <= RING_SIZE /\ Walked(h) = m
  BY <1>2, HeaderFound, RecordSize, Sizes DEF IInv
<1> HIDE DEF m
<1>6. k \in Nat /\ j \in Nat /\ j < left /\ j < RING_SIZE /\ left - left' <= j
  BY <1>2, <1>3, <1>4, <1>5, Sizes DEF m
<1>7. RING_INDEX(i' + k) = RING_INDEX(i + j)
  <2> DEFINE z == i + m
  <2>1. z \in Nat /\ z < 3 * RING_SIZE /\ k <= RING_SIZE
    BY <1>2, <1>5, <1>6, Sizes
  <2>2. RING_INDEX(RING_INDEX(z) + k) = RING_INDEX(z + k)
    <3> HIDE DEF z
    <3> QED  BY <2>1, <1>6, IndexAdvance
  <2>3. z + k = i + j  BY <1>2, <1>5, <1>6
  <2>4. i' = RING_INDEX(z)  BY <1>4, <1>5
  <2> QED  BY <2>2, <2>3, <2>4
<1>8. fed - left + j = fed' - left' + k
  BY <1>1, <1>2, <1>4, <1>5, <1>6 DEF m
<1> HIDE DEF j
<1>9. buf[RING_INDEX(i + j)] = StreamByte(stream, fed - left + j)
  BY <1>1, <1>2, <1>6 DEF StreamIntact
<1>10. buf'[RING_INDEX(i + j)] = buf[RING_INDEX(i + j)]
  BY <1>6, RecordBehind
<1> QED  BY <1>1, <1>7, <1>8, <1>9, <1>10

\* The probe answer consumes the first eight bytes of the stream.
LEMMA ProbeTail ==
  ASSUME IInv, StreamIntact, process_probe
  PROVE  StreamIntact'
<1> SUFFICES ASSUME stream' \notin Faulty, NEW k \in 0..RING_PROC_LEN' - 1
             PROVE  buf'[RING_INDEX(processed' + k)]
                      = StreamByte(stream', fed' - RING_PROC_LEN' + k)
  <2>1. pc' = "enter"  BY DEF process_probe
  <2> QED  BY <2>1 DEF StreamIntact
<1>1. /\ sent = 0 /\ processed = 0 /\ taken = 0 /\ received >= 8
      /\ sent' = 0 /\ processed' = 8 /\ UNCHANGED <<received, stream, fed>>
      /\ pc = "enter" /\ Open
      /\ buf' = [x \in 0..RING_SIZE - 1 |->
                  IF x < 4 THEN <<ProbeResp, x>> ELSE buf[x]]
  BY DEF process_probe, IInv, ControlOK, user, Open
<1>2. received \in Nat /\ received \in Position /\ 0 \in Position /\ 8 \in Position
      /\ fed \in Nat
  BY Sizes DEF IInv, TypeOK, Position
<1>3. RING_PROC_LEN = received /\ RING_PROC_LEN' = received - 8
  <2>1. RING_PROC_LEN = Ahead(received, 0) /\ RING_PROC_LEN' = Ahead(received, 8)
    BY <1>1, <1>2, Lengths, LengthsNext
  <2> QED  BY <2>1, <1>1, <1>2 DEF Ahead
<1>4. received <= RING_SIZE
  <2>1. RING_READ_LEN \in Nat /\ RING_READ_LEN + RING_PROC_LEN <= RING_SIZE
    BY <1>1, LengthBounds DEF IInv
  <2> QED  BY <2>1, <1>2, <1>3, Sizes
<1>5. 8 + k \in 0..RING_SIZE - 1 /\ 8 + k \in 0..RING_PROC_LEN - 1 /\ k \in Nat
  BY <1>2, <1>3, <1>4, Sizes
<1>6. RING_INDEX(8 + k) = 8 + k
  BY <1>5, IndexCases
<1>7. buf[RING_INDEX(0 + (8 + k))] = StreamByte(stream, fed - RING_PROC_LEN + (8 + k))
  BY <1>1, <1>5 DEF StreamIntact
<1>8. 0 + (8 + k) = 8 + k /\ fed - RING_PROC_LEN + (8 + k) = fed' - RING_PROC_LEN' + k
  BY <1>1, <1>2, <1>3, <1>5
<1>9. buf'[8 + k] = buf[8 + k]
  BY <1>1, <1>5
<1> QED  BY <1>1, <1>6, <1>7, <1>8, <1>9

\* The loop walks the bytes that were unprocessed before it.
LEMMA StartTail ==
  ASSUME IInv, StreamIntact, process_start
  PROVE  StreamIntact'
<1> SUFFICES ASSUME stream' \notin Faulty, NEW k \in 0..left' - 1
             PROVE  buf'[RING_INDEX(i' + k)]
                      = StreamByte(stream', fed' - left' + k)
  <2>1. pc' = "process"  BY DEF process_start
  <2> QED  BY <2>1 DEF StreamIntact
<1>1. /\ pc = "enter" /\ i' = RING_INDEX(processed) /\ left' = RING_PROC_LEN
      /\ UNCHANGED <<buf, stream, fed>> /\ Open
  BY DEF process_start, user, IInv, ControlOK
<1>2. /\ processed \in Nat /\ processed < 2 * RING_SIZE
  BY Sizes DEF IInv, TypeOK, Position
<1>3. k \in Nat /\ k <= RING_SIZE /\ k \in 0..RING_PROC_LEN - 1
  BY <1>1, LengthBounds, Sizes DEF IInv
<1>4. RING_INDEX(i' + k) = RING_INDEX(processed + k)
  BY <1>1, <1>2, <1>3, IndexAdvance, Sizes
<1> QED  BY <1>1, <1>3, <1>4 DEF StreamIntact

\* What the loop leaves is unprocessed after it.
LEMMA DoneLength ==
  ASSUME IInv, process_done
  PROVE  RING_PROC_LEN' = left
<1> DEFINE z == processed + size - left
           n == size - left
<1>1. /\ pc = "process" /\ processed' = RING_POS(z)
      /\ UNCHANGED <<sent, received>>
  BY DEF process_done
<1>2. /\ left \in Nat /\ size \in Nat /\ left <= size /\ size = RING_PROC_LEN
      /\ sent \in Position /\ processed \in Position /\ received \in Position
      /\ Open
  BY <1>1 DEF IInv, TypeOK, WalkInStep, ControlOK
<1>3. size <= RING_SIZE
  BY <1>2, LengthBounds, Sizes DEF IInv
<1>4. n \in Nat /\ n <= RING_SIZE /\ z = processed + n
  BY <1>2, <1>3, Sizes DEF Position
<1>5. n = size - left  OBVIOUS
<1> HIDE DEF z, n
<1>6. n <= Ahead(received, processed) /\ RING_PROC_LEN = Ahead(received, processed)
  BY <1>2, <1>5, Lengths
<1>7. processed' \in Position /\ Ahead(received, processed') = RING_PROC_LEN - n
  BY <1>1, <1>2, <1>4, <1>6, Advance
<1>8. RING_PROC_LEN' = Ahead(received, processed')
  BY <1>1, <1>2, <1>7, LengthsNext
<1> QED  BY <1>2, <1>5, <1>7, <1>8

\* It is what the user wrote.
LEMMA DoneTail ==
  ASSUME IInv, StreamIntact, process_done
  PROVE  StreamIntact'
<1> SUFFICES ASSUME stream' \notin Faulty, NEW k \in 0..RING_PROC_LEN' - 1
             PROVE  buf'[RING_INDEX(processed' + k)]
                      = StreamByte(stream', fed' - RING_PROC_LEN' + k)
  <2>1. pc' = "unlocked"  BY DEF process_done
  <2> QED  BY <2>1 DEF StreamIntact
<1> DEFINE z == processed + size - left
<1>1. /\ pc = "process" /\ processed' = RING_POS(z)
      /\ UNCHANGED <<buf, stream, fed>>
  BY DEF process_done, user
<1>2. /\ left \in Nat /\ size \in Nat /\ left <= size /\ size = RING_PROC_LEN
      /\ processed \in Position /\ i = RING_INDEX(z) /\ Open
  BY <1>1 DEF IInv, TypeOK, WalkInStep, ControlOK
<1>3. size <= RING_SIZE
  BY <1>2, LengthBounds, Sizes DEF IInv
<1>4. z \in Nat /\ z < 3 * RING_SIZE
  BY <1>2, <1>3, Sizes DEF Position
<1> HIDE DEF z
<1>5. RING_PROC_LEN' = left
  BY DoneLength
<1>6. k \in Nat /\ k <= RING_SIZE /\ k \in 0..left - 1
  BY <1>2, <1>3, <1>5, Sizes
<1>7. RING_INDEX(processed' + k) = RING_INDEX(i + k)
  <2>1. processed' \in Nat /\ processed' < 3 * RING_SIZE
    BY <1>1, <1>4, PosCases, Sizes DEF Position
  <2>2. RING_INDEX(processed' + k) = RING_INDEX(RING_INDEX(processed') + k)
    BY <2>1, <1>6, IndexAdvance
  <2>3. RING_INDEX(processed') = RING_INDEX(z)
    BY <1>1, <1>4, IndexOfPos, Sizes
  <2> QED  BY <2>2, <2>3, <1>2
<1> QED  BY <1>1, <1>2, <1>5, <1>6, <1>7 DEF StreamIntact

\* The accepted and unprocessed bytes are those the user wrote, for every
\* ring size, stream and sequence of calls, as long as no copy faults.
THEOREM StreamStaysIntact == Spec => []StreamIntact
<1>1. Init => StreamIntact
  BY DEF Init, StreamIntact, Open
<1>2. IInv /\ StreamIntact /\ [Next]_vars => StreamIntact'
  <2> SUFFICES ASSUME IInv, StreamIntact, [Next]_vars PROVE StreamIntact'
    OBVIOUS
  <2>1. CASE char_master_open
    <3>1. RING_PROC_LEN' = 0
      <4>1. sent' = 0 /\ processed' = 0 /\ received' = 0 /\ 0 \in Position
        BY <2>1, Sizes DEF char_master_open, Position
      <4> QED  BY <4>1, LengthsNext, Sizes DEF Ahead
    <3>2. pc' = "unlocked"
      <4>1. pc' = pc /\ state = "closed"  BY <2>1 DEF char_master_open
      <4>2. pc \in {"unlocked", "enter", "process"}  BY DEF IInv, TypeOK
      <4>3. pc \notin {"enter", "process"}  BY <4>1 DEF IInv, ControlOK, Open
      <4> QED  BY <4>1, <4>2, <4>3
    <3> QED  BY <3>1, <3>2 DEF StreamIntact
  <2>2. CASE char_master_release
    BY <2>2 DEF char_master_release, StreamIntact, Open
  <2>3. ASSUME NEW n \in IovLens, char_master_aio_read(n) PROVE StreamIntact'
    BY <2>3 DEF char_master_aio_read, StreamIntact, Open, RING_PROC_LEN, locals
  <2>4. ASSUME NEW n \in IovLens, char_master_aio_write(n) PROVE StreamIntact'
    BY <2>4, WriteTail
  <2>5. CASE process_wait
    BY <2>5 DEF process_wait, StreamIntact, Open, RING_PROC_LEN, cursors, user
  <2>6. CASE process_probe  BY <2>6, ProbeTail
  <2>7. CASE process_start  BY <2>7, StartTail
  <2>8. CASE process_record  BY <2>8, RecordTail
  <2>9. CASE process_done  BY <2>9, DoneTail
  <2>10. CASE UNCHANGED vars
    BY <2>10 DEF vars, StreamIntact, Open, RING_PROC_LEN, cursors, locals, user
  <2> QED  BY <2>1, <2>2, <2>3, <2>4, <2>5, <2>6, <2>7, <2>8, <2>9, <2>10
           DEF Next, Process
<1> QED  BY <1>1, <1>2, Invariance, PTL DEF Spec

(***************************************************************************)
(* The cycle line: what operations appended to a history do to it.         *)
(***************************************************************************)
Raise == <<"cycle", 1>>
Drop  == <<"cycle", 0>>

\* CycleUp and the first part of CycleBalanced, of any history b.
Up(b, n) == \E j \in 1..n : /\ b[j] = Raise
                            /\ \A m \in j + 1..n : b[m] # Drop

Alternates(b) ==
  \A n \in 1..Len(b) : IF b[n] = Raise THEN ~Up(b, n - 1) ELSE Up(b, n - 1)

LEMMA BalancedIs ==
  CycleBalanced <=> Alternates(bus) /\ (Up(bus, Len(bus)) <=> state = "cycle")
BY DEF CycleBalanced, CycleUp, Up, Alternates, Raise, Drop

\* Whether the line is up does not depend on what comes later.
LEMMA UpSoFar ==
  ASSUME NEW b, NEW c, NEW n \in Nat, \A k \in 1..n : c[k] = b[k]
  PROVE  Up(c, n) <=> Up(b, n)
BY DEF Up

\* One operation more, that raises the line if it is down and only then.
LEMMA OneMore ==
  ASSUME NEW S, NEW b \in Seq(S), NEW e \in S, Alternates(b),
         e = Raise <=> ~Up(b, Len(b))
  PROVE  /\ b \o <<e>> \in Seq(S)
         /\ Alternates(b \o <<e>>)
         /\ Up(b \o <<e>>, Len(b \o <<e>>)) <=> e # Drop
<1> DEFINE c == b \o <<e>>
           n == Len(b)
<1>1. n \in Nat
  BY LenProperties
<1>2. /\ c \in Seq(S) /\ Len(c) = n + 1
      /\ \A k \in 1..n : c[k] = b[k]
      /\ c[n + 1] = e
  <2>1. <<e>> \in Seq(S) /\ Len(<<e>>) = 1 /\ <<e>>[1] = e
    OBVIOUS
  <2>2. /\ c \in Seq(S) /\ Len(c) = n + 1
        /\ \A k \in 1..n + 1 : c[k] = IF k <= n THEN b[k] ELSE <<e>>[k - n]
    BY <2>1, ConcatProperties
  <2> HIDE DEF c, n
  <2>3. n + 1 \in 1..n + 1 /\ ~(n + 1 <= n) /\ (n + 1) - n = 1
    BY <1>1
  <2>4. c[n + 1] = e
    BY <2>1, <2>2, <2>3
  <2>5. \A k \in 1..n : c[k] = b[k]
    BY <1>1, <2>2
  <2> QED BY <2>2, <2>4, <2>5
<1> HIDE DEF c, n
<1>3. \A k \in 0..n : Up(c, k) <=> Up(b, k)
  BY <1>1, <1>2, UpSoFar
<1>4. Alternates(c)
  <2> SUFFICES ASSUME NEW k \in 1..n + 1
               PROVE  IF c[k] = Raise THEN ~Up(c, k - 1) ELSE Up(c, k - 1)
    BY <1>2 DEF Alternates
  <2>1. k - 1 \in 0..n
    BY <1>1
  <2>2. CASE k <= n
    <3>1. k \in 1..n
      BY <1>1, <2>2
    <3> QED BY <1>2, <1>3, <2>1, <3>1 DEF Alternates, n
  <2>3. CASE k = n + 1
    <3>1. k - 1 = n
      BY <1>1, <2>3
    <3> QED BY <1>2, <1>3, <2>1, <2>3, <3>1 DEF n
  <2> QED BY <1>1, <2>2, <2>3
<1>5. Up(c, n + 1) <=> e # Drop
  <2>0. Raise # Drop
    BY DEF Raise, Drop
  <2>1. CASE e = Drop
    <3>1. ~Up(c, n + 1)
      <4> SUFFICES ASSUME NEW j \in 1..n + 1, c[j] = Raise,
                          \A m \in j + 1..n + 1 : c[m] # Drop
                   PROVE  FALSE
        BY DEF Up
      <4>1. j # n + 1
        BY <1>2, <2>0, <2>1
      <4>2. n + 1 \in j + 1..n + 1
        BY <1>1, <4>1
      <4> QED BY <1>2, <2>1, <4>2
    <3> QED BY <2>1, <3>1
  <2>2. CASE e = Raise
    <3>1. n + 1 \in 1..n + 1 /\ \A m \in (n + 1) + 1..n + 1 : FALSE
      BY <1>1
    <3>2. Up(c, n + 1)
      BY <1>2, <2>2, <3>1 DEF Up
    <3> QED BY <2>0, <2>2, <3>2
  <2>3. CASE e # Drop /\ e # Raise
    <3>1. PICK j \in 1..n : b[j] = Raise /\ \A m \in j + 1..n : b[m] # Drop
      BY <2>3 DEF Up, n
    <3>2. j \in 1..n + 1 /\ c[j] = Raise
      BY <1>1, <1>2, <3>1
    <3>3. \A m \in j + 1..n + 1 : c[m] # Drop
      <4> SUFFICES ASSUME NEW m \in j + 1..n + 1 PROVE c[m] # Drop
        OBVIOUS
      <4>1. CASE m = n + 1
        BY <1>2, <2>3, <4>1
      <4>2. CASE m # n + 1
        <5>1. m \in j + 1..n /\ m \in 1..n
          BY <1>1, <4>2
        <5> QED BY <1>2, <3>1, <5>1
      <4> QED BY <4>1, <4>2
    <3> QED BY <2>3, <3>2, <3>3 DEF Up
  <2> QED BY <2>1, <2>2, <2>3
<1> QED BY <1>2, <1>4, <1>5 DEF c

\* Operations that do not touch the line, while it is up.
LEMMA Accesses ==
  ASSUME NEW S, NEW b \in Seq(S), NEW s \in Seq(S), Alternates(b),
         Up(b, Len(b)), \A k \in 1..Len(s) : s[k] # Raise /\ s[k] # Drop
  PROVE  /\ b \o s \in Seq(S)
         /\ Alternates(b \o s)
         /\ Up(b \o s, Len(b \o s))
<1> DEFINE c == b \o s
           n == Len(b)
           l == Len(s)
<1>1. n \in Nat /\ l \in Nat
  BY LenProperties
<1>2. /\ c \in Seq(S) /\ Len(c) = n + l
      /\ \A k \in 1..n : c[k] = b[k]
      /\ \A k \in n + 1..n + l : c[k] # Raise /\ c[k] # Drop
  <2>1. /\ c \in Seq(S) /\ Len(c) = n + l
        /\ \A k \in 1..n + l : c[k] = IF k <= n THEN b[k] ELSE s[k - n]
    BY ConcatProperties
  <2>2. \A k \in 1..l : s[k] # Raise /\ s[k] # Drop
    OBVIOUS
  <2> HIDE DEF c, n, l
  <2>3. \A k \in n + 1..n + l : k - n \in 1..l /\ k \in 1..n + l /\ ~(k <= n)
    BY <1>1
  <2>4. \A k \in 1..n : k \in 1..n + l
    BY <1>1
  <2> QED BY <2>1, <2>2, <2>3, <2>4
<1>3. PICK j \in 1..n : b[j] = Raise /\ \A m \in j + 1..n : b[m] # Drop
  BY DEF Up
<1> HIDE DEF c, n, l
<1>4. ASSUME NEW k \in n..n + l PROVE Up(c, k)
  <2>1. j \in 1..k /\ c[j] = Raise
    BY <1>1, <1>2, <1>3
  <2>2. \A m \in j + 1..k : m \in j + 1..n \/ m \in n + 1..n + l
    BY <1>1
  <2>3. \A m \in j + 1..n : m \in 1..n
    BY <1>1
  <2> QED BY <1>2, <1>3, <2>1, <2>2, <2>3 DEF Up
<1>5. Alternates(c)
  <2> SUFFICES ASSUME NEW k \in 1..n + l
               PROVE  IF c[k] = Raise THEN ~Up(c, k - 1) ELSE Up(c, k - 1)
    BY <1>2 DEF Alternates
  <2>1. CASE k <= n
    <3>1. k \in 1..n /\ k - 1 \in Nat /\ \A m \in 1..k - 1 : m \in 1..n
      BY <1>1, <2>1
    <3>2. Up(c, k - 1) <=> Up(b, k - 1)
      BY <1>2, <3>1, UpSoFar
    <3> QED BY <1>2, <3>1, <3>2 DEF Alternates, n
  <2>2. CASE k > n
    <3>1. k \in n + 1..n + l /\ k - 1 \in n..n + l
      BY <1>1, <2>2
    <3> QED BY <1>2, <1>4, <3>1
  <2> QED BY <1>1, <2>1, <2>2
<1>6. Up(c, n + l)
  <2>1. n + l \in n..n + l
    BY <1>1
  <2> QED BY <1>4, <2>1
<1> QED BY <1>2, <1>5, <1>6 DEF c

\* Pieces that are appended one by one may be put together first.
LEMMA AppendedTogether ==
  ASSUME NEW T, NEW b \in Seq(T), NEW p \in Seq(T), NEW x \in Seq(T)
  PROVE  p \o x \in Seq(T) /\ b \o (p \o x) = (b \o p) \o x
<1>1. p \o x \in Seq(T)
  BY ConcatProperties
<1>2. (b \o p) \o x = b \o (p \o x)
  BY ConcatAssociative
<1> QED BY <1>1, <1>2

After(p, x) == p \o x

LEMMA AppendedTo ==
  ASSUME NEW T, NEW b \in Seq(T)
  PROVE  \A p \in Seq(T), x \in Seq(T) :
            /\ After(p, x) \in Seq(T)
            /\ After(b, After(p, x)) = After(After(b, p), x)
BY AppendedTogether DEF After

\* Five pieces put together and then appended, and appended in turn.
AtOnce(b, A, E, W, R, C) ==
  After(b, After(After(After(After(A, E), W), R), C))

InTurn(b, A, E, W, R, C) ==
  After(After(After(After(After(b, A), E), W), R), C)

LEMMA PiecesTogether ==
  ASSUME NEW T, NEW b \in Seq(T), NEW A \in Seq(T), NEW E \in Seq(T),
         NEW W \in Seq(T), NEW R \in Seq(T), NEW C \in Seq(T)
  PROVE  AtOnce(b, A, E, W, R, C) = InTurn(b, A, E, W, R, C)
<1> DEFINE Q == Seq(T)
<1>1. b \in Q /\ A \in Q /\ E \in Q /\ W \in Q /\ R \in Q /\ C \in Q
  OBVIOUS
<1>2. \A p \in Q, x \in Q :
         /\ After(p, x) \in Q
         /\ After(b, After(p, x)) = After(After(b, p), x)
  BY <1>1, AppendedTo
<1> HIDE DEF Q
<1>3. /\ After(A, E) \in Q
      /\ After(b, After(A, E)) = After(After(b, A), E)
  BY Zenon, <1>1, <1>2
<1>4. /\ After(After(A, E), W) \in Q
      /\ After(b, After(After(A, E), W)) = After(After(After(b, A), E), W)
  BY <1>1, <1>2, <1>3
<1>5. /\ After(After(After(A, E), W), R) \in Q
      /\ After(b, After(After(After(A, E), W), R))
           = After(After(After(After(b, A), E), W), R)
  BY <1>1, <1>2, <1>4
<1> QED BY <1>1, <1>2, <1>5 DEF AtOnce, InTurn

\* The operations of one record take the line up, if it is not, and down
\* again if the record ends the cycle.
LEMMA RecordCycle ==
  ASSUME NEW S, NEW b \in Seq(S), NEW h \in Header,
         state \in {"idle", "cycle"}, Alternates(b),
         Up(b, Len(b)) <=> state = "cycle"
  PROVE  \E T : /\ b \o RecordOps(h) \in Seq(T)
                /\ Alternates(b \o RecordOps(h))
                /\ Up(b \o RecordOps(h), Len(b \o RecordOps(h)))
                     <=> "CYC" \notin h.flags
<1> DEFINE W == WriteOps(h)
           R == ReadOps(h)
           e == <<"byteenable", h.be>>
           A == IF state = "idle" THEN <<Raise>> ELSE <<>>
           C == IF "CYC" \in h.flags THEN <<Drop>> ELSE <<>>
           T == S \cup {Raise, Drop, e} \cup {W[k] : k \in 1..Len(W)}
                  \cup {R[k] : k \in 1..Len(R)}
<1>1. h.wcount \in Nat /\ h.rcount \in Nat
  BY WordsAssumption DEF Header
<1>2. /\ W \in Seq({W[k] : k \in 1..Len(W)})
      /\ \A k \in 1..Len(W) : W[k] # Raise /\ W[k] # Drop
  <2>1. CASE "WCA" \in h.flags
    BY <2>1 DEF WriteOps
  <2>2. CASE "WCA" \notin h.flags
    <3>1. \E f : /\ W = [k \in 1..h.wcount |-> f[k]]
                 /\ \A k \in 1..h.wcount : f[k][1] = "write"
      <4> DEFINE f == [k \in 1..h.wcount |->
              <<"write", (ValueOf(WordAt(Slot(1)))
                            + (IF "WFF" \in h.flags THEN 0 ELSE 4) * (k - 1))
                              % AddrSpace,
                WordAt(Slot(1 + k))>>]
      <4>1. W = f
        BY <2>2 DEF WriteOps
      <4>2. \A k \in 1..h.wcount : f[k][1] = "write"
        OBVIOUS
      <4> HIDE DEF f
      <4>3. f = [k \in 1..h.wcount |-> f[k]]
        BY DEF f
      <4> QED BY <4>1, <4>2, <4>3
    <3>2. PICK f : /\ W = [k \in 1..h.wcount |-> f[k]]
                   /\ \A k \in 1..h.wcount : f[k][1] = "write"
      BY <3>1
    <3> HIDE DEF W
    <3> DEFINE n == h.wcount
    <3>3. n \in Nat /\ W = [k \in 1..n |-> f[k]]
      BY <1>1, <3>2
    <3> HIDE DEF n
    <3>4. Len(W) = n
      BY <3>3
    <3>5. \A k \in 1..n : W[k] = f[k]
      BY <3>3
    <3>6. W \in [1..n -> {W[k] : k \in 1..n}]
      BY <3>3, <3>5
    <3>7. W \in Seq({W[k] : k \in 1..n})
      BY <3>3, <3>6, SeqDef
    <3>8. \A k \in 1..n : W[k] # Raise /\ W[k] # Drop
      <4>1. Raise[1] # "write" /\ Drop[1] # "write"
        BY DEF Raise, Drop
      <4> QED BY <3>2, <3>5, <4>1 DEF n
    <3> QED BY <3>4, <3>7, <3>8
  <2> QED BY <2>1, <2>2
<1>3. /\ R \in Seq({R[k] : k \in 1..Len(R)})
      /\ \A k \in 1..Len(R) : R[k] # Raise /\ R[k] # Drop
  <2>1. \E f : /\ R = [k \in 1..h.rcount |-> f[k]]
               /\ \A k \in 1..h.rcount : f[k][1] \in {"read_cfg", "read"}
    <3> DEFINE f == [k \in 1..h.rcount |->
            <<IF "RCA" \in h.flags THEN "read_cfg" ELSE "read",
              WordAt(Slot(AnswerSlot(h) + 1 + k))>>]
    <3>1. R = f
      BY DEF ReadOps
    <3>2. \A k \in 1..h.rcount : f[k][1] \in {"read_cfg", "read"}
      OBVIOUS
    <3> HIDE DEF f
    <3>3. f = [k \in 1..h.rcount |-> f[k]]
      BY DEF f
    <3> QED BY <3>1, <3>2, <3>3
  <2>2. PICK f : /\ R = [k \in 1..h.rcount |-> f[k]]
                 /\ \A k \in 1..h.rcount : f[k][1] \in {"read_cfg", "read"}
    BY <2>1
  <2> HIDE DEF R
  <2> DEFINE n == h.rcount
  <2>3. n \in Nat /\ R = [k \in 1..n |-> f[k]]
    BY <1>1, <2>2
  <2> HIDE DEF n
  <2>4. Len(R) = n
    BY <2>3
  <2>5. \A k \in 1..n : R[k] = f[k]
    BY <2>3
  <2>6. R \in [1..n -> {R[k] : k \in 1..n}]
    BY <2>3, <2>5
  <2>7. R \in Seq({R[k] : k \in 1..n})
    BY <2>3, <2>6, SeqDef
  <2>8. \A k \in 1..n : R[k] # Raise /\ R[k] # Drop
    <3>1. /\ Raise[1] \notin {"read_cfg", "read"}
          /\ Drop[1] \notin {"read_cfg", "read"}
      BY DEF Raise, Drop
    <3> QED BY <2>2, <2>5, <3>1 DEF n
  <2> QED BY <2>4, <2>7, <2>8
<1>4. e # Raise /\ e # Drop
  BY DEF Raise, Drop
<1>5. RecordOps(h) = (((A \o <<e>>) \o W) \o R) \o C
  BY DEF RecordOps, Raise, Drop
<1> HIDE DEF W, R, e
<1>6. /\ b \in Seq(T) /\ W \in Seq(T) /\ R \in Seq(T) /\ e \in T
      /\ Raise \in T /\ Drop \in T
  BY <1>2, <1>3, SeqMonotonic
<1> HIDE DEF T
<1>7. A \in Seq(T) /\ C \in Seq(T) /\ <<e>> \in Seq(T)
  BY <1>6
\* The line is taken up.
<1>8. /\ b \o A \in Seq(T) /\ Alternates(b \o A)
      /\ Up(b \o A, Len(b \o A))
  <2>1. CASE state = "idle"
    <3>1. ~Up(b, Len(b)) /\ Raise # Drop
      BY <2>1 DEF Raise, Drop
    <3>2. A = <<Raise>>
      BY <2>1
    <3> QED BY <1>6, <3>1, <3>2, OneMore
  <2>2. CASE state = "cycle"
    <3>1. A = <<>> /\ b \o <<>> = b
      BY <2>2, ConcatEmptySeq
    <3> QED BY <1>6, <2>2, <3>1
  <2> QED BY <2>1, <2>2
<1> HIDE DEF A
\* The accesses leave it there.
<1> DEFINE b1 == b \o A
           b2 == b1 \o <<e>>
           b3 == b2 \o W
           b4 == b3 \o R
           b5 == b4 \o C
<1>9. b2 \in Seq(T) /\ Alternates(b2) /\ Up(b2, Len(b2))
  BY <1>4, <1>6, <1>8, OneMore
<1>10. b3 \in Seq(T) /\ Alternates(b3) /\ Up(b3, Len(b3))
  <2> HIDE DEF b2
  <2> QED BY <1>2, <1>6, <1>9, Accesses
<1>11. b4 \in Seq(T) /\ Alternates(b4) /\ Up(b4, Len(b4))
  <2> HIDE DEF b3
  <2> QED BY <1>3, <1>6, <1>10, Accesses
\* It is taken down at the end of the cycle.
<1>12. b5 \in Seq(T) /\ Alternates(b5)
       /\ (Up(b5, Len(b5)) <=> "CYC" \notin h.flags)
  <2> HIDE DEF b4
  <2>1. CASE "CYC" \in h.flags
    <3>1. C = <<Drop>> /\ Drop # Raise
      BY <2>1 DEF Raise, Drop
    <3> QED BY <1>6, <1>11, <2>1, <3>1, OneMore
  <2>2. CASE "CYC" \notin h.flags
    <3>1. C = <<>>
      BY <2>2
    <3>2. b5 = b4
      BY <1>11, <3>1, ConcatEmptySeq
    <3> QED BY <1>11, <2>2, <3>2
  <2> QED BY <2>1, <2>2
<1>13. b5 = b \o RecordOps(h)
  <2>1. b \in Seq(T) /\ A \in Seq(T)
    BY <1>6, <1>7
  <2> HIDE DEF C
  <2>2. <<e>> \in Seq(T) /\ W \in Seq(T) /\ R \in Seq(T) /\ C \in Seq(T)
    BY <1>6, <1>7
  <2>3. b \o ((((A \o <<e>>) \o W) \o R) \o C)
          = ((((b \o A) \o <<e>>) \o W) \o R) \o C
    <3> HIDE DEF b1, b2, b3, b4, b5
    <3> DEFINE E == <<e>>
    <3>1. /\ b \in Seq(T) /\ A \in Seq(T) /\ E \in Seq(T)
          /\ W \in Seq(T) /\ R \in Seq(T) /\ C \in Seq(T)
      BY <2>1, <2>2
    <3> HIDE DEF E
    <3>2. AtOnce(b, A, E, W, R, C) = InTurn(b, A, E, W, R, C)
      BY <3>1, PiecesTogether
    <3> QED BY <3>2 DEF AtOnce, InTurn, After, E
  <2> QED BY Zenon, <1>5, <2>3
<1> HIDE DEF b5
<1> QED BY <1>12, <1>13

\* The cycle line is raised and dropped in turn, is up during every access and
\* down when the file is closed, whatever the user writes.
THEOREM CyclesBalanced == Spec => []CycleBalanced
<1> DEFINE History == \E S : bus \in Seq(S)
           CInv == History /\ CycleBalanced
<1>1. Init => CInv
  <2> SUFFICES ASSUME Init PROVE CInv
    OBVIOUS
  <2>1. bus = <<>> /\ Len(bus) = 0 /\ state = "closed"
    BY DEF Init
  <2>2. bus \in Seq({})
    BY <2>1
  <2> QED BY <2>1, <2>2 DEF CycleBalanced, CycleUp
<1>2. IInv /\ CInv /\ [Next]_vars => CInv'
  <2> SUFFICES ASSUME IInv, CInv, [Next]_vars PROVE CInv'
    OBVIOUS
  <2>0. /\ Alternates(bus) /\ (Up(bus, Len(bus)) <=> state = "cycle")
    BY BalancedIs
  <2>1. CASE char_master_open
    <3>1. bus' = <<>> /\ Len(bus') = 0 /\ state' = "header"
      BY <2>1 DEF char_master_open
    <3>2. bus' \in Seq({})
      BY <3>1
    <3> QED BY <3>1, <3>2 DEF CycleBalanced, CycleUp
  <2>2. CASE char_master_release
    <3>1. /\ state' = "closed"
          /\ bus' = IF state = "cycle" THEN Append(bus, Drop) ELSE bus
      BY <2>2 DEF char_master_release, Drop
    <3>2. CASE state = "cycle"
      <4>1. PICK S : bus \in Seq(S)
        OBVIOUS
      <4>2. bus \in Seq(S \cup {Drop})
        BY <4>1, SeqMonotonic
      <4>3. bus' = bus \o <<Drop>>
        BY <3>1, <3>2, <4>2, AppendIsConcat
      <4>4. Drop # Raise /\ Up(bus, Len(bus))
        BY <2>0, <3>2 DEF Drop, Raise
      <4>5. /\ bus' \in Seq(S \cup {Drop}) /\ Alternates(bus')
            /\ ~Up(bus', Len(bus'))
        BY <2>0, <4>2, <4>3, <4>4, OneMore
      <4>6. CycleBalanced'
        BY <3>1, <4>5 DEF CycleBalanced, CycleUp, Up, Alternates, Raise, Drop
      <4> QED BY <4>5, <4>6
    <3>3. CASE state # "cycle"
      BY <3>1, <3>3 DEF CycleBalanced, CycleUp
    <3> QED BY <3>2, <3>3
  <2>3. CASE process_record
    <3>1. pc = "process" /\ i \in 0..RING_SIZE - 1
      BY <2>3 DEF process_record, IInv, TypeOK
    <3>2. state \in {"idle", "cycle"}
      BY <3>1 DEF IInv, TypeOK, ControlOK, Open
    <3>3. PICK h \in HeadersOf(WordAt(i)) :
            /\ bus' = bus \o RecordOps(h)
            /\ state' = IF "CYC" \in h.flags THEN "idle" ELSE "cycle"
      BY <2>3 DEF process_record
    <3>4. h \in Header
      BY <3>1, HeaderFound DEF IInv
    <3>5. \E T : /\ bus' \in Seq(T) /\ Alternates(bus')
                 /\ Up(bus', Len(bus')) <=> "CYC" \notin h.flags
      BY <2>0, <3>2, <3>3, <3>4, RecordCycle
    <3>6. CycleBalanced'
      BY <3>3, <3>5 DEF CycleBalanced, CycleUp, Up, Alternates, Raise, Drop
    <3> QED BY <3>5, <3>6
  <2>4. CASE /\ bus' = bus
             /\ state' = "cycle" <=> state = "cycle"
    BY <2>4 DEF CycleBalanced, CycleUp
  <2>5. ASSUME NEW n \in IovLens,
               char_master_aio_read(n) \/ char_master_aio_write(n)
        PROVE  CInv'
    BY <2>4, <2>5 DEF char_master_aio_read, char_master_aio_write
  <2>6. CASE process_wait \/ process_probe \/ process_start \/ process_done
    BY <2>4, <2>6 DEF process_wait, process_probe, process_start, process_done
  <2>7. CASE UNCHANGED vars
    BY <2>4, <2>7 DEF vars
  <2> QED BY <2>1, <2>2, <2>3, <2>5, <2>6, <2>7 DEF Next, Process
<1> QED BY <1>1, <1>2, Invariance, PTL DEF Spec

(***************************************************************************)
(* An open master file implements the pipe of EtherbonePipe, for every     *)
(* ring size, stream, fault and sequence of calls.                         *)
(***************************************************************************)
\* Byte m after cursor b lies behind the bytes between a and b.
LEMMA Behind ==
  ASSUME NEW a \in Position, NEW b \in Position,
         NEW m \in Nat, Ahead(b, a) + m <= RING_SIZE
  PROVE  RING_INDEX(a + (Ahead(b, a) + m)) = RING_INDEX(b + m)
<1> DEFINE e == Ahead(b, a)
           y == a + (e + m)
           z == b + m
<1>1. /\ e \in Nat /\ (b = a + e \/ b = a + (e - 2 * RING_SIZE))
      /\ a \in Nat /\ b \in Nat
      /\ a < 2 * RING_SIZE /\ b < 2 * RING_SIZE
  BY AheadType, Sizes DEF Ahead, Position
<1>2. e + m <= RING_SIZE  OBVIOUS
<1> HIDE DEF e
<1>3. /\ y \in Nat /\ y < 3 * RING_SIZE
      /\ z \in Nat
      /\ y = z \/ y = z + 2 * RING_SIZE
  BY <1>1, <1>2, Sizes
<1> HIDE DEF y, z
<1>4. CASE y = z  BY <1>4 DEF e, y, z
<1>5. CASE y = z + 2 * RING_SIZE
  <2>1. z < RING_SIZE /\ y >= 2 * RING_SIZE  BY <1>3, <1>5, Sizes
  <2>2. RING_INDEX(z) = z  BY <2>1, <1>3, IndexCases, Sizes
  <2>3. RING_INDEX(y) = y - 2 * RING_SIZE  BY <2>1, <1>3, IndexCases, Sizes
  <2> QED  BY <2>2, <2>3, <1>3, <1>5, Sizes DEF e, y, z
<1> QED  BY <1>3, <1>4, <1>5

\* The three counts of an open file and the lengths of the ring.
LEMMA Counts ==
  ASSUME IInv, Open
  PROVE  /\ sent \in Position /\ processed \in Position /\ received \in Position
         /\ taken \in Nat /\ fed \in Nat /\ left \in Nat /\ size \in Nat
         /\ RING_READ_LEN \in Nat /\ RING_PROC_LEN \in Nat
         /\ RING_READ_LEN = Ahead(processed, sent)
         /\ taken + RING_READ_LEN + RING_PROC_LEN = fed
         /\ fed - taken <= RING_SIZE
         /\ Pending \in 0..RING_PROC_LEN
         /\ pc = "process" => /\ size = RING_PROC_LEN /\ left <= size
                              /\ i = RING_INDEX(processed + size - left)
                              /\ Pending = left
         /\ pc # "process" => Pending = RING_PROC_LEN
<1>1. /\ sent \in Position /\ processed \in Position /\ received \in Position
      /\ taken \in Nat /\ fed \in Nat /\ left \in Nat /\ size \in Nat
  BY DEF IInv, TypeOK
<1>2. RING_READ_LEN \in Nat /\ RING_PROC_LEN \in Nat
  BY LengthBounds DEF IInv
<1>3. /\ taken + RING_READ_LEN + RING_PROC_LEN = fed
      /\ fed - taken <= RING_SIZE
  BY DEF IInv, RingOrder
<1>4. pc = "process" => /\ size = RING_PROC_LEN /\ left <= size
                        /\ i = RING_INDEX(processed + size - left)
  BY <1>1 DEF IInv, WalkInStep
<1>5. /\ pc = "process" => Pending = left
      /\ pc # "process" => Pending = RING_PROC_LEN
  BY DEF Pending
<1>6. RING_READ_LEN = Ahead(processed, sent)  BY <1>1, Lengths
<1> QED  BY <1>1, <1>2, <1>3, <1>4, <1>5, <1>6

\* A step that moves no cursor of the tape keeps the bytes that it keeps in
\* the ring.
LEMMA SameSpan ==
  ASSUME UNCHANGED <<sent, taken, fed>>, NEW p \in taken..fed - 1,
         LET x == RING_INDEX(sent + (p - taken)) IN buf'[x] = buf[x]
  PROVE  Tape'[p] = Tape[p]
BY DEF Tape, RING_INDEX

\* A write appends to the tape.
LEMMA WriteAccepts ==
  ASSUME IInv, IInv', StreamIntact, StreamIntact',
         NEW n \in IovLens, char_master_aio_write(n)
  PROVE  Pipe!Accept
<1>1. /\ pc = "unlocked" /\ pc' = "enter" /\ Open /\ Open'
      /\ UNCHANGED <<sent, processed, stream, taken, out>>
  BY DEF char_master_aio_write, Open
<1>2. /\ taken \in Nat /\ fed \in Nat /\ fed' \in Nat
      /\ taken + RING_READ_LEN + RING_PROC_LEN = fed
      /\ RING_READ_LEN \in Nat /\ RING_PROC_LEN \in Nat
      /\ Pending = RING_PROC_LEN
  BY <1>1, Counts DEF IInv, TypeOK
<1>3. /\ RING_PROC_LEN' \in Nat /\ RING_READ_LEN' = RING_READ_LEN
      /\ taken + RING_READ_LEN + RING_PROC_LEN' = fed'
      /\ fed' - taken <= RING_SIZE
      /\ Pending' = RING_PROC_LEN'
  <2>1. RING_READ_LEN' = RING_READ_LEN  BY <1>1 DEF RING_READ_LEN
  <2>2. taken' + RING_READ_LEN' + RING_PROC_LEN' = fed' /\ fed' - taken' <= RING_SIZE
    BY <1>1 DEF IInv, RingOrder
  <2>3. Pending' = RING_PROC_LEN'  BY <1>1 DEF Pending
  <2>4. RING_PROC_LEN' \in Nat
    <3>1. /\ processed' \in Position /\ received' \in Position
          /\ sent' \in Position
      BY DEF IInv, TypeOK
    <3> QED  BY <3>1, LengthsNext, AheadType
  <2> QED  BY <2>1, <2>2, <2>3, <2>4, <1>1
<1>4. fed' >= fed
  <2>1. fed' = fed + MinOf(RING_WRITE_LEN, n) /\ n \in Nat
    BY RingAssumption DEF char_master_aio_write
  <2>2. RING_WRITE_LEN \in Nat
    BY <1>1, <1>2, LengthBounds, Sizes DEF IInv
  <2> QED  BY <2>1, <2>2, <1>2 DEF MinOf
<1>5. PICK end \in Nat, todo \in Nat : fed' = end /\ RING_PROC_LEN' = todo
  BY <1>2, <1>3
<1>6. /\ end >= fed /\ end \in fed..taken + RING_SIZE
      /\ taken + RING_READ_LEN + todo = end
      /\ end - todo = fed - Pending
  BY <1>2, <1>3, <1>4, <1>5, Sizes
<1>7. fed - Pending = fed' - Pending'
  <2>1. Pending' = todo  BY <1>3, <1>5
  <2> QED  BY <2>1, <1>5, <1>6
<1>8. DOMAIN Tape' = taken..end - 1
  BY <1>1, <1>5 DEF Tape
<1>9. ASSUME NEW p \in taken..fed - 1 PROVE Tape'[p] = Tape[p]
  <2>1. p - taken \in Nat /\ p - taken < RING_READ_LEN + RING_PROC_LEN
    BY <1>2
  <2>2. LET x == RING_INDEX(sent + (p - taken)) IN buf'[x] = buf[x]
    BY <2>1, WriteKeeps
  <2>3. p \in taken..end - 1
    BY <1>2, <1>6
  <2> QED  BY <2>2, <2>3, <1>1, <1>5 DEF Tape, RING_INDEX
<1>10. ASSUME stream \notin Faulty, NEW p \in fed..end - 1
       PROVE  Tape'[p] = StreamByte(stream, p)
  <2> DEFINE k == p - (taken + RING_READ_LEN)
  <2>1. /\ k \in 0..todo - 1 /\ p = end - todo + k /\ k \in Nat
        /\ p - taken = RING_READ_LEN + k /\ p \in taken..end - 1
        /\ RING_READ_LEN + k <= RING_SIZE
    BY <1>2, <1>6, Sizes
  <2> HIDE DEF k
  <2>2. buf'[RING_INDEX(processed + k)] = StreamByte(stream, p)
    <3>1. buf'[RING_INDEX(processed' + k)]
            = StreamByte(stream', fed' - RING_PROC_LEN' + k)
      BY <2>1, <1>1, <1>5, <1>10 DEF StreamIntact, RING_INDEX
    <3> QED  BY <3>1, <2>1, <1>1, <1>5
  <2>3. RING_INDEX(sent + (p - taken)) = RING_INDEX(processed + k)
    BY <2>1, <1>1, Counts, Behind
  <2>4. Tape'[p] = buf'[RING_INDEX(sent + (p - taken))]
    BY <2>1, <1>1, <1>5 DEF Tape, RING_INDEX
  <2> QED  BY <2>2, <2>3, <2>4
<1> QED  BY <1>1, <1>5, <1>6, <1>7, <1>8, <1>9, <1>10
         DEF Pipe!Accept, Pipe!Kept, Pipe!StreamByte, StreamByte

\* A read takes from the tape.
LEMMA ReadTakes ==
  ASSUME IInv, NEW n \in IovLens, char_master_aio_read(n)
  PROVE  Pipe!Take
<1> DEFINE len == MinOf(RING_READ_LEN, n)
<1>1. /\ pc = "unlocked" /\ pc' = "unlocked" /\ Open /\ n \in Nat
      /\ UNCHANGED <<processed, received, buf, fed>>
      /\ sent' = RING_POS(sent + len) /\ taken' = taken + len
      /\ out' = [k \in 1..taken + len |->
                   IF k <= taken THEN out[k]
                   ELSE buf[RING_INDEX(sent + (k - taken - 1))]]
  BY RingAssumption DEF char_master_aio_read, Open
<1>2. /\ taken \in Nat /\ fed \in Nat /\ sent \in Position
      /\ taken + RING_READ_LEN + RING_PROC_LEN = fed
      /\ RING_READ_LEN \in Nat /\ RING_PROC_LEN \in Nat
      /\ Pending = RING_PROC_LEN /\ fed - taken <= RING_SIZE
  BY <1>1, Counts
<1>3. len \in Nat /\ len <= RING_READ_LEN /\ len <= RING_SIZE
  BY <1>1, <1>2, Sizes DEF MinOf
<1> HIDE DEF len
<1>4. Pending' = Pending
  BY <1>1, <1>2 DEF Pending, RING_PROC_LEN, RING_POS
<1>5. taken' \in taken..fed - Pending
  BY <1>1, <1>2, <1>3
<1>6. DOMAIN Tape' = taken'..fed' - 1
  BY DEF Tape
<1>7. out' = [m \in 1..taken' |-> IF m <= taken THEN out[m] ELSE Tape[m - 1]]
  <2>1. ASSUME NEW m \in 1..taken + len, ~(m <= taken)
        PROVE  buf[RING_INDEX(sent + (m - taken - 1))] = Tape[m - 1]
    <3>1. m - 1 \in taken..fed - 1 /\ (m - 1) - taken = m - taken - 1
      BY <2>1, <1>2, <1>3
    <3> QED  BY <3>1 DEF Tape
  <2> QED  BY <2>1, <1>1
<1>8. ASSUME NEW p \in taken'..fed - 1 PROVE Tape'[p] = Tape[p]
  <2> DEFINE k == p - taken'
             r == RING_POS(sent + len)
  <2>1. /\ k \in Nat /\ len + k <= RING_SIZE /\ p - taken = len + k
        /\ p \in taken..fed - 1 /\ p \in taken'..fed' - 1
    BY <1>1, <1>2, <1>3, Sizes
  <2>2. r \in Position /\ Ahead(r, sent) = len
    <3>1. Ahead(sent, sent) = 0  BY <1>2, Sizes DEF Ahead, Position
    <3> QED  BY <3>1, <1>2, <1>3, Advance
  <2> HIDE DEF r, k
  <2>3. RING_INDEX(sent + (len + k)) = RING_INDEX(r + k)
    BY <2>1, <2>2, <1>2, Behind
  <2>4. Tape[p] = buf[RING_INDEX(sent + (p - taken))]
    BY <2>1 DEF Tape
  <2>5. Tape'[p] = buf[RING_INDEX(r + k)]
    BY <2>1, <1>1 DEF Tape, RING_INDEX, r, k
  <2> QED  BY <2>1, <2>3, <2>4, <2>5
<1> QED  BY <1>1, <1>4, <1>5, <1>6, <1>7, <1>8 DEF Pipe!Take, Pipe!Kept

\* The process loop and the reader see the ring bytes at the same places.
LEMMA SameTape ==
  ASSUME IInv, Open, pc = "process", NEW j \in Nat, j < left
  PROVE  RING_INDEX(sent + ((fed - left) + j - taken)) = RING_INDEX(i + j)
<1> DEFINE m == (size - left) + j
           z == processed + size - left
<1>1. /\ taken \in Nat /\ fed \in Nat /\ left \in Nat /\ size \in Nat
      /\ sent \in Position /\ processed \in Position
      /\ RING_READ_LEN \in Nat /\ RING_PROC_LEN \in Nat
      /\ RING_READ_LEN = Ahead(processed, sent)
      /\ taken + RING_READ_LEN + RING_PROC_LEN = fed
      /\ fed - taken <= RING_SIZE
      /\ size = RING_PROC_LEN /\ left <= size
      /\ i = RING_INDEX(z)
  BY Counts
<1>2. processed \in Nat /\ processed < 2 * RING_SIZE
  BY <1>1, Sizes DEF Position
<1>3. m \in Nat /\ m < size /\ j <= RING_SIZE
  BY <1>1, Sizes
<1>4. z \in Nat /\ z < 3 * RING_SIZE /\ z + j = processed + m
  BY <1>1, <1>2, Sizes
<1>5. /\ RING_READ_LEN + m <= RING_SIZE
      /\ (fed - left) + j - taken = RING_READ_LEN + m
  BY <1>1, Sizes
<1> HIDE DEF m, z
<1>6. RING_INDEX(sent + ((fed - left) + j - taken)) = RING_INDEX(processed + m)
  BY <1>1, <1>3, <1>5, Behind
<1>7. RING_INDEX(RING_INDEX(z) + j) = RING_INDEX(z + j)
  BY <1>3, <1>4, IndexAdvance
<1> QED  BY <1>1, <1>4, <1>6, <1>7

\* The record at the walk's place is executed in place.
LEMMA RecordExecutes ==
  ASSUME IInv, process_record
  PROVE  Pipe!Execute
<1>1. /\ pc = "process" /\ pc' = "process" /\ Open
      /\ UNCHANGED <<sent, processed, received, taken, fed, out>>
  BY DEF process_record, cursors, user, IInv, ControlOK
<1>2. /\ taken \in Nat /\ fed \in Nat /\ left \in Nat
      /\ sent \in Position /\ processed \in Position
      /\ RING_READ_LEN \in Nat /\ RING_PROC_LEN \in Nat
      /\ RING_READ_LEN = Ahead(processed, sent)
      /\ taken + RING_READ_LEN + RING_PROC_LEN = fed
      /\ fed - taken <= RING_SIZE
      /\ size = RING_PROC_LEN /\ left <= size
      /\ i = RING_INDEX(processed + size - left)
      /\ Pending = left
  BY <1>1, Counts
<1>3. PICK h \in HeadersOf(WordAt(i)) :
        left >= RecordLen(h) /\ left' = left - RecordLen(h)
  BY DEF process_record
<1>4. RecordLen(h) \in Nat
  <2>1. i \in 0..RING_SIZE - 1  BY DEF IInv, TypeOK
  <2> QED  BY <2>1, HeaderFound, RecordSize, Sizes DEF IInv
<1>5. PICK rest \in Nat : left' = rest /\ rest <= left
  BY <1>2, <1>3, <1>4
<1>6. Pending' = rest /\ fed - rest \in fed - left..fed
  <2>1. Pending' = rest  BY <1>1, <1>5 DEF Pending
  <2>2. fed \in Nat /\ left \in Nat  BY <1>2
  <2> QED  BY <2>1, <2>2, <1>5
<1>7. DOMAIN Tape' = taken'..fed' - 1
  BY DEF Tape
<1>8. ASSUME NEW p \in taken..fed - left - 1 PROVE Tape'[p] = Tape[p]
  <2>1. p - taken \in Nat /\ p - taken < RING_READ_LEN + (size - left)
    BY <1>2
  <2>2. LET x == RING_INDEX(sent + (p - taken)) IN buf'[x] = buf[x]
    BY <2>1, RecordKeeps
  <2>3. p \in taken..fed - 1  BY <1>2
  <2> QED  BY <2>2, <2>3, <1>1, SameSpan
<1>9. ASSUME NEW p \in fed - rest..fed - 1 PROVE Tape'[p] = Tape[p]
  <2> DEFINE j == p - (fed - left)
  <2>1. j \in Nat /\ left - rest <= j /\ j < left /\ p \in taken..fed - 1
    <3>1. rest \in Nat /\ rest <= left  BY <1>5
    <3>2. p \in fed - rest..fed - 1  BY <1>9
    <3> QED  BY <3>1, <3>2, <1>2
  <2>2. p - taken = (fed - left) + j - taken
    BY <2>1, <1>2
  <2> HIDE DEF j
  <2>3. RING_INDEX(sent + (p - taken)) = RING_INDEX(i + j)
    <3>1. RING_INDEX(sent + ((fed - left) + j - taken)) = RING_INDEX(i + j)
      BY <2>1, <1>1, SameTape
    <3> QED  BY <3>1, <2>2
  <2>4. LET x == RING_INDEX(i + j) IN buf'[x] = buf[x]
    BY <2>1, <1>5, RecordBehind
  <2> QED  BY <2>1, <2>3, <2>4, <1>1, SameSpan
<1> QED  BY <1>1, <1>2, <1>5, <1>6, <1>7, <1>8, <1>9
         DEF Pipe!Execute, Pipe!Kept

\* The number of bytes that are executed, or skipped as the probe.
Done == fed - Pending

\* The numbers of a file whose probe is answered.
LEMMA ProbeNumbers ==
  ASSUME IInv, process_probe
  PROVE  /\ state = "header" /\ Open /\ pc = "enter" /\ pc' = "enter"
         /\ sent = 0 /\ processed = 0 /\ taken = 0 /\ received >= 8
         /\ processed' = 8 /\ UNCHANGED <<sent, received, taken, fed, out>>
         /\ buf' = [x \in 0..RING_SIZE - 1 |->
                     IF x < 4 THEN <<ProbeResp, x>> ELSE buf[x]]
         /\ fed \in Nat /\ fed = received /\ fed >= 8 /\ fed <= RING_SIZE
         /\ RING_PROC_LEN = fed /\ Pending = fed /\ Pending' = fed - 8
         /\ Done = 0 /\ Done' = 8
<1>1. /\ sent = 0 /\ processed = 0 /\ taken = 0 /\ received >= 8
      /\ processed' = 8 /\ UNCHANGED <<sent, received, taken, fed, out>>
      /\ pc = "enter" /\ pc' = "enter" /\ Open /\ state = "header"
      /\ buf' = [x \in 0..RING_SIZE - 1 |->
                  IF x < 4 THEN <<ProbeResp, x>> ELSE buf[x]]
  BY DEF process_probe, IInv, ControlOK, user, Open
<1>2. /\ received \in Nat /\ received \in Position
      /\ 0 \in Position /\ 8 \in Position
  BY Sizes DEF IInv, TypeOK, Position
<1>3. /\ RING_READ_LEN = 0 /\ RING_PROC_LEN = received
      /\ RING_PROC_LEN' = received - 8
  <2>1. /\ RING_PROC_LEN = Ahead(received, 0)
        /\ RING_PROC_LEN' = Ahead(received, 8)
        /\ RING_READ_LEN = Ahead(0, 0)
    BY <1>1, <1>2, Lengths, LengthsNext
  <2> QED  BY <2>1, <1>1, <1>2 DEF Ahead
<1>4. fed = received /\ fed <= RING_SIZE /\ Pending = fed /\ Pending' = fed - 8
  <2>1. /\ fed = received /\ fed <= RING_SIZE
    BY <1>1, <1>2, <1>3, Counts, Sizes
  <2> QED  BY <2>1, <1>1, <1>3 DEF Pending
<1>5. Done = 0 /\ Done' = 8
  BY <1>1, <1>2, <1>4 DEF Done
<1> QED  BY <1>1, <1>2, <1>3, <1>4, <1>5

\* The probe is answered in the first eight bytes.
LEMMA ProbeExecutes ==
  ASSUME IInv, process_probe
  PROVE  Pipe!Execute
<1>1. /\ sent = 0 /\ taken = 0 /\ UNCHANGED <<sent, taken, fed, out>>
      /\ buf' = [x \in 0..RING_SIZE - 1 |->
                  IF x < 4 THEN <<ProbeResp, x>> ELSE buf[x]]
      /\ fed \in Nat /\ fed >= 8 /\ fed <= RING_SIZE
      /\ Pending = fed /\ Pending' = fed - 8
  BY ProbeNumbers
<1>2. DOMAIN Tape' = taken'..fed' - 1
  BY DEF Tape
<1>3. ASSUME NEW p \in 8..fed - 1 PROVE Tape'[p] = Tape[p]
  <2>1. p \in 0..RING_SIZE - 1 /\ ~(p < 4) /\ p \in taken..fed - 1
        /\ sent + (p - taken) = p
    BY <1>1, Sizes
  <2>2. RING_INDEX(p) = p  BY <2>1, IndexCases
  <2>3. buf'[p] = buf[p]  BY <2>1, <1>1
  <2> QED  BY <2>1, <2>2, <2>3, <1>1, SameSpan
<1>4. /\ fed - Pending = 0 /\ fed' - Pending' = 8
      /\ 8 \in 0..fed
  BY <1>1
<1>5. taken..(fed - Pending) - 1 = {}
  BY <1>1, <1>4
<1> QED  BY <1>1, <1>2, <1>3, <1>4, <1>5 DEF Pipe!Execute, Pipe!Kept

\* A new file is an empty tape.
LEMMA OpenOpens ==
  ASSUME IInv, char_master_open
  PROVE  Pipe!Open
<1>1. /\ sent' = 0 /\ processed' = 0 /\ received' = 0 /\ 0 \in Position
      /\ state = "closed" /\ state' = "header" /\ pc' = pc
      /\ fed' = 0 /\ taken' = 0 /\ out' = <<>>
  BY Sizes DEF char_master_open, Position
<1>2. RING_PROC_LEN' = 0
  BY <1>1, LengthsNext, Sizes DEF Ahead
<1>3. pc # "process"
  BY <1>1 DEF IInv, ControlOK, Open
<1>4. Pending' = 0
  BY <1>1, <1>2, <1>3 DEF Pending
<1>5. DOMAIN Tape' = {}
  <2>1. DOMAIN Tape' = taken'..fed' - 1  BY DEF Tape
  <2> QED  BY <2>1, <1>1
<1> QED  BY <1>1, <1>4, <1>5 DEF Pipe!Open

\* What neither moves a cursor of the tape nor the place of the walk.
LEMMA StaysInPlace ==
  ASSUME UNCHANGED <<state, sent, taken, fed, stream, out, buf>>,
         Pending' = Pending
  PROVE  UNCHANGED Pipe!pipe
<1>1. Tape' = Tape  BY DEF Tape, RING_INDEX
<1> QED  BY <1>1 DEF Pipe!pipe

\* Whatever users write and read, and wherever the ring wraps or a copy
\* faults, an open file is a pipe: the bytes are accepted, executed and read
\* in order, and no stage touches those of another.
THEOREM PipeImplemented == Spec => ImplementsPipe
<1>1. Init => Pipe!Init
  <2> SUFFICES ASSUME Init PROVE Pipe!Init  OBVIOUS
  <2>1. /\ state = "closed" /\ sent = 0 /\ processed = 0 /\ received = 0
        /\ fed = 0 /\ taken = 0 /\ out = <<>> /\ pc = "unlocked"
        /\ 0 \in Position
    BY Sizes DEF Init, Position
  <2>2. RING_PROC_LEN = 0
    BY <2>1, Lengths, Sizes DEF Ahead
  <2>3. Pending = 0  BY <2>1, <2>2 DEF Pending
  <2>4. DOMAIN Tape = {}
    <3>1. DOMAIN Tape = taken..fed - 1  BY DEF Tape
    <3> QED  BY <3>1, <2>1
  <2> QED  BY <2>1, <2>3, <2>4 DEF Pipe!Init
<1>2. IInv /\ IInv' /\ StreamIntact /\ StreamIntact' /\ [Next]_vars
        => [Pipe!Next]_Pipe!pipe
  <2> SUFFICES ASSUME IInv, IInv', StreamIntact, StreamIntact', [Next]_vars
               PROVE  Pipe!Next \/ UNCHANGED Pipe!pipe
    OBVIOUS
  <2>1. CASE char_master_open  BY <2>1, OpenOpens DEF Pipe!Next
  <2>2. CASE char_master_release
    <3>1. /\ state # "closed" /\ state' = "closed"
          /\ UNCHANGED <<sent, processed, received, taken, fed, stream, out,
                         buf, pc, left>>
      BY <2>2 DEF char_master_release, cursors, user, locals
    <3>2. Pending' = Pending
      BY <3>1 DEF Pending, RING_PROC_LEN, RING_POS
    <3>3. Tape' = Tape  BY <3>1 DEF Tape, RING_INDEX
    <3>4. Pipe!Close  BY <3>1, <3>2, <3>3 DEF Pipe!Close
    <3> QED  BY <3>4 DEF Pipe!Next
  <2>3. ASSUME NEW n \in IovLens, char_master_aio_read(n) PROVE Pipe!Next
    <3>1. state # "closed" /\ UNCHANGED <<state, stream>>
      BY <2>3 DEF char_master_aio_read
    <3> QED  BY <3>1, <2>3, ReadTakes DEF Pipe!Next
  <2>4. ASSUME NEW n \in IovLens, char_master_aio_write(n) PROVE Pipe!Next
    <3>1. state # "closed" /\ UNCHANGED <<state, stream>>
      BY <2>4 DEF char_master_aio_write
    <3> QED  BY <3>1, <2>4, WriteAccepts DEF Pipe!Next
  <2>5. CASE process_wait \/ process_start
    <3>1. /\ UNCHANGED <<state, sent, processed, received, taken, fed,
                         stream, out, buf>>
          /\ pc = "enter"
          /\ pc' = "process" => left' = RING_PROC_LEN
      BY <2>5 DEF process_wait, process_start, cursors, user, locals
    <3>2. Pending' = Pending
      BY <3>1 DEF Pending, RING_PROC_LEN, RING_POS
    <3> QED  BY <3>1, <3>2, StaysInPlace
  <2>6. CASE process_probe
    <3>1. UNCHANGED stream /\ state # "closed" /\ state' # "closed"
      BY <2>6 DEF process_probe, user
    <3> QED  BY <3>1, <2>6, ProbeExecutes DEF Pipe!Next
  <2>7. CASE process_record
    <3>1. /\ UNCHANGED stream /\ state # "closed" /\ state' # "closed"
      BY <2>7 DEF process_record, user, IInv, ControlOK, Open
    <3> QED  BY <3>1, <2>7, RecordExecutes DEF Pipe!Next
  <2>8. CASE process_done
    <3>1. /\ UNCHANGED <<state, sent, taken, fed, stream, out, buf>>
          /\ pc = "process" /\ pc' = "unlocked"
      BY <2>8 DEF process_done, user
    <3>2. Pending' = Pending
      BY <3>1, <2>8, DoneLength DEF Pending
    <3> QED  BY <3>1, <3>2, StaysInPlace
  <2>9. CASE UNCHANGED vars
    <3>1. UNCHANGED <<state, sent, processed, received, taken, fed,
                      stream, out, buf, pc, left>>
      BY <2>9 DEF vars, cursors, user, locals
    <3>2. Pending' = Pending
      BY <3>1 DEF Pending, RING_PROC_LEN, RING_POS
    <3> QED  BY <3>1, <3>2, StaysInPlace
  <2> QED  BY <2>1, <2>2, <2>3, <2>4, <2>5, <2>6, <2>7, <2>8, <2>9
           DEF Next, Process
<1> QED  BY <1>1, <1>2, Invariance, StreamStaysIntact, PTL
         DEF Spec, ImplementsPipe, Pipe!Spec

(***************************************************************************)
(* What an open file executes and answers is what its stream means.        *)
(* EtherboneMaster walks over the records in a ring, in the calls in which *)
(* they happen to arrive; EtherboneWords walks over the whole stream.      *)
(***************************************************************************)
(***************************************************************************)
(* Walks over a stream: functions defined by recursion, and what one step  *)
(* of them is.                                                             *)
(***************************************************************************)
\* A set of numbers that is not empty has a least one.
LEMMA Least ==
  ASSUME NEW T, T \subseteq Nat, T # {}
  PROVE  \E x \in T : \A y \in T : x <= y
<1> DEFINE R == {p \in Nat \X Nat : p[1] < p[2]}
<1>1. IsWellFoundedOn(R, Nat)
  BY NatLessThanWellFounded, Zenon DEF OpToRel
<1> HIDE DEF R
<1>2. PICK x \in T : \A y \in T : <<y, x>> \notin R
  BY <1>1, WFMin
<1>3. ASSUME NEW y \in T PROVE x <= y
  <2>1. x \in Nat /\ y \in Nat
    OBVIOUS
  <2>2. y < x => <<y, x>> \in R
    BY <2>1 DEF R
  <2>3. ~(y < x)
    BY <2>2, <1>2
  <2> QED BY <2>1, <2>3
<1> QED BY <1>3

\* The walk that goes from d to next[d] as long as whole[d], and puts the
\* pieces together; rank says how far d is.
Walk(f, D, whole, piece, next) ==
  f = [d \in D |-> IF whole[d] THEN piece[d] \o f[next[d]] ELSE <<>>]

\* There is such a walk: take the least k such that one can be defined from
\* rank k on.  That is how a function defined by recursion is shown to exist.
LEMMA WalkExists ==
  ASSUME NEW N \in Nat, NEW D, NEW rank \in [D -> 0..N],
         NEW whole, NEW piece, NEW next,
         \A d \in D : whole[d] => next[d] \in D /\ rank[next[d]] > rank[d]
  PROVE  \E f : Walk(f, D, whole, piece, next)
<1> DEFINE Part(f, k) ==
             f = [d \in D |-> IF rank[d] >= k
                              THEN IF whole[d] THEN piece[d] \o f[next[d]] ELSE <<>>
                              ELSE <<>>]
           K == {k \in Nat : \E f : Part(f, k)}
<1>1. N + 1 \in K
  <2> DEFINE g == [d \in D |-> <<>>]
  <2>1. \A d \in D : ~(rank[d] >= N + 1)  OBVIOUS
  <2>2. Part(g, N + 1)  BY <2>1
  <2> HIDE DEF g, Part
  <2> QED  BY <2>2
<1>2. ASSUME NEW k \in Nat, k + 1 \in K PROVE k \in K
  <2>1. PICK f : Part(f, k + 1)  BY <1>2
  <2> DEFINE g == [d \in D |-> IF rank[d] >= k
                               THEN IF whole[d] THEN piece[d] \o f[next[d]] ELSE <<>>
                               ELSE <<>>]
  <2>2. ASSUME NEW d \in D, rank[d] >= k, whole[d] PROVE g[next[d]] = f[next[d]]
    <3> DEFINE e == next[d]
    <3>1. e \in D /\ rank[e] >= k + 1 /\ rank[e] >= k  BY <2>2
    <3>2. f[e] = IF whole[e] THEN piece[e] \o f[next[e]] ELSE <<>>
      BY <2>1, <3>1
    <3>3. g[e] = IF whole[e] THEN piece[e] \o f[next[e]] ELSE <<>>
      BY <3>1
    <3> QED  BY <3>2, <3>3
  <2>3. Part(g, k)  BY <2>2
  <2> HIDE DEF g, Part
  <2> QED  BY <2>3
<1>3. PICK k \in K : \A m \in K : k <= m  BY <1>1, Least
<1>4. k = 0
  <2>1. k \in Nat  BY <1>3
  <2> HIDE DEF K
  <2>2. k # 0 => k - 1 \in Nat /\ (k - 1) + 1 = k  BY <2>1
  <2>3. k # 0 => k - 1 \in K  BY <2>2, <1>2, <1>3
  <2>4. k # 0 => ~(k <= k - 1)  BY <2>1
  <2> QED  BY <2>3, <2>4, <1>3
<1>5. PICK f : Part(f, 0)  BY <1>3, <1>4
<1>6. \A d \in D : rank[d] >= 0  OBVIOUS
<1>7. Walk(f, D, whole, piece, next)  BY <1>5, <1>6 DEF Walk
<1> QED  BY <1>7

\* It puts together what its pieces are made of.
LEMMA WalkType ==
  ASSUME NEW N \in Nat, NEW D, NEW rank \in [D -> 0..N],
         NEW whole, NEW piece, NEW next, NEW T, NEW f,
         \A d \in D : whole[d] => /\ next[d] \in D /\ rank[next[d]] > rank[d]
                                  /\ piece[d] \in Seq(T),
         Walk(f, D, whole, piece, next)
  PROVE  \A d \in D : f[d] \in Seq(T)
<1> DEFINE K == {N - rank[d] : d \in {e \in D : f[e] \notin Seq(T)}}
<1>1. K \subseteq Nat  OBVIOUS
<1> SUFFICES ASSUME K # {} PROVE FALSE  OBVIOUS
<1>2. PICK k \in K : \A m \in K : k <= m  BY <1>1, Least
<1>3. PICK d \in D : f[d] \notin Seq(T) /\ k = N - rank[d]  BY <1>2
<1>4. f[d] = IF whole[d] THEN piece[d] \o f[next[d]] ELSE <<>>
  BY DEF Walk
<1>5. whole[d]  BY <1>3, <1>4
<1> DEFINE e == next[d]
<1>6. e \in D /\ rank[e] > rank[d] /\ piece[d] \in Seq(T) /\ rank[e] \in 0..N /\ rank[d] \in 0..N
  BY <1>5
<1>7. f[e] \in Seq(T)
  <2>1. f[e] \notin Seq(T) => N - rank[e] \in K  BY <1>6
  <2>2. ~(k <= N - rank[e])  BY <1>3, <1>6
  <2> QED  BY <2>1, <2>2, <1>2
<1>8. piece[d] \o f[e] \in Seq(T)  BY <1>6, <1>7
<1> QED  BY <1>3, <1>4, <1>5, <1>8

\* The header of a record, and the parts it announces.
LEMMA HeaderType ==
  ASSUME NEW s \in Seq(Word), NEW p \in 1..Len(s)
  PROVE  /\ HeaderAt(s, p) \in Header
         /\ WritePart(HeaderAt(s, p)) \in Nat
         /\ ReadPart(HeaderAt(s, p)) \in Nat
         /\ RecordEnd(s, p) \in Nat /\ RecordEnd(s, p) > p
<1> DEFINE h == HeaderAt(s, p)
<1>1. s[p] \in Word  OBVIOUS
<1>2. s[p][1] = "hdr" => s[p][2] \in Header
  BY <1>1 DEF Word
<1>3. ZeroHeader \in Header
  BY WordsAssumption DEF ZeroHeader, Header
<1>4. h \in Header  BY <1>2, <1>3 DEF HeaderAt
<1>5. h.wcount \in Nat /\ h.rcount \in Nat  BY <1>4, WordsAssumption DEF Header
<1> HIDE DEF h
<1>6. WritePart(h) \in Nat /\ ReadPart(h) \in Nat
  BY <1>5 DEF WritePart, ReadPart
<1> QED  BY <1>4, <1>6 DEF RecordEnd, h

\* The words of an answer.
Answers == Word \cup {ProbeResp} \cup ({"cfg", "mem"} \X Word)

\* The answer to a record is as long as the record.
LEMMA RecordReplyType ==
  ASSUME NEW s \in Seq(Word), NEW n \in 0..Len(s), NEW p \in 1..n + 1,
         Whole(s, p, n)
  PROVE  /\ RecordReply(s, p) \in Seq(Answers)
         /\ Len(RecordReply(s, p)) = RecordEnd(s, p) - p
<1> DEFINE h == HeaderAt(s, p)
           W == WritePart(h)
           R == ReadPart(h)
           r == p + 1 + W
           back == [flags  |-> {f \in {"CYC", "WFF", "WCA"} :
                             \/ f = "CYC" /\ "CYC" \in h.flags
                             \/ f = "WFF" /\ "RFF" \in h.flags
                             \/ f = "WCA" /\ "BCA" \in h.flags},
               be     |-> h.be,
               wcount |-> h.rcount,
               rcount |-> 0]
           space == IF "RCA" \in h.flags THEN "cfg" ELSE "mem"
           A == [k \in 1..W |-> Zero]
           B == <<<<"hdr", back>>>>
           C == [k \in 1..R |->
                  IF k = 1 THEN s[r] ELSE Answer(space, s[r + k - 1])]
<1>1. p \in 1..Len(s) /\ RecordEnd(s, p) <= n + 1
  BY DEF Whole
<1>2. /\ h \in Header /\ W \in Nat /\ R \in Nat
      /\ RecordEnd(s, p) = p + 1 + W + R
  <2>1. RecordEnd(s, p) = p + 1 + W + R  BY DEF RecordEnd
  <2> QED  BY <1>1, <2>1, HeaderType
<1>3. back \in Header
  <2>1. h.be \in 0..15 /\ h.rcount \in 0..MaxCount /\ 0 \in 0..MaxCount
    BY <1>2, WordsAssumption DEF Header
  <2>2. {f \in {"CYC", "WFF", "WCA"} :
                             \/ f = "CYC" /\ "CYC" \in h.flags
                             \/ f = "WFF" /\ "RFF" \in h.flags
                             \/ f = "WCA" /\ "BCA" \in h.flags} \in SUBSET Flags
    BY DEF Flags
  <2> QED  BY <2>1, <2>2 DEF Header
<1>4. \A k \in 1..R : r + k - 1 \in 1..Len(s) /\ s[r + k - 1] \in Word
  BY <1>1, <1>2
<1>5. Zero \in Answers /\ <<"hdr", back>> \in Answers /\ Word \subseteq Answers
  <2>1. Zero \in Word  BY WordsAssumption DEF Zero, Word
  <2>2. <<"hdr", back>> \in Word  BY <1>3 DEF Word
  <2> QED  BY <2>1, <2>2 DEF Answers
<1>6. A \in Seq(Answers) /\ Len(A) = W
  BY <1>2, <1>5
<1>7. B \in Seq(Answers) /\ Len(B) = 1
  <2> HIDE DEF back
  <2> QED  BY <1>5
<1>8. C \in Seq(Answers) /\ Len(C) = R
  <2>1. \A k \in 1..R : Answer(space, s[r + k - 1]) \in Answers
    BY <1>4 DEF Answer, Answers
  <2>2. \A k \in 1..R : k = 1 => s[r] \in Answers
    BY <1>4, <1>5, <1>2
  <2>3. \A k \in 1..R : (IF k = 1 THEN s[r] ELSE Answer(space, s[r + k - 1])) \in Answers
    BY <2>1, <2>2
  <2> HIDE DEF r, space, R
  <2> QED  BY <2>3, <1>2
<1>9. RecordReply(s, p) = A \o B \o C
  BY DEF RecordReply
<1> HIDE DEF A, C, W, R
<1> HIDE DEF B
<1>10. A \o B \in Seq(Answers) /\ Len(A \o B) = W + 1
  <2>1. A \in Seq(Answers) /\ B \in Seq(Answers)  BY <1>6, <1>7
  <2>2. A \o B \in Seq(Answers) /\ Len(A \o B) = Len(A) + Len(B)
    BY <2>1, ConcatProperties
  <2> QED  BY <2>2, <1>6, <1>7, Zenon
<1>11. (A \o B) \o C \in Seq(Answers) /\ Len((A \o B) \o C) = (W + 1) + R
  BY <1>10, <1>8, ConcatProperties, Zenon
<1>12. Len(RecordReply(s, p)) = (W + 1) + R  BY <1>9, <1>11, Zenon
<1>13. (W + 1) + R = RecordEnd(s, p) - p  BY <1>2
<1> QED  BY <1>9, <1>11, <1>12, <1>13, Zenon

\* A record that is not whole answers nothing; a whole one is answered, and
\* then the records after it.
LEMMA ReplyUnfolds ==
  ASSUME NEW s \in Seq(Word), NEW n \in 0..Len(s), NEW p \in 1..n + 1
  PROVE  /\ ReplyFrom(s, n)[p] \in Seq(Answers)
         /\ ~Whole(s, p, n) => ReplyFrom(s, n)[p] = <<>>
         /\ Whole(s, p, n) =>
              ReplyFrom(s, n)[p]
                = RecordReply(s, p) \o ReplyFrom(s, n)[RecordEnd(s, p)]
<1> DEFINE D == 1..n + 1
           rank == [d \in D |-> d - 1]
           whole == [d \in D |-> Whole(s, d, n)]
           piece == [d \in D |-> RecordReply(s, d)]
           next == [d \in D |-> RecordEnd(s, d)]
           f == ReplyFrom(s, n)
<1>1. n \in Nat /\ rank \in [D -> 0..n]  OBVIOUS
<1>2. ASSUME NEW d \in D, whole[d]
      PROVE  /\ next[d] \in D /\ rank[next[d]] > rank[d]
             /\ piece[d] \in Seq(Answers)
  <2>1. Whole(s, d, n)  BY <1>2
  <2>2. d \in 1..Len(s) /\ RecordEnd(s, d) <= n + 1  BY <2>1 DEF Whole
  <2>3. RecordEnd(s, d) \in Nat /\ RecordEnd(s, d) > d  BY <2>2, HeaderType
  <2>4. RecordEnd(s, d) \in D  BY <2>2, <2>3
  <2>5. RecordReply(s, d) \in Seq(Answers)  BY <2>1, RecordReplyType
  <2> QED  BY <2>3, <2>4, <2>5
<1>3. \A g : Walk(g, D, whole, piece, next) <=>
             g = [d \in D |-> IF Whole(s, d, n)
                              THEN RecordReply(s, d) \o g[RecordEnd(s, d)]
                              ELSE <<>>]
  <2> TAKE g
  <2>1. [d \in D |-> IF whole[d] THEN piece[d] \o g[next[d]] ELSE <<>>]
          = [d \in D |-> IF Whole(s, d, n)
                         THEN RecordReply(s, d) \o g[RecordEnd(s, d)]
                         ELSE <<>>]
    OBVIOUS
  <2> HIDE DEF whole, piece, next
  <2> QED  BY <2>1 DEF Walk
<1>4. f = CHOOSE g : g = [d \in D |-> IF Whole(s, d, n)
                                      THEN RecordReply(s, d) \o g[RecordEnd(s, d)]
                                      ELSE <<>>]
  BY DEF ReplyFrom
<1> HIDE DEF rank, whole, piece, next, f
<1>5. \E g : Walk(g, D, whole, piece, next)
  BY <1>1, <1>2, WalkExists
<1>6. f = [d \in D |-> IF Whole(s, d, n)
                       THEN RecordReply(s, d) \o f[RecordEnd(s, d)]
                       ELSE <<>>]
  BY <1>3, <1>4, <1>5
<1>7. \A d \in D : f[d] \in Seq(Answers)
  <2>1. Walk(f, D, whole, piece, next)  BY <1>3, <1>6
  <2> HIDE DEF D
  <2>2. \A d \in D : whole[d] => /\ next[d] \in D /\ rank[next[d]] > rank[d]
                                 /\ piece[d] \in Seq(Answers)
    BY <1>2
  <2> QED  BY <2>1, <2>2, <1>1, WalkType
<1> QED  BY <1>6, <1>7 DEF f

\* The operations of a file on the bus.
Operations ==
  ({"cycle", "byteenable", "read", "read_cfg"} \X (Nat \cup Word))
    \cup ({"write"} \X Nat \X Word)

\* The five parts of what a record means.
LEMMA FiveParts ==
  ASSUME NEW T, NEW a \in Seq(T), NEW b \in Seq(T), NEW c \in Seq(T),
         NEW d \in Seq(T), NEW e \in Seq(T)
  PROVE  a \o b \o c \o d \o e \in Seq(T)
<1>1. a \o b \in Seq(T)  BY ConcatProperties
<1>2. (a \o b) \o c \in Seq(T)  BY <1>1, ConcatProperties
<1>3. ((a \o b) \o c) \o d \in Seq(T)  BY <1>2, ConcatProperties
<1>4. (((a \o b) \o c) \o d) \o e \in Seq(T)  BY <1>3, ConcatProperties
<1> QED  BY <1>4

\* A record causes operations on the bus.
LEMMA RecordMeaningType ==
  ASSUME NEW s \in Seq(Word), NEW n \in 0..Len(s), NEW p \in 1..n + 1,
         NEW raise \in BOOLEAN, Whole(s, p, n)
  PROVE  RecordMeaning(s, p, raise) \in Seq(Operations)
<1> DEFINE h == HeaderAt(s, p)
           W == WritePart(h)
           R == ReadPart(h)
           r == p + 1 + W
           inc == IF "WFF" \in h.flags THEN 0 ELSE 4
           base == ValueOf(s[p + 1])
           wr(k) == <<"write", (base + inc * (k - 1)) % AddrSpace,
                      s[p + 1 + k]>>
           rd(k) == <<IF "RCA" \in h.flags THEN "read_cfg" ELSE "read", s[r + k]>>
           wn == IF "WCA" \in h.flags THEN 0 ELSE h.wcount
           A == IF raise THEN <<<<"cycle", 1>>>> ELSE <<>>
           B == <<<<"byteenable", h.be>>>>
           C == [k \in 1..wn |-> wr(k)]
           E == [k \in 1..h.rcount |-> rd(k)]
           F == IF "CYC" \in h.flags THEN <<<<"cycle", 0>>>> ELSE <<>>
<1>1. p \in 1..Len(s) /\ RecordEnd(s, p) <= n + 1
  BY DEF Whole
<1>2. /\ h \in Header /\ W \in Nat /\ R \in Nat
      /\ RecordEnd(s, p) = p + 1 + W + R
      /\ h.wcount \in Nat /\ h.rcount \in Nat /\ h.be \in Nat
      /\ h.wcount > 0 => W = 1 + h.wcount
      /\ h.rcount > 0 => R = 1 + h.rcount
  <2>1. RecordEnd(s, p) = p + 1 + W + R  BY DEF RecordEnd
  <2>2. h \in Header /\ W \in Nat /\ R \in Nat  BY <1>1, HeaderType
  <2>3. h.wcount \in Nat /\ h.rcount \in Nat /\ h.be \in Nat
    <3>1. h.wcount \in 0..MaxCount /\ h.rcount \in 0..MaxCount /\ h.be \in 0..15
      BY <2>2 DEF Header
    <3> HIDE DEF h
    <3> QED  BY <3>1, WordsAssumption
  <2>4. /\ h.wcount > 0 => W = 1 + h.wcount
        /\ h.rcount > 0 => R = 1 + h.rcount
    BY <2>3 DEF WritePart, ReadPart
  <2> QED  BY <2>1, <2>2, <2>3, <2>4
<1> HIDE DEF h, W, R
<1>3. \A k \in 1..h.wcount : s[p + 1 + k] \in Word
  BY <1>1, <1>2
<1>4. \A k \in 1..h.rcount : s[r + k] \in Word
  BY <1>1, <1>2
<1>5. A \in Seq(Operations) /\ F \in Seq(Operations) /\ B \in Seq(Operations)
  <2>1. \A x \in Nat : <<"cycle", x>> \in Operations /\ <<"byteenable", x>> \in Operations
    BY DEF Operations
  <2>2. <<"cycle", 0>> \in Operations /\ <<"cycle", 1>> \in Operations
        /\ <<"byteenable", h.be>> \in Operations
    BY <2>1, <1>2
  <2> QED  BY <2>2
<1>6. C \in Seq(Operations)
  <2>1. wn \in Nat /\ 1..wn \subseteq 1..h.wcount  BY <1>2
  <2>2. ASSUME NEW k \in 1..h.wcount PROVE wr(k) \in Operations
    <3>1. s[p + 1] \in Word
      BY <1>1, <1>2
    <3>2. base \in Nat
      BY <3>1, WordsAssumption DEF ValueOf, Word
    <3>3. inc \in {0, 4}  OBVIOUS
    <3> HIDE DEF base, inc
    <3>4. (base + inc * (k - 1)) % AddrSpace \in Nat
      <4>1. base + inc * (k - 1) \in Nat
        BY <3>2, <3>3, <1>2
      <4> QED  BY <4>1, WordsAssumption
    <3>5. s[p + 1 + k] \in Word  BY <1>3
    <3> QED  BY <3>4, <3>5 DEF Operations
  <2> HIDE DEF wn, wr
  <2> QED  BY <2>1, <2>2
<1>7. E \in Seq(Operations)
  <2>2. ASSUME NEW k \in 1..h.rcount PROVE rd(k) \in Operations
    <3>5. s[r + k] \in Word  BY <1>4
    <3> QED  BY <3>5 DEF Operations
  <2> HIDE DEF rd
  <2> QED  BY <2>2, <1>2
<1>8. RecordMeaning(s, p, raise) = A \o B \o C \o E \o F
  BY DEF RecordMeaning, h, W
<1> HIDE DEF A, B, C, E, F
<1>9. A \o B \o C \o E \o F \in Seq(Operations)
  BY <1>5, <1>6, <1>7, FiveParts
<1> QED  BY <1>8, <1>9

\* What a stream means from a word on: the record there, and what follows.
LEMMA MeaningUnfolds ==
  ASSUME NEW s \in Seq(Word), NEW n \in 0..Len(s), NEW p \in 1..n + 1,
         NEW raise \in BOOLEAN
  PROVE  /\ MeaningFrom(s, n)[<<p, raise>>] \in Seq(Operations)
         /\ ~Whole(s, p, n) => MeaningFrom(s, n)[<<p, raise>>] = <<>>
         /\ Whole(s, p, n) =>
              MeaningFrom(s, n)[<<p, raise>>]
                = RecordMeaning(s, p, raise) \o MeaningFrom(s, n)[Following(s, p)]
<1> DEFINE D == (1..n + 1) \X BOOLEAN
           rank == [d \in D |-> d[1] - 1]
           whole == [d \in D |-> Whole(s, d[1], n)]
           piece == [d \in D |-> RecordMeaning(s, d[1], d[2])]
           next == [d \in D |-> Following(s, d[1])]
           f == MeaningFrom(s, n)
<1>1. n \in Nat /\ rank \in [D -> 0..n]  OBVIOUS
<1>2. ASSUME NEW d \in D, whole[d]
      PROVE  /\ next[d] \in D /\ rank[next[d]] > rank[d]
             /\ piece[d] \in Seq(Operations)
  <2>1. Whole(s, d[1], n) /\ d[1] \in 1..n + 1 /\ d[2] \in BOOLEAN  BY <1>2
  <2>2. d[1] \in 1..Len(s) /\ RecordEnd(s, d[1]) <= n + 1  BY <2>1 DEF Whole
  <2>3. RecordEnd(s, d[1]) \in Nat /\ RecordEnd(s, d[1]) > d[1]  BY <2>2, HeaderType
  <2>4. Following(s, d[1]) \in D /\ Following(s, d[1])[1] > d[1]
    <3>1. RecordEnd(s, d[1]) \in 1..n + 1  BY <2>2, <2>3
    <3>2. ("CYC" \in HeaderAt(s, d[1]).flags) \in BOOLEAN  OBVIOUS
    <3>3. Following(s, d[1]) \in D  BY <3>1, <3>2, Zenon DEF Following
    <3> QED  BY <3>3, <2>3 DEF Following
  <2>5. RecordMeaning(s, d[1], d[2]) \in Seq(Operations)  BY <2>1, RecordMeaningType
  <2>6. next[d] \in D /\ rank[next[d]] > rank[d]  BY <2>4
  <2> QED  BY <2>5, <2>6
<1>3. \A g : Walk(g, D, whole, piece, next) <=>
             g = [d \in D |-> IF Whole(s, d[1], n)
                              THEN RecordMeaning(s, d[1], d[2]) \o g[Following(s, d[1])]
                              ELSE <<>>]
  <2> TAKE g
  <2>1. [d \in D |-> IF whole[d] THEN piece[d] \o g[next[d]] ELSE <<>>]
          = [d \in D |-> IF Whole(s, d[1], n)
                         THEN RecordMeaning(s, d[1], d[2]) \o g[Following(s, d[1])]
                         ELSE <<>>]
    OBVIOUS
  <2> HIDE DEF whole, piece, next
  <2> QED  BY <2>1 DEF Walk
<1>4. f = CHOOSE g : g = [d \in D |-> IF Whole(s, d[1], n)
                                      THEN RecordMeaning(s, d[1], d[2])
                                             \o g[Following(s, d[1])]
                                      ELSE <<>>]
  BY DEF MeaningFrom
<1> HIDE DEF rank, whole, piece, next, f
<1>5. \E g : Walk(g, D, whole, piece, next)
  BY <1>1, <1>2, WalkExists
<1>6. f = [d \in D |-> IF Whole(s, d[1], n)
                       THEN RecordMeaning(s, d[1], d[2]) \o f[Following(s, d[1])]
                       ELSE <<>>]
  BY <1>3, <1>4, <1>5
<1>7. \A d \in D : f[d] \in Seq(Operations)
  <2>1. Walk(f, D, whole, piece, next)  BY <1>3, <1>6
  <2> HIDE DEF D
  <2>2. \A d \in D : whole[d] => /\ next[d] \in D /\ rank[next[d]] > rank[d]
                                 /\ piece[d] \in Seq(Operations)
    BY <1>2
  <2> QED  BY <2>1, <2>2, <1>1, WalkType
<1>8. <<p, raise>> \in D /\ <<p, raise>>[1] = p /\ <<p, raise>>[2] = raise
  OBVIOUS
<1> QED  BY <1>6, <1>7, <1>8 DEF f

(***************************************************************************)
(* The walk over the ring and the walk over the stream.                    *)
(***************************************************************************)
\* Every stream that can be copied consists of records.
StreamsParse == \A s \in Streams \ Faulty : \E S : Parse(s, S)

\* The words of a stream at which records start.
Starts(s) == CHOOSE S : Parse(s, S)

\* The word of the stream before which the executed bytes end, and if the
\* record there raises the cycle line.
Here   == (Done \div 4) + 1
Raised == state # "cycle"

\* An open file whose stream can be copied.
Sound == Open /\ stream \notin Faulty

\* The process stops between records of the stream.
AtRecord ==
  Sound => /\ stream \in Streams /\ Done % 4 = 0
           /\ state = "header" => Done = 0
           /\ state # "header" => Done >= 8 /\ Here \in Starts(stream)

\* However much of the stream is there in the end, what it means is what was
\* executed and then what the records from here on mean.
Executed ==
  Sound => /\ bus \in Seq(Operations)
           /\ state = "header" => bus = <<>>
           /\ state # "header" =>
                \A n \in Done \div 4..Len(stream) :
                  Meaning(stream, n)
                    = bus \o MeaningFrom(stream, n)[<<Here, Raised>>]

\* Likewise its answer: what was answered, acc, and then what the records
\* from here on are answered.
AnsweredBy(acc) ==
  /\ acc \in Seq(Answers) /\ Len(acc) = Done \div 4
  /\ \A n \in Done \div 4..Len(stream) :
       Reply(stream, n) = acc \o ReplyFrom(stream, n)[Here]
  /\ \A k \in 0..Done - 1 : AnswerByte(k) = StreamByte(acc, k)

\* Once the probe is answered, there is such an answer.
AnsweredSoFar == Sound /\ state # "header" => \E acc : AnsweredBy(acc)

\* When the mutex is free, no complete record is left.
CaughtUp ==
  Sound /\ pc = "unlocked" =>
    IF state = "header" THEN fed < 8 ELSE ~Whole(stream, Here, fed \div 4)

\* The inductive invariant, beside IInv and StreamIntact.
Faithful == AtRecord /\ Executed /\ AnsweredSoFar /\ CaughtUp

\* Bytes and words.
LEMMA ByteOfWord ==
  ASSUME NEW m \in Nat, NEW b \in 0..3
  PROVE  /\ (4 * m + b) \div 4 = m /\ (4 * m + b) % 4 = b
         /\ \A n \in Nat : 4 * m + b < n /\ n % 4 = 0 => 4 * m + 4 <= n
<1>1. ASSUME NEW n \in Nat, 4 * m + b < n, n % 4 = 0 PROVE 4 * m + 4 <= n
  BY <1>1
<1> QED  BY <1>1

\* Every byte is a byte of a word.
LEMMA WordOfByte ==
  ASSUME NEW k \in Nat
  PROVE  \E m \in Nat, b \in 0..3 : k = 4 * m + b
<1> DEFINE m == k \div 4
           b == k - 4 * m
<1>1. m \in Nat /\ 4 * m <= k /\ k < 4 * m + 4  OBVIOUS
<1> HIDE DEF m
<1>2. b \in 0..3 /\ k = 4 * m + b  BY <1>1
<1> QED  BY <1>1, <1>2

\* A word of the record at i does not straddle the end of the ring.
LEMMA SlotBytes ==
  ASSUME i \in 0..RING_SIZE - 1, i % 4 = 0, NEW k \in Nat, 4 * k <= RING_SIZE,
         NEW b \in 0..3
  PROVE  /\ Slot(k) \in 0..RING_SIZE - 1 /\ Slot(k) % 4 = 0
         /\ RING_INDEX(i + (4 * k + b)) = Slot(k) + b
<1> DEFINE z == i + 4 * k
<1>1. z \in Nat /\ z % 4 = 0 /\ z < 2 * RING_SIZE
  BY Sizes
<1>2. Slot(k) = RING_INDEX(z)  BY DEF Slot
<1> HIDE DEF z
<1>3. RING_INDEX(z) \in 0..RING_SIZE - 1 /\ RING_INDEX(z) % 4 = 0
  BY <1>1, IndexCases, Aligned, Sizes
<1>4. RING_INDEX(z) = IF z < RING_SIZE THEN z ELSE z - RING_SIZE
  BY <1>1, IndexCases, Sizes
<1>5. RING_INDEX(z) + b < RING_SIZE
  <2> DEFINE y == RING_INDEX(z)
  <2>1. y \in Nat /\ y % 4 = 0 /\ y < RING_SIZE  BY <1>3, Sizes
  <2> HIDE DEF y
  <2>2. y + 4 <= RING_SIZE  BY <2>1, Sizes
  <2> QED  BY <2>2, <2>1, Sizes DEF y
<1>6. RING_INDEX(z + b) = RING_INDEX(z) + b
  <2>1. CASE z < RING_SIZE
    BY <2>1, <1>1, <1>4, <1>5, IndexCases, Sizes
  <2>2. CASE z >= RING_SIZE
    <3>1. RING_INDEX(z) = z - RING_SIZE  BY <2>2, <1>1, <1>4, Sizes
    <3>2. z + b \in RING_SIZE..2 * RING_SIZE - 1  BY <3>1, <1>5, <1>1, <2>2, Sizes
    <3> QED  BY <3>1, <3>2, <1>1, IndexCases, Sizes
  <2> QED  BY <2>1, <2>2, <1>1, Sizes
<1>7. i + (4 * k + b) = z + b  BY Sizes DEF z
<1> QED  BY <1>2, <1>3, <1>6, <1>7

\* The numbers of a file whose records are executed.
LEMMA Progress ==
  ASSUME IInv, AtRecord, Sound
  PROVE  /\ fed \in Nat /\ Pending \in Nat /\ Done \in Nat /\ fed = Done + Pending
         /\ Done = 4 * (Done \div 4) /\ Done \div 4 \in Nat
         /\ Here \in Nat /\ Here >= 1 /\ Done = 4 * (Here - 1)
         /\ fed \div 4 \in Done \div 4..Len(stream)
         /\ stream \in Seq(Word) /\ Len(stream) \in Nat
         /\ fed <= 4 * Len(stream)
<1>1. /\ taken \in Nat /\ fed \in Nat /\ RING_READ_LEN \in Nat
      /\ RING_PROC_LEN \in Nat
      /\ taken + RING_READ_LEN + RING_PROC_LEN = fed
      /\ Pending \in 0..RING_PROC_LEN
  BY Counts DEF Sound
<1>2. stream \in Seq(Word) /\ fed <= 4 * Len(stream) /\ Len(stream) \in Nat
  BY DEF IInv, UserOK
<1>3. Pending \in Nat /\ Done \in Nat /\ fed = Done + Pending
  BY <1>1 DEF Done
<1>4. Done % 4 = 0  BY DEF AtRecord
<1> DEFINE d == Done
           w == Len(stream)
<1>5. d \in Nat /\ d % 4 = 0 /\ fed \in Nat /\ d <= fed /\ w \in Nat /\ fed <= 4 * w
  BY <1>1, <1>2, <1>3, <1>4
<1> HIDE DEF d, w
<1>6. d = 4 * (d \div 4) /\ d \div 4 \in Nat  BY <1>5
<1>7. fed \div 4 \in d \div 4..w  BY <1>5
<1> QED  BY <1>1, <1>2, <1>3, <1>6, <1>7 DEF d, w, Here

\* What the process loop reads at word k of the record at i is word k of the
\* record of the stream.
LEMMA WordRead ==
  ASSUME IInv, StreamIntact, AtRecord, Sound, pc = "process",
         NEW k \in Nat, 4 * k + 4 <= left
  PROVE  /\ Here + k \in 1..Len(stream)
         /\ WordAt(Slot(k)) = stream[Here + k]
         /\ \A b \in 0..3 : /\ Slot(k) + b \in 0..RING_SIZE - 1
                            /\ RING_INDEX(i + (4 * k + b)) = Slot(k) + b
                            /\ buf[Slot(k) + b] = <<stream[Here + k], b>>
<1>1. /\ fed \in Nat /\ Done \in Nat /\ fed = Done + Pending
      /\ Here \in Nat /\ Here >= 1 /\ Done = 4 * (Here - 1)
      /\ Len(stream) \in Nat /\ fed <= 4 * Len(stream)
  BY Progress
<1>2. /\ left \in Nat /\ Pending = left /\ left <= RING_SIZE
      /\ i \in 0..RING_SIZE - 1 /\ i % 4 = 0
  <2>1. left \in Nat /\ Pending = left /\ left <= RING_PROC_LEN
    BY Counts DEF Sound
  <2>2. RING_PROC_LEN <= RING_SIZE /\ RING_PROC_LEN \in Nat
    BY LengthBounds, Sizes DEF IInv, Sound
  <2>3. i \in 0..RING_SIZE - 1 /\ i % 4 = 0
    BY DEF IInv, TypeOK, WalkInStep
  <2> QED  BY <2>1, <2>2, <2>3, Sizes
<1>3. Here + k \in 1..Len(stream)
  BY <1>1, <1>2
<1>4. ASSUME NEW b \in 0..3
      PROVE  /\ Slot(k) + b \in 0..RING_SIZE - 1
             /\ RING_INDEX(i + (4 * k + b)) = Slot(k) + b
             /\ buf[Slot(k) + b] = <<stream[Here + k], b>>
  <2>1. 4 * k <= RING_SIZE  BY <1>2, Sizes
  <2>2. RING_INDEX(i + (4 * k + b)) = Slot(k) + b
    BY <1>2, <2>1, SlotBytes
  <2>3. 4 * k + b \in 0..left - 1  BY <1>2
  <2>4. buf[RING_INDEX(i + (4 * k + b))]
          = StreamByte(stream, fed - left + (4 * k + b))
    BY <2>3 DEF StreamIntact, Sound
  <2>5. fed - left + (4 * k + b) = 4 * ((Here - 1) + k) + b
    BY <1>1, <1>2
  <2>6. (Here - 1) + k \in Nat /\ ((Here - 1) + k) + 1 = Here + k  BY <1>1
  <2>7. StreamByte(stream, 4 * ((Here - 1) + k) + b) = <<stream[Here + k], b>>
    BY <2>6, ByteOfWord DEF StreamByte
  <2>8. Slot(k) + b \in 0..RING_SIZE - 1
    BY <2>2, IndexCases, <1>2, Sizes
  <2> QED  BY <2>2, <2>4, <2>5, <2>7, <2>8
<1>5. WordAt(Slot(k)) = stream[Here + k]
  <2>1. Slot(k) \in 0..RING_SIZE - 1 /\ Slot(k) + 0 = Slot(k)
    <3>1. 4 * k <= RING_SIZE  BY <1>2, Sizes
    <3>2. Slot(k) \in 0..RING_SIZE - 1  BY <1>2, <3>1, SlotBytes
    <3> QED  BY <3>2, Sizes
  <2>2. buf[Slot(k)] = <<stream[Here + k], 0>>
    BY <1>4, <2>1
  <2>3. \A b \in 0..3 : buf[Slot(k) + b] = <<buf[Slot(k)][1], b>>
    BY <1>4, <2>2
  <2> QED  BY <2>2, <2>3 DEF WordAt
<1> QED  BY <1>3, <1>4, <1>5

\* The header the process loop finds is the one of the record of the stream,
\* and the record is complete in the ring if it is complete in the stream.
LEMMA RecordRead ==
  ASSUME StreamsParse, IInv, StreamIntact, AtRecord, Sound, pc = "process",
         left >= 4
  PROVE  LET h == HeaderAt(stream, Here)
         IN  /\ Here \in 1..Len(stream) /\ h \in Header
             /\ HeadersOf(WordAt(i)) = {h}
             /\ WordAt(i) = stream[Here]
             /\ RecordLen(h) \in Nat /\ Walked(h) = RecordLen(h)
             /\ RecordLen(h) = 4 * (RecordEnd(stream, Here) - Here)
             /\ RecordEnd(stream, Here) \in Nat
             /\ RecordEnd(stream, Here) > Here
             /\ left >= RecordLen(h) <=> Whole(stream, Here, fed \div 4)
<1> DEFINE h == HeaderAt(stream, Here)
           end == RecordEnd(stream, Here)
<1>1. /\ fed \in Nat /\ Done \in Nat /\ fed = Done + Pending
      /\ Here \in Nat /\ Here >= 1 /\ Done = 4 * (Here - 1)
      /\ stream \in Seq(Word)
      /\ Len(stream) \in Nat /\ fed <= 4 * Len(stream)
  BY Progress
<1>2. left \in Nat /\ Pending = left
  BY Counts DEF Sound
<1>3. Here \in 1..Len(stream) /\ WordAt(Slot(0)) = stream[Here]
  <2>1. Here + 0 \in 1..Len(stream) /\ WordAt(Slot(0)) = stream[Here + 0]
    BY <1>2, WordRead
  <2> QED  BY <2>1, <1>1
<1>4. Slot(0) = i
  <2>1. i \in 0..RING_SIZE - 1  BY DEF IInv, TypeOK
  <2>2. i + 4 * 0 = i  BY <2>1, Sizes
  <2> QED  BY <2>1, <2>2, IndexCases, Sizes DEF Slot
<1>5. /\ h \in Header /\ end \in Nat /\ end > Here
      /\ WritePart(h) \in Nat /\ ReadPart(h) \in Nat
  BY <1>1, <1>3, HeaderType
<1>6. IsHeader(stream[Here])
  <2>1. PICK S : Parse(stream, S)
    BY DEF StreamsParse, Sound, AtRecord
  <2>2. Parse(stream, Starts(stream))  BY <2>1 DEF Starts
  <2>3. Here \in Starts(stream)  BY DEF AtRecord, IInv, ControlOK
  <2> QED  BY <2>2, <2>3, <1>3 DEF Parse
<1>7. HeadersOf(WordAt(i)) = {h}
  <2> DEFINE w == stream[Here]
  <2>1. IsHeader(w)  BY <1>6
  <2>2. HeadersOf(w) = {IF w[1] = "hdr" THEN w[2] ELSE ZeroHeader}
    <3> HIDE DEF w
    <3>1. CASE w[1] = "hdr"
      <4>1. w # Zero  BY <3>1 DEF Zero
      <4> QED  BY <3>1, <4>1 DEF HeadersOf
    <3>2. CASE ~(w[1] = "hdr")
      BY <3>2, <2>1 DEF HeadersOf, IsHeader
    <3> QED  BY <3>1, <3>2
  <2> QED  BY <2>2, <1>3, <1>4 DEF HeaderAt
<1>8. RecordLen(h) \in Nat /\ Walked(h) = RecordLen(h)
  BY <1>5, RecordSize, Sizes
<1>9. RecordLen(h) = 4 * (end - Here)
  <2>1. end = Here + 1 + WritePart(h) + ReadPart(h)  BY DEF RecordEnd
  <2>2. h.wcount \in Nat /\ h.rcount \in Nat
    <3>1. h.wcount \in 0..MaxCount /\ h.rcount \in 0..MaxCount
      BY <1>5 DEF Header
    <3> HIDE DEF h
    <3> QED  BY <3>1, WordsAssumption
  <2> HIDE DEF h, end
  <2>3. WritePart(h) = h.wcount + Bool(h.wcount > 0)
    BY <2>2 DEF WritePart, Bool
  <2>4. ReadPart(h) = h.rcount + Bool(h.rcount > 0)
    BY <2>2 DEF ReadPart, Bool
  <2>5. Bool(h.wcount > 0) \in Nat /\ Bool(h.rcount > 0) \in Nat
    BY DEF Bool
  <2>6. RecordLen(h) = 4 * (1 + WritePart(h) + ReadPart(h))
    BY <2>2, <2>3, <2>4, <2>5 DEF RecordLen
  <2> QED  BY <2>1, <2>6, <1>1, <1>5
<1>10. left >= RecordLen(h) <=> Whole(stream, Here, fed \div 4)
  <2> DEFINE w == fed \div 4
             L == RecordLen(h)
             p == Here
             e == end
  <2>1. w \in Nat /\ 4 * w <= fed /\ fed < 4 * w + 4  BY <1>1
  <2>2. fed = 4 * (p - 1) + left /\ L = 4 * (e - p) /\ p \in Nat /\ e \in Nat
        /\ left >= 4 /\ left \in Nat
    BY <1>1, <1>2, <1>5, <1>9
  <2> HIDE DEF w, L, p, e
  <2>3. p <= w  BY <2>1, <2>2
  <2>4. left >= L <=> e <= w + 1  BY <2>1, <2>2
  <2> QED  BY <2>3, <2>4 DEF Whole, w, L, p, e
<1> QED  BY <1>3, <1>4, <1>5, <1>7, <1>8, <1>9, <1>10

\* The operations of the record at i are those of the record of the stream.
LEMMA RecordOpsAre ==
  ASSUME StreamsParse, IInv, StreamIntact, AtRecord, Sound, pc = "process",
         left >= 4, left >= RecordLen(HeaderAt(stream, Here))
  PROVE  RecordOps(HeaderAt(stream, Here))
           = RecordMeaning(stream, Here, Raised)
<1> DEFINE h == HeaderAt(stream, Here)
           p == Here
           W == WritePart(h)
           r == p + 1 + W
           inc == IF "WFF" \in h.flags THEN 0 ELSE 4
           wr(k) == <<"write", (ValueOf(stream[p + 1]) + inc * (k - 1)) % AddrSpace,
                      stream[p + 1 + k]>>
           rd(k) == <<IF "RCA" \in h.flags THEN "read_cfg" ELSE "read",
                      stream[r + k]>>
           wn == IF "WCA" \in h.flags THEN 0 ELSE h.wcount
<1>1. h \in Header /\ Here \in Nat /\ left \in Nat
      /\ h.wcount \in Nat /\ h.rcount \in Nat
  <2>1. h \in Header /\ Here \in Nat /\ left \in Nat
    BY RecordRead, Progress, Counts DEF Sound
  <2>2. h.wcount \in 0..MaxCount /\ h.rcount \in 0..MaxCount
    BY <2>1 DEF Header
  <2> HIDE DEF h
  <2> QED  BY <2>1, <2>2, WordsAssumption
<1>2. /\ RecordLen(h) = 4 * (1 + h.wcount + h.rcount + Bool(h.wcount > 0)
                               + Bool(h.rcount > 0))
      /\ AnswerSlot(h) = W
      /\ h.wcount > 0 => W = 1 + h.wcount /\ Bool(h.wcount > 0) = 1
      /\ h.wcount = 0 => W = 0 /\ Bool(h.wcount > 0) = 0
      /\ h.rcount > 0 => Bool(h.rcount > 0) = 1
      /\ h.rcount = 0 => Bool(h.rcount > 0) = 0
  <2> HIDE DEF h
  <2> QED  BY <1>1 DEF RecordLen, AnswerSlot, WritePart, Bool
<1>3. ASSUME NEW k \in Nat, 4 * k + 4 <= RecordLen(h)
      PROVE  WordAt(Slot(k)) = stream[p + k]
  <2>1. 4 * k + 4 <= left
    BY <1>1, <1>2, <1>3, RecordRead
  <2> QED  BY <2>1, WordRead
<1>4. state \in {"idle", "cycle"} /\ (Raised <=> state = "idle")
  BY DEF IInv, TypeOK, ControlOK, Raised, Sound, Open
<1>5. ASSUME NEW k \in 1..h.wcount
      PROVE  /\ WordAt(Slot(1)) = stream[p + 1]
             /\ WordAt(Slot(1 + k)) = stream[p + 1 + k]
  <2>1. 1 + k \in Nat /\ 4 * (1 + k) + 4 <= RecordLen(h) /\ 4 * 1 + 4 <= RecordLen(h)
    BY <1>1, <1>2
  <2>2. p + (1 + k) = p + 1 + k  BY <1>1
  <2> QED  BY <2>1, <2>2, <1>3
<1>6. ASSUME NEW k \in 1..h.rcount
      PROVE  WordAt(Slot(AnswerSlot(h) + 1 + k)) = stream[r + k]
  <2> DEFINE m == W + 1 + k
  <2>1. m \in Nat /\ 4 * m + 4 <= RecordLen(h) /\ p + m = r + k
    BY <1>1, <1>2
  <2> HIDE DEF m
  <2>2. WordAt(Slot(m)) = stream[p + m]  BY <2>1, <1>3
  <2> QED  BY <2>1, <2>2, <1>2 DEF m
<1> DEFINE A == IF Raised THEN <<<<"cycle", 1>>>> ELSE <<>>
           B == <<<<"byteenable", h.be>>>>
           C == [k \in 1..wn |-> wr(k)]
           E == [k \in 1..h.rcount |-> rd(k)]
           F == IF "CYC" \in h.flags THEN <<<<"cycle", 0>>>> ELSE <<>>
<1>7. WriteOps(h) = C
  <2>1. CASE "WCA" \in h.flags
    <3>1. WriteOps(h) = <<>>  BY <2>1 DEF WriteOps
    <3>2. C = <<>>  BY <2>1
    <3> QED  BY <3>1, <3>2
  <2>2. CASE "WCA" \notin h.flags
    <3>1. C = [k \in 1..h.wcount |-> wr(k)]  BY <2>2
    <3>2. WriteOps(h) = [k \in 1..h.wcount |->
              <<"write", (ValueOf(WordAt(Slot(1))) + inc * (k - 1)) % AddrSpace,
                WordAt(Slot(1 + k))>>]
      BY <2>2 DEF WriteOps
    <3> HIDE DEF inc, h, p
    <3> QED  BY <3>1, <3>2, <1>5
  <2> QED  BY <2>1, <2>2
<1>8. ReadOps(h) = E
  <2> HIDE DEF h, r
  <2> QED  BY <1>6 DEF ReadOps
<1>9. RecordMeaning(stream, p, Raised) = A \o B \o C \o E \o F
  BY DEF RecordMeaning
<1>10. RecordOps(h) = A \o B \o WriteOps(h) \o ReadOps(h) \o F
  <2>1. (IF state = "idle" THEN <<<<"cycle", 1>>>> ELSE <<>>) = A
    BY <1>4
  <2> HIDE DEF A
  <2> QED  BY <2>1 DEF RecordOps
<1> HIDE DEF A, B, C, E, F
<1> QED  BY <1>7, <1>8, <1>9, <1>10

\* What process_record does to a stream that can be copied.
LEMMA RecordStep ==
  ASSUME StreamsParse, IInv, StreamIntact, AtRecord, Sound, process_record
  PROVE  LET h == HeaderAt(stream, Here)
             e == RecordEnd(stream, Here)
         IN  /\ pc = "process" /\ pc' = "process" /\ left >= 4
             /\ left >= RecordLen(h) /\ h \in Header
             /\ buf' = Answered(h) /\ bus' = bus \o RecordOps(h)
             /\ state' = (IF "CYC" \in h.flags THEN "idle" ELSE "cycle")
             /\ UNCHANGED <<stream, fed, sent, taken, out>>
             /\ Sound' /\ state # "header" /\ state' # "header"
             /\ Here \in 1..Len(stream) /\ e \in Nat /\ e > Here
             /\ Done = 4 * (Here - 1)
             /\ Done' = 4 * (e - 1) /\ Done' \div 4 = e - 1 /\ Here' = e
             /\ Done' % 4 = 0
             /\ e \in Starts(stream)
             /\ e - 1 \in Done \div 4..Len(stream)
             /\ \A n \in e - 1..Len(stream) :
                  n \in Done \div 4..Len(stream) /\ Whole(stream, Here, n)
<1> DEFINE h == HeaderAt(stream, Here)
           e == RecordEnd(stream, Here)
<1>1. /\ pc = "process" /\ pc' = "process" /\ left >= 4
      /\ UNCHANGED <<stream, fed, sent, taken, out>>
  BY DEF process_record, cursors, user
<1>2. /\ Here \in 1..Len(stream) /\ h \in Header
      /\ HeadersOf(WordAt(i)) = {h}
      /\ RecordLen(h) = 4 * (e - Here) /\ e \in Nat /\ e > Here
      /\ left >= RecordLen(h) <=> Whole(stream, Here, fed \div 4)
  BY <1>1, RecordRead
<1>3. /\ fed \in Nat /\ Done \in Nat /\ fed = Done + Pending
      /\ Here \in Nat /\ Here >= 1 /\ Done = 4 * (Here - 1)
      /\ Done \div 4 \in Nat /\ Done = 4 * (Done \div 4)
      /\ fed \div 4 \in Done \div 4..Len(stream) /\ Len(stream) \in Nat
  BY Progress
<1>4. left \in Nat /\ Pending = left  BY <1>1, Counts DEF Sound
<1>5. /\ left >= RecordLen(h) /\ buf' = Answered(h) /\ bus' = bus \o RecordOps(h)
      /\ left' = left - RecordLen(h)
      /\ state' = (IF "CYC" \in h.flags THEN "idle" ELSE "cycle")
  <2>1. PICK g \in HeadersOf(WordAt(i)) :
          /\ left >= RecordLen(g)
          /\ buf'   = Answered(g)
          /\ bus'   = bus \o RecordOps(g)
          /\ left'  = left - RecordLen(g)
          /\ state' = IF "CYC" \in g.flags THEN "idle" ELSE "cycle"
    BY DEF process_record
  <2>2. g = h  BY <1>2
  <2> QED  BY <2>1, <2>2
<1>6. Sound' /\ state # "header" /\ state' # "header"
  <2>1. state # "header"  BY <1>1 DEF IInv, ControlOK
  <2>2. state' # "header" /\ state' # "closed"  BY <1>5
  <2> QED  BY <2>1, <2>2, <1>1 DEF Sound, Open
<1>7. Whole(stream, Here, fed \div 4)  BY <1>2, <1>5
<1>8. e - 1 \in Done \div 4..Len(stream) /\ e - 1 <= fed \div 4
  <2>1. e <= fed \div 4 + 1  BY <1>7 DEF Whole
  <2>2. Here - 1 = Done \div 4  BY <1>3 DEF Here
  <2> HIDE DEF e
  <2> QED  BY <2>1, <2>2, <1>2, <1>3
<1>9. /\ Done' = 4 * (e - 1)
  <2>1. Pending' = left'  BY <1>1 DEF Pending
  <2>2. Done' = fed - (left - RecordLen(h))  BY <2>1, <1>1, <1>5 DEF Done
  <2>3. fed = 4 * (Here - 1) + left  BY <1>3, <1>4
  <2> HIDE DEF e, h
  <2> QED  BY <2>2, <2>3, <1>2, <1>3, <1>4
<1>10. Done' \div 4 = e - 1 /\ Here' = e /\ Done' % 4 = 0
  <2>1. e - 1 \in Nat  BY <1>2, <1>3
  <2> HIDE DEF e
  <2>2. (4 * (e - 1) + 0) \div 4 = e - 1 /\ (4 * (e - 1) + 0) % 4 = 0
    BY <2>1, ByteOfWord
  <2>3. 4 * (e - 1) + 0 = 4 * (e - 1)  BY <2>1
  <2>4. Done' \div 4 = e - 1 /\ Done' % 4 = 0  BY <2>2, <2>3, <1>9
  <2>5. (e - 1) + 1 = e  BY <1>2
  <2> QED  BY <2>4, <2>5 DEF Here
<1>11. ASSUME NEW n \in e - 1..Len(stream)
       PROVE  n \in Done \div 4..Len(stream) /\ Whole(stream, Here, n)
  <2> HIDE DEF e
  <2>1. n \in Done \div 4..Len(stream) /\ Here <= n /\ e <= n + 1
    BY <1>2, <1>3, <1>8
  <2> QED  BY <2>1 DEF Whole, e
<1>12. e \in Starts(stream)
  <2>1. PICK S : Parse(stream, S)
    BY DEF StreamsParse, Sound, AtRecord
  <2>2. Parse(stream, Starts(stream))  BY <2>1 DEF Starts
  <2>3. Here \in Starts(stream)  BY <1>6 DEF AtRecord
  <2>4. Whole(stream, Here, Len(stream))
    <3>1. Len(stream) \in e - 1..Len(stream)  BY <1>8, <1>3, <1>2
    <3> QED  BY <3>1, <1>11
  <2> HIDE DEF e
  <2>5. Here <= Len(stream)  BY <1>2, <1>3
  <2> QED  BY <2>2, <2>3, <2>4, <2>5 DEF Parse, e
<1> QED  BY <1>1, <1>2, <1>3, <1>5, <1>6, <1>8, <1>9, <1>10, <1>11, <1>12

\* A record adds its operations to those of the records before it.
LEMMA RecordExecuted ==
  ASSUME StreamsParse, IInv, StreamIntact, AtRecord, Executed, Sound,
         process_record
  PROVE  AtRecord' /\ Executed'
<1> DEFINE h == HeaderAt(stream, Here)
           e == RecordEnd(stream, Here)
           rec == RecordMeaning(stream, Here, Raised)
<1>1. /\ pc = "process" /\ left >= 4 /\ left >= RecordLen(h)
      /\ bus' = bus \o RecordOps(h)
      /\ state' = (IF "CYC" \in h.flags THEN "idle" ELSE "cycle")
      /\ stream' = stream
      /\ Sound' /\ state # "header" /\ state' # "header"
      /\ Here \in 1..Len(stream) /\ e \in Nat /\ e > Here
      /\ Done = 4 * (Here - 1) /\ Done' = 4 * (e - 1)
      /\ Done' \div 4 = e - 1 /\ Here' = e /\ Done' % 4 = 0
      /\ e \in Starts(stream)
      /\ e - 1 \in Done \div 4..Len(stream)
      /\ \A n \in e - 1..Len(stream) :
           n \in Done \div 4..Len(stream) /\ Whole(stream, Here, n)
  BY RecordStep
<1>2. stream \in Streams /\ Done >= 8 /\ Here \in Nat
  BY <1>1, Progress DEF AtRecord
<1>3. AtRecord'
  <2>1. Done' >= 8
    <3> HIDE DEF e
    <3> QED  BY <1>1, <1>2
  <2> QED  BY <2>1, <1>1, <1>2 DEF AtRecord
<1>4. RecordOps(h) = rec
  BY <1>1, RecordOpsAre
<1>5. /\ stream \in Seq(Word) /\ Len(stream) \in Nat
      /\ Raised \in BOOLEAN /\ bus \in Seq(Operations) /\ Done \div 4 \in Nat
  BY <1>1, Progress DEF Raised, Executed
<1>6. rec \in Seq(Operations)
  <2>1. Len(stream) \in 0..Len(stream) /\ Here \in 1..Len(stream) + 1
    BY <1>1, <1>5
  <2>2. Whole(stream, Here, Len(stream))
    <3>1. Len(stream) \in e - 1..Len(stream)
      <4> HIDE DEF e
      <4> QED  BY <1>1, <1>5
    <3> QED  BY <3>1, <1>1
  <2> QED  BY <2>1, <2>2, <1>5, RecordMeaningType
<1>7. bus' \in Seq(Operations)
  <2> HIDE DEF rec, h
  <2> QED  BY <1>1, <1>4, <1>5, <1>6, ConcatProperties
<1>8. Following(stream, Here) = <<Here', Raised'>>
  <2>1. ("CYC" \in h.flags) = Raised'
    <3>1. Raised' = (state' # "cycle")  BY DEF Raised
    <3>2. CASE "CYC" \in h.flags
      <4>1. state' # "cycle"  BY <3>2, <1>1
      <4> QED  BY <3>1, <3>2, <4>1
    <3>3. CASE ~("CYC" \in h.flags)
      <4>1. ~(state' # "cycle")  BY <3>3, <1>1
      <4> QED  BY <3>1, <3>3, <4>1
    <3> QED  BY <3>2, <3>3
  <2>2. Here' = RecordEnd(stream, Here)  BY <1>1
  <2> QED  BY <2>1, <2>2, Zenon DEF Following
<1>9. ASSUME NEW n \in Done' \div 4..Len(stream')
      PROVE  Meaning(stream', n)
               = bus' \o MeaningFrom(stream', n)[<<Here', Raised'>>]
  <2> DEFINE rest == MeaningFrom(stream, n)[<<Here', Raised'>>]
  <2>1. n \in Done \div 4..Len(stream) /\ Whole(stream, Here, n)
    BY <1>1, <1>9
  <2>2. n \in 0..Len(stream) /\ Here \in 1..n + 1 /\ e \in 1..n + 1
    <3>1. n \in Nat /\ n <= Len(stream) /\ e <= n + 1
      BY <2>1, <1>5 DEF Whole
    <3> HIDE DEF e
    <3> QED  BY <3>1, <1>1, <1>5
  <2>3. MeaningFrom(stream, n)[<<Here, Raised>>] = rec \o rest
    BY <2>1, <2>2, <1>5, <1>8, MeaningUnfolds
  <2>4. rest \in Seq(Operations)
    <3>1. Here' \in 1..n + 1 /\ Raised' \in BOOLEAN
      BY <2>2, <1>1 DEF Raised
    <3> QED  BY <3>1, <2>2, <1>5, MeaningUnfolds
  <2>5. Meaning(stream, n) = bus \o (rec \o rest)
    BY <2>1, <2>3, <1>1 DEF Executed
  <2> HIDE DEF rec, rest, h
  <2>6. bus \o (rec \o rest) = (bus \o rec) \o rest
    <3>1. bus \in Seq(Operations)  BY <1>5
    <3>2. rec \in Seq(Operations)  BY <1>6
    <3>3. After(bus, After(rec, rest)) = After(After(bus, rec), rest)
      BY <2>4, <3>1, <3>2, AppendedTo
    <3> QED  BY <3>3 DEF After
  <2>7. bus' = bus \o rec  BY <1>1, <1>4
  <2> QED  BY <2>5, <2>6, <2>7, <1>1 DEF rest
<1> QED  BY <1>1, <1>3, <1>7, <1>9 DEF Executed

\* The words of the answer to a record, one by one.
LEMMA RecordReplyWords ==
  ASSUME NEW s \in Seq(Word), NEW n \in 0..Len(s), NEW p \in 1..n + 1,
         Whole(s, p, n), NEW m \in 0..RecordEnd(s, p) - p - 1
  PROVE  LET h == HeaderAt(s, p)
             W == WritePart(h)
             space == IF "RCA" \in h.flags THEN "cfg" ELSE "mem"
             w == RecordReply(s, p)[m + 1]
         IN  /\ m < W => w = Zero
             /\ m = W => w = AnswerHeader(h)
             /\ m = W + 1 => w = s[p + m]
             /\ m > W + 1 => w = Answer(space, s[p + m])
<1> DEFINE h == HeaderAt(s, p)
           W == WritePart(h)
           R == ReadPart(h)
           r == p + 1 + W
           back == [flags  |-> {f \in {"CYC", "WFF", "WCA"} :
                             \/ f = "CYC" /\ "CYC" \in h.flags
                             \/ f = "WFF" /\ "RFF" \in h.flags
                             \/ f = "WCA" /\ "BCA" \in h.flags},
               be     |-> h.be,
               wcount |-> h.rcount,
               rcount |-> 0]
           space == IF "RCA" \in h.flags THEN "cfg" ELSE "mem"
           A == [k \in 1..W |-> Zero]
           B == <<<<"hdr", back>>>>
           C == [k \in 1..R |->
                  IF k = 1 THEN s[r] ELSE Answer(space, s[r + k - 1])]
           T == {A[k] : k \in 1..W} \cup {B[1]} \cup {C[k] : k \in 1..R}
<1>1. p \in 1..Len(s)
  BY DEF Whole
<1>2. /\ W \in Nat /\ R \in Nat /\ p \in Nat /\ m \in Nat
      /\ RecordEnd(s, p) = p + 1 + W + R /\ m < 1 + W + R
  <2>1. RecordEnd(s, p) = p + 1 + W + R  BY DEF RecordEnd
  <2>2. W \in Nat /\ R \in Nat  BY <1>1, HeaderType
  <2> HIDE DEF W, R
  <2> QED  BY <2>1, <2>2, <1>1
<1>3. <<"hdr", back>> = AnswerHeader(h)
  <2>1. {f \in {"CYC", "WFF", "WCA"} :
                             \/ f = "CYC" /\ "CYC" \in h.flags
                             \/ f = "WFF" /\ "RFF" \in h.flags
                             \/ f = "WCA" /\ "BCA" \in h.flags}
          = (h.flags \cap {"CYC"})
              \cup (IF "RFF" \in h.flags THEN {"WFF"} ELSE {})
              \cup (IF "BCA" \in h.flags THEN {"WCA"} ELSE {})
    <3> HIDE DEF h
    <3> QED  OBVIOUS
  <2> QED  BY <2>1 DEF AnswerHeader
<1>4. RecordReply(s, p) = A \o B \o C
  BY DEF RecordReply
<1>5. A \in Seq(T) /\ B \in Seq(T) /\ C \in Seq(T)
      /\ Len(A) = W /\ Len(B) = 1 /\ Len(C) = R
  <2>1. A \in Seq(T) /\ Len(A) = W  BY <1>2
  <2>2. C \in Seq(T) /\ Len(C) = R
    <3>1. C = [k \in 1..R |-> C[k]]  OBVIOUS
    <3>2. \A k \in 1..R : C[k] \in T  OBVIOUS
    <3> HIDE DEF C, T, R
    <3>3. C \in [1..R -> T]  BY <3>1, <3>2
    <3> QED  BY <1>2, <3>3
  <2>3. B \in Seq(T) /\ Len(B) = 1
    <3> HIDE DEF back
    <3> QED  OBVIOUS
  <2> QED  BY <2>1, <2>2, <2>3
<1>6. B[1] = <<"hdr", back>>  OBVIOUS
<1>7. \A k \in 1..W : A[k] = Zero  OBVIOUS
<1>8. \A k \in 1..R : C[k] = IF k = 1 THEN s[r] ELSE Answer(space, s[r + k - 1])
  OBVIOUS
<1> HIDE DEF A, B, C, T, W, R
<1>9. /\ A \o B \in Seq(T) /\ Len(A \o B) = W + 1
      /\ \A k \in 1..W + 1 : (A \o B)[k] = IF k <= W THEN A[k] ELSE B[k - W]
  <2>1. /\ A \o B \in Seq(T) /\ Len(A \o B) = Len(A) + Len(B)
        /\ \A k \in 1..Len(A) + Len(B) :
             (A \o B)[k] = IF k <= Len(A) THEN A[k] ELSE B[k - Len(A)]
    BY <1>5, ConcatProperties, Zenon
  <2> QED  BY <2>1, <1>5, Zenon
<1>10. \A k \in 1..(W + 1) + R :
         ((A \o B) \o C)[k] = IF k <= W + 1 THEN (A \o B)[k] ELSE C[k - (W + 1)]
  <2>1. \A k \in 1..Len(A \o B) + Len(C) :
          ((A \o B) \o C)[k] = IF k <= Len(A \o B) THEN (A \o B)[k]
                               ELSE C[k - Len(A \o B)]
    BY <1>5, <1>9, ConcatProperties, Zenon
  <2> QED  BY <2>1, <1>5, <1>9, Zenon
<1> DEFINE w == RecordReply(s, p)[m + 1]
<1>11. w = IF m + 1 <= W THEN A[m + 1]
           ELSE IF m = W THEN B[1] ELSE C[m - W]
  <2>1. m + 1 \in 1..(W + 1) + R  BY <1>2
  <2> DEFINE AB == A \o B
  <2>2. w = IF m + 1 <= W + 1 THEN AB[m + 1] ELSE C[(m + 1) - (W + 1)]
    BY <2>1, <1>4, <1>10
  <2>3. m + 1 <= W + 1 => AB[m + 1] = IF m + 1 <= W THEN A[m + 1] ELSE B[m + 1 - W]
    BY <1>2, <1>9
  <2>4. m = W => m + 1 - W = 1  BY <1>2
  <2>5. (m + 1) - (W + 1) = m - W  BY <1>2
  <2> HIDE DEF w, AB
  <2>6. CASE m + 1 <= W  BY <2>6, <2>2, <2>3, <1>2
  <2>7. CASE m = W  BY <2>7, <2>2, <2>3, <2>4, <1>2
  <2>8. CASE m > W  BY <2>8, <2>2, <2>5, <1>2
  <2> QED  BY <2>6, <2>7, <2>8, <1>2
<1>12. m < W => w = Zero
  BY <1>11, <1>7, <1>2
<1>13. m = W => w = AnswerHeader(h)
  BY <1>11, <1>6, <1>3, <1>2
<1>14. m > W => /\ m - W \in 1..R /\ w = C[m - W]
                /\ r + (m - W) - 1 = p + m
  BY <1>11, <1>2
<1>15. m = W + 1 => w = s[p + m]
  <2> SUFFICES ASSUME m = W + 1 PROVE w = s[p + m]  OBVIOUS
  <2>1. m - W = 1 /\ r = p + m /\ m > W  BY <1>2
  <2> HIDE DEF w, r
  <2> QED  BY <2>1, <1>14, <1>8
<1>16. m > W + 1 => w = Answer(space, s[p + m])
  <2> SUFFICES ASSUME m > W + 1 PROVE w = Answer(space, s[p + m])  OBVIOUS
  <2>1. m - W # 1 /\ m > W  BY <1>2
  <2> HIDE DEF w, r, space
  <2> QED  BY <2>1, <1>14, <1>8
<1> QED  BY <1>12, <1>13, <1>15, <1>16 DEF W

\* An answer that is not executed anew is not changed.
LEMMA AnswerKept ==
  ASSUME IInv, Open, AtRecord, Sound, UNCHANGED <<taken, fed, out>>,
         \A p \in taken..Done - 1 : Tape'[p] = Tape[p],
         NEW k \in 0..Done - 1
  PROVE  AnswerByte(k)' = AnswerByte(k)
<1>1. taken \in Nat /\ fed \in Nat /\ Done \in Nat /\ Done <= fed
  <2>1. Done \in Nat /\ Pending \in Nat /\ fed \in Nat /\ fed = Done + Pending
    BY Progress
  <2>2. taken \in Nat  BY Counts
  <2> QED  BY <2>1, <2>2
<1>2. CASE k < taken
  BY <1>2 DEF AnswerByte
<1>3. CASE ~(k < taken)
  <2>1. k \in taken..Done - 1 /\ k \in taken..fed - 1  BY <1>1, <1>3
  <2>2. Tape[k] = buf[RING_INDEX(sent + (k - taken))]  BY <2>1 DEF Tape
  <2>3. Tape'[k] = buf'[RING_INDEX(sent' + (k - taken))]
    BY <2>1 DEF Tape, RING_INDEX
  <2>4. AnswerByte(k) = Tape[k]  BY <2>2, <1>3 DEF AnswerByte
  <2>5. AnswerByte(k)' = Tape'[k]  BY <2>3, <1>3 DEF AnswerByte, RING_INDEX
  <2> QED  BY <2>1, <2>4, <2>5
<1> QED  BY <1>2, <1>3

\* What the ring holds in the place of the record at i after its execution.
LEMMA RecordInRing ==
  ASSUME StreamsParse, IInv, StreamIntact, AtRecord, Sound, process_record,
         NEW m \in 0..RecordEnd(stream, Here) - Here - 1, NEW b \in 0..3
  PROVE  buf'[RING_INDEX(i + (4 * m + b))]
           = <<RecordReply(stream, Here)[m + 1], b>>
<1> DEFINE h == HeaderAt(stream, Here)
           e == RecordEnd(stream, Here)
           W == WritePart(h)
           j == 4 * m + b
           x == RING_INDEX(i + j)
           space == IF "RCA" \in h.flags THEN "cfg" ELSE "mem"
           w == RecordReply(stream, Here)[m + 1]
<1>1. /\ pc = "process" /\ left >= 4 /\ left >= RecordLen(h)
      /\ buf' = Answered(h) /\ h \in Header
      /\ Here \in 1..Len(stream) /\ e \in Nat /\ e > Here
      /\ e - 1 \in Done \div 4..Len(stream)
      /\ \A n \in e - 1..Len(stream) : Whole(stream, Here, n)
  BY RecordStep
<1>2. RecordLen(h) = 4 * (e - Here)  BY <1>1, RecordRead
<1>3. /\ left \in Nat /\ left <= RING_SIZE
      /\ i \in 0..RING_SIZE - 1 /\ i % 4 = 0
  <2>1. left \in Nat /\ left <= RING_PROC_LEN
    BY <1>1, Counts DEF Sound
  <2>2. RING_PROC_LEN <= RING_SIZE /\ RING_PROC_LEN \in Nat
    BY LengthBounds, Sizes DEF IInv, Sound
  <2>3. i \in 0..RING_SIZE - 1 /\ i % 4 = 0
    BY <1>1 DEF IInv, TypeOK, WalkInStep
  <2> QED  BY <2>1, <2>2, <2>3, Sizes
<1>4. /\ m \in Nat /\ 4 * m + 4 <= left /\ j \in Nat /\ j < RING_SIZE
      /\ m + 1 <= e - Here /\ 4 * m <= RING_SIZE
  <2>1. m \in Nat /\ m + 1 <= e - Here  BY <1>1
  <2> HIDE DEF e, h
  <2> QED  BY <2>1, <1>1, <1>2, <1>3, Sizes
<1>5. j \div 4 = m /\ j % 4 = b  BY <1>4, ByteOfWord
<1>6. /\ x \in 0..RING_SIZE - 1 /\ RING_INDEX(x - i) = j
  <2>1. i \in Position /\ Ahead(i, i) = 0
    BY <1>3, Sizes DEF Position, Ahead
  <2> HIDE DEF j
  <2>2. /\ x \in 0..RING_SIZE - 1
        /\ RING_INDEX(x - i) = IF j < 0 THEN RING_SIZE + (j - 0) ELSE j - 0
    BY <2>1, <1>4, Offset, Sizes
  <2> QED  BY <2>2, <1>4
<1>7. /\ x = Slot(m) + b
      /\ WordAt(Slot(m)) = stream[Here + m]
      /\ buf[x] = <<stream[Here + m], b>>
  BY <1>1, <1>4, WordRead
<1>8. x % 4 = b
  <2>1. Slot(m) \in 0..RING_SIZE - 1 /\ Slot(m) % 4 = 0
    BY <1>3, <1>4, SlotBytes
  <2> HIDE DEF x
  <2>2. Slot(m) \in Nat  BY <2>1, Sizes
  <2> QED  BY <1>7, <2>1, <2>2
<1>9. AnswerSlot(h) = W
  <2>1. h.wcount \in Nat
    <3>1. h.wcount \in 0..MaxCount  BY <1>1 DEF Header
    <3> HIDE DEF h
    <3> QED  BY <3>1, WordsAssumption
  <2> HIDE DEF h
  <2> QED  BY <2>1 DEF AnswerSlot, WritePart
<1>10. /\ m < W => w = Zero
       /\ m = W => w = AnswerHeader(h)
       /\ m = W + 1 => w = stream[Here + m]
       /\ m > W + 1 => w = Answer(space, stream[Here + m])
  <2>1. /\ stream \in Seq(Word) /\ Len(stream) \in 0..Len(stream)
        /\ Here \in 1..Len(stream) + 1
    BY <1>1, Progress
  <2>2. Whole(stream, Here, Len(stream))
    <3>1. Len(stream) \in e - 1..Len(stream)
      <4> HIDE DEF e
      <4> QED  BY <1>1, <2>1
    <3> QED  BY <3>1, <1>1
  <2> QED  BY <2>1, <2>2, RecordReplyWords
<1>11. /\ W \in Nat /\ h.rcount \in Nat
       /\ m <= W + 1 + h.rcount
       /\ m # W /\ m >= W => m >= W + 1
       /\ h.rcount = 0 => m <= W
  <2>1. W \in Nat /\ ReadPart(h) \in Nat
    BY <1>1, Progress, HeaderType
  <2>2. h.rcount \in Nat
    <3>1. h.rcount \in 0..MaxCount  BY <1>1 DEF Header
    <3> HIDE DEF h
    <3> QED  BY <3>1, WordsAssumption
  <2>3. e = Here + 1 + W + ReadPart(h)  BY DEF RecordEnd
  <2> HIDE DEF h, e, W
  <2>4. h.rcount = 0 => ReadPart(h) = 0  BY DEF ReadPart
  <2>5. ReadPart(h) <= 1 + h.rcount  BY <2>2 DEF ReadPart
  <2>6. m <= W + ReadPart(h)
    <3> DEFINE R == ReadPart(h)
    <3>1. Here \in Nat /\ R \in Nat  BY <1>1, <2>1, Progress
    <3>2. e = Here + 1 + W + R  BY <2>3
    <3> HIDE DEF R
    <3>3. m <= W + R  BY <2>1, <3>1, <3>2, <1>4
    <3> QED  BY <3>3 DEF R
  <2> QED  BY <2>1, <2>2, <2>4, <2>5, <2>6, <1>4
<1> HIDE DEF w
<1>12. AnsweredByte(h, x) = <<w, b>>
  <2> HIDE DEF h, x, j, W, space
  <2>1. RING_INDEX(x - i) \div 4 = m  BY <1>5, <1>6
  <2>2. CASE m < W
    <3>1. AnsweredByte(h, x) = <<Zero, b>>
      BY <2>1, <2>2, <1>4, <1>8, <1>9, <1>11 DEF AnsweredByte
    <3> QED  BY <3>1, <2>2, <1>10
  <2>3. CASE m = W
    <3>1. AnsweredByte(h, x) = <<AnswerHeader(h), b>>
      BY <2>1, <2>3, <1>4, <1>8, <1>9, <1>11 DEF AnsweredByte
    <3> QED  BY <3>1, <2>3, <1>10
  <2>4. CASE m = W + 1
    <3>1. AnsweredByte(h, x) = buf[x]
      BY <2>1, <2>4, <1>4, <1>9, <1>11 DEF AnsweredByte
    <3> QED  BY <3>1, <2>4, <1>7, <1>10
  <2>5. CASE m > W + 1
    <3>1. AnsweredByte(h, x) = <<Answer(space, WordAt(Slot(m))), b>>
      BY <2>1, <2>5, <1>4, <1>8, <1>9, <1>11 DEF AnsweredByte, space
    <3> QED  BY <3>1, <2>5, <1>7, <1>10
  <2> QED  BY <2>2, <2>3, <2>4, <2>5, <1>4, <1>11
<1>13. buf'[x] = AnsweredByte(h, x)
  <2> HIDE DEF x, h
  <2> QED  BY <1>1, <1>6 DEF Answered
<1> QED  BY <1>12, <1>13 DEF w

\* A record adds its answer to those of the records before it.
LEMMA RecordAnswered ==
  ASSUME StreamsParse, IInv, StreamIntact, AtRecord, AnsweredSoFar, Sound,
         process_record
  PROVE  AnsweredSoFar'
<1> DEFINE h == HeaderAt(stream, Here)
           e == RecordEnd(stream, Here)
           p == Here
           rec == RecordReply(stream, Here)
<1>1. /\ pc = "process" /\ stream' = stream /\ fed' = fed /\ sent' = sent
      /\ taken' = taken /\ out' = out
      /\ left >= RecordLen(h) /\ left >= 4
      /\ Sound' /\ state # "header" /\ Open
      /\ Here \in 1..Len(stream) /\ e \in Nat /\ e > Here
      /\ Done = 4 * (Here - 1) /\ Done' = 4 * (e - 1)
      /\ Done' \div 4 = e - 1 /\ Here' = e
      /\ e - 1 \in Done \div 4..Len(stream)
      /\ \A n \in e - 1..Len(stream) :
           n \in Done \div 4..Len(stream) /\ Whole(stream, Here, n)
  BY RecordStep DEF Sound
<1>2. /\ stream \in Seq(Word) /\ Len(stream) \in Nat /\ Done \in Nat
      /\ Done \div 4 = p - 1 /\ p \in Nat /\ p >= 1
  <2>1. /\ stream \in Seq(Word) /\ Len(stream) \in Nat /\ Done \in Nat
        /\ Here = (Done \div 4) + 1 /\ Done \div 4 \in Nat
    BY Progress DEF Here
  <2> QED  BY <2>1
<1>3. PICK acc : AnsweredBy(acc)
  BY <1>1 DEF AnsweredSoFar
<1>4. rec \in Seq(Answers) /\ Len(rec) = e - p
  <2>1. Len(stream) \in 0..Len(stream) /\ Here \in 1..Len(stream) + 1
    BY <1>1, <1>2
  <2>2. Whole(stream, Here, Len(stream))
    <3>1. Len(stream) \in e - 1..Len(stream)
      <4> HIDE DEF e
      <4> QED  BY <1>1, <1>2
    <3> QED  BY <3>1, <1>1
  <2> QED  BY <2>1, <2>2, <1>2, RecordReplyType
<1>5. acc \in Seq(Answers) /\ Len(acc) = p - 1
  BY <1>3, <1>2 DEF AnsweredBy
<1>6. PICK both : both = acc \o rec  OBVIOUS
<1>7. /\ both \in Seq(Answers) /\ Len(both) = e - 1
      /\ \A m \in 1..p - 1 : both[m] = acc[m]
      /\ \A m \in 1..e - p : both[(p - 1) + m] = rec[m]
  <2> HIDE DEF rec, e, p
  <2>1. /\ acc \o rec \in Seq(Answers)
        /\ Len(acc \o rec) = Len(acc) + Len(rec)
        /\ \A k \in 1..Len(acc) + Len(rec) :
             (acc \o rec)[k] = IF k <= Len(acc) THEN acc[k]
                               ELSE rec[k - Len(acc)]
    BY <1>4, <1>5, ConcatProperties, Zenon
  <2>2. /\ both \in Seq(Answers)
        /\ Len(both) = (p - 1) + (e - p)
        /\ \A k \in 1..(p - 1) + (e - p) :
             both[k] = IF k <= p - 1 THEN acc[k] ELSE rec[k - (p - 1)]
    BY <2>1, <1>4, <1>5, <1>6, Zenon
  <2>3. p \in Nat /\ p >= 1 /\ e \in Nat /\ e > p  BY <1>1, <1>2 DEF p
  <2>4. (p - 1) + (e - p) = e - 1  BY <2>3
  <2>5. ASSUME NEW m \in 1..p - 1 PROVE both[m] = acc[m]
    <3>1. m \in 1..(p - 1) + (e - p) /\ m <= p - 1  BY <2>3
    <3> QED  BY <3>1, <2>2
  <2>6. ASSUME NEW m \in 1..e - p PROVE both[(p - 1) + m] = rec[m]
    <3> DEFINE k == (p - 1) + m
    <3>1. k \in 1..(p - 1) + (e - p) /\ ~(k <= p - 1) /\ k - (p - 1) = m
      BY <2>3
    <3> HIDE DEF k
    <3>2. both[k] = rec[m]  BY <3>1, <2>2
    <3> QED  BY <3>2 DEF k
  <2> QED  BY <2>2, <2>4, <2>5, <2>6
<1>8. ASSUME NEW n \in e - 1..Len(stream)
      PROVE  Reply(stream, n) = both \o ReplyFrom(stream, n)[e]
  <2> DEFINE rest == ReplyFrom(stream, n)[e]
  <2>1. n \in Done \div 4..Len(stream) /\ Whole(stream, Here, n)
    BY <1>1, <1>8
  <2>2. n \in 0..Len(stream) /\ Here \in 1..n + 1 /\ e \in 1..n + 1
    <3>1. n \in Nat /\ n <= Len(stream) /\ e <= n + 1
      BY <2>1, <1>2 DEF Whole
    <3> HIDE DEF e
    <3> QED  BY <3>1, <1>1, <1>2
  <2>3. ReplyFrom(stream, n)[Here] = rec \o rest
    BY <2>1, <2>2, <1>2, ReplyUnfolds
  <2>4. rest \in Seq(Answers)
    BY <2>2, <1>2, ReplyUnfolds
  <2>5. Reply(stream, n) = acc \o (rec \o rest)
    BY <2>1, <2>3, <1>3 DEF AnsweredBy
  <2> HIDE DEF rec, rest, e
  <2>6. After(acc, After(rec, rest)) = After(After(acc, rec), rest)
    <3>1. acc \in Seq(Answers) /\ rec \in Seq(Answers)  BY <1>4, <1>5
    <3> QED  BY <2>4, <3>1, AppendedTo
  <2>7. acc \o (rec \o rest) = (acc \o rec) \o rest
    BY <2>6 DEF After
  <2> QED  BY <2>5, <2>7, <1>6 DEF rest
<1>9. ASSUME NEW k \in 0..Done - 1
      PROVE  AnswerByte(k)' = StreamByte(both, k)
  <2>1. AnswerByte(k)' = AnswerByte(k)
    <3>1. \A q \in taken..Done - 1 : Tape'[q] = Tape[q]
      <4>1. Pipe!Execute  BY RecordExecutes
      <4>2. \A q \in taken..(fed - Pending) - 1 : Tape'[q] = Tape[q]
        BY <4>1 DEF Pipe!Execute, Pipe!Kept
      <4> QED  BY <4>2 DEF Done
    <3> QED  BY <3>1, <1>1, AnswerKept
  <2>2. AnswerByte(k) = StreamByte(acc, k)  BY <1>3 DEF AnsweredBy
  <2>3. PICK m \in Nat, b \in 0..3 : k = 4 * m + b
    <3>1. k \in Nat  BY <1>2
    <3> QED  BY <3>1, WordOfByte
  <2>4. (4 * m + b) \div 4 = m /\ (4 * m + b) % 4 = b  BY ByteOfWord
  <2>5. m + 1 \in 1..p - 1
    <3>1. 4 * m + b < 4 * (p - 1)  BY <2>3, <1>1, <1>2
    <3> HIDE DEF p
    <3> QED  BY <3>1, <1>2
  <2>6. both[m + 1] = acc[m + 1]  BY <2>5, <1>7
  <2>7. StreamByte(both, k) = StreamByte(acc, k)
    BY <2>3, <2>4, <2>6 DEF StreamByte
  <2> QED  BY <2>1, <2>2, <2>7
<1>10. ASSUME NEW k \in Done..Done' - 1
       PROVE  AnswerByte(k)' = StreamByte(both, k)
  <2> DEFINE j == k - Done
  <2>1. j \in Nat /\ j < 4 * (e - p) /\ k \in Nat /\ k = Done + j
    <3> HIDE DEF e
    <3> QED  BY <1>1, <1>2
  <2>2. PICK m \in Nat, b \in 0..3 : j = 4 * m + b
    BY <2>1, WordOfByte
  <2> HIDE DEF j
  <2>3. m \in 0..e - p - 1
    <3>1. 4 * m + b < 4 * (e - p)  BY <2>1, <2>2
    <3> HIDE DEF e, p
    <3> QED  BY <3>1, <1>1, <1>2 DEF p
  <2>4. buf'[RING_INDEX(i + j)] = <<rec[m + 1], b>>
    BY <2>2, <2>3, RecordInRing
  <2>5. /\ taken \in Nat /\ fed \in Nat /\ Done = fed - left /\ left \in Nat
        /\ taken <= Done /\ j < left
    <3>1. /\ taken \in Nat /\ fed \in Nat /\ left \in Nat /\ Pending = left
          /\ RING_READ_LEN \in Nat /\ left <= RING_PROC_LEN
          /\ RING_PROC_LEN \in Nat
          /\ taken + RING_READ_LEN + RING_PROC_LEN = fed
      BY <1>1, Counts
    <3>2. Done = fed - left  BY <3>1 DEF Done
    <3>3. taken <= Done  BY <3>1, <3>2
    <3>4. RecordLen(h) = 4 * (e - p)  BY <1>1, RecordRead
    <3>5. j < left
      <4> HIDE DEF h, e, p
      <4> QED  BY <3>1, <3>4, <2>1, <1>1, <1>2 DEF p
    <3> QED  BY <3>1, <3>2, <3>3, <3>5
  <2>6. AnswerByte(k)' = buf'[RING_INDEX(sent + (k - taken))]
    <3>1. ~(k < taken)  BY <2>1, <2>5, <1>2
    <3> QED  BY <3>1, <1>1 DEF AnswerByte, RING_INDEX
  <2>7. k - taken = (fed - left) + j - taken
    BY <2>1, <2>5, <1>2
  <2>8. RING_INDEX(sent + ((fed - left) + j - taken)) = RING_INDEX(i + j)
    BY <2>1, <2>5, <1>1, SameTape
  <2>9. AnswerByte(k)' = <<rec[m + 1], b>>
    BY <2>4, <2>6, <2>7, <2>8
  <2>10. StreamByte(both, k) = <<rec[m + 1], b>>
    <3> DEFINE q == (p - 1) + m
    <3>1. q \in Nat /\ k = 4 * q + b /\ q + 1 = (p - 1) + (m + 1)
      BY <2>1, <2>2, <1>1, <1>2
    <3>2. m + 1 \in 1..e - p
      <4> HIDE DEF e, p
      <4> QED  BY <2>3, <1>1, <1>2 DEF p
    <3> HIDE DEF q
    <3>3. (4 * q + b) \div 4 = q /\ (4 * q + b) % 4 = b  BY <3>1, ByteOfWord
    <3>4. both[q + 1] = rec[m + 1]
      <4> HIDE DEF rec, e, p
      <4>1. both[(p - 1) + (m + 1)] = rec[m + 1]  BY <3>2, <1>7
      <4> QED  BY <4>1, <3>1
    <3> QED  BY <3>1, <3>3, <3>4 DEF StreamByte
  <2> QED  BY <2>9, <2>10
<1>11. ASSUME NEW k \in 0..Done' - 1
       PROVE  AnswerByte(k)' = StreamByte(both, k)
  <2>1. k \in 0..Done - 1 \/ k \in Done..Done' - 1
    <3> HIDE DEF e
    <3> QED  BY <1>1, <1>2
  <2> QED  BY <2>1, <1>9, <1>10
<1>12. AnsweredBy(both)'
  BY <1>1, <1>7, <1>8, <1>11 DEF AnsweredBy
<1> QED  BY <1>12 DEF AnsweredSoFar

\* The probe is answered, and nothing is executed.
LEMMA ProbeFaithful ==
  ASSUME StreamsParse, IInv, IInv', StreamIntact, Faithful, Sound, process_probe
  PROVE  Faithful'
<1>1. /\ state = "header" /\ Open /\ pc = "enter" /\ pc' = "enter"
      /\ sent = 0 /\ processed = 0 /\ taken = 0
      /\ UNCHANGED <<sent, taken, fed>>
      /\ buf' = [x \in 0..RING_SIZE - 1 |->
                  IF x < 4 THEN <<ProbeResp, x>> ELSE buf[x]]
      /\ fed \in Nat /\ fed >= 8 /\ fed <= RING_SIZE
      /\ RING_PROC_LEN = fed /\ Done = 0 /\ Done' = 8
  BY ProbeNumbers
<1>2. /\ state' = "idle" /\ stream' = stream /\ bus' = bus /\ bus = <<>>
      /\ Sound' /\ stream \in Streams /\ Raised' = TRUE
  BY <1>1 DEF process_probe, user, Faithful, Executed, AtRecord, Sound, Open,
              Raised
<1>3. /\ stream \in Seq(Word) /\ Len(stream) \in Nat /\ Len(stream) >= 2
      /\ stream[2] \in Word
  <2>1. stream \in Seq(Word) /\ fed <= 4 * Len(stream) /\ Len(stream) \in Nat
    BY DEF IInv, UserOK
  <2> QED  BY <2>1, <1>1
<1>4. Done' \div 4 = 2 /\ Here' = 3 /\ Done' % 4 = 0 /\ Done' - 1 = 7
  <2>1. (4 * 2 + 0) \div 4 = 2 /\ (4 * 2 + 0) % 4 = 0  BY ByteOfWord
  <2>2. Done' \div 4 = 2 /\ Done' % 4 = 0  BY <2>1, <1>1
  <2> QED  BY <2>2, <1>1 DEF Here
<1>5. AtRecord'
  <2>1. \E S : Parse(stream, S)  BY <1>2 DEF StreamsParse, Sound
  <2>2. Parse(stream, Starts(stream))  BY <2>1 DEF Starts
  <2>3. 3 \in Starts(stream)  BY <2>2 DEF Parse
  <2> QED  BY <2>3, <1>1, <1>2, <1>4 DEF AtRecord
<1>6. Executed'
  <2>1. ASSUME NEW n \in 2..Len(stream)
        PROVE  Meaning(stream, n)
                 = <<>> \o MeaningFrom(stream, n)[<<3, TRUE>>]
    <3>1. n \in 0..Len(stream) /\ 3 \in 1..n + 1 /\ ~(n < 2)  BY <1>3
    <3>2. MeaningFrom(stream, n)[<<3, TRUE>>] \in Seq(Operations)
      BY <3>1, <1>3, MeaningUnfolds
    <3>3. <<>> \o MeaningFrom(stream, n)[<<3, TRUE>>]
            = MeaningFrom(stream, n)[<<3, TRUE>>]
      BY <3>2, ConcatEmptySeq
    <3> QED  BY <3>1, <3>3 DEF Meaning
  <2>2. bus' \in Seq(Operations)  BY <1>2
  <2> QED  BY <2>1, <2>2, <1>2, <1>4 DEF Executed
<1>7. AnsweredSoFar'
  <2> DEFINE a == <<ProbeResp, stream[2]>>
  <2>1. PICK acc : acc = a  OBVIOUS
  <2>2. /\ acc \in Seq(Answers) /\ Len(acc) = 2
        /\ acc[1] = ProbeResp /\ acc[2] = stream[2]
    <3>1. ProbeResp \in Answers /\ stream[2] \in Answers  BY <1>3 DEF Answers
    <3> QED  BY <3>1, <2>1
  <2>3. ASSUME NEW n \in 2..Len(stream)
        PROVE  Reply(stream, n) = acc \o ReplyFrom(stream, n)[3]
    <3>1. ~(n < 2)  BY <1>3
    <3> QED  BY <3>1, <2>1 DEF Reply
  <2>4. ASSUME NEW k \in 0..7 PROVE AnswerByte(k)' = StreamByte(acc, k)
    <3>1. k \in 0..RING_SIZE - 1 /\ k \in Nat /\ k - 0 = k /\ 0 + k = k
          /\ ~(k < 0)
      BY <1>1, Sizes
    <3>2. RING_INDEX(k) = k  BY <3>1, IndexCases
    <3>3. AnswerByte(k)' = buf'[k]
      BY <3>1, <3>2, <1>1 DEF AnswerByte, RING_INDEX
    <3>4. CASE k < 4
      <4>1. k \in 0..3 /\ 4 * 0 + k = k  BY <3>4, <3>1
      <4>2. (4 * 0 + k) \div 4 = 0 /\ (4 * 0 + k) % 4 = k  BY <4>1, ByteOfWord
      <4>3. k \div 4 = 0 /\ k % 4 = k  BY <4>1, <4>2
      <4>4. StreamByte(acc, k) = <<ProbeResp, k>>
        BY <4>3, <2>2 DEF StreamByte
      <4>5. buf'[k] = <<ProbeResp, k>>  BY <3>1, <3>4, <1>1
      <4> QED  BY <3>3, <4>4, <4>5
    <3>5. CASE k >= 4
      <4> DEFINE b == k - 4
      <4>1. b \in 0..3 /\ 4 * 1 + b = k  BY <3>5, <3>1
      <4> HIDE DEF b
      <4>2. (4 * 1 + b) \div 4 = 1 /\ (4 * 1 + b) % 4 = b  BY <4>1, ByteOfWord
      <4>3. k \div 4 = 1 /\ k % 4 = b  BY <4>1, <4>2
      <4>4. StreamByte(acc, k) = <<stream[2], b>>
        BY <4>3, <2>2 DEF StreamByte
      <4>5. StreamByte(stream, k) = <<stream[2], b>>
        BY <4>3 DEF StreamByte
      <4>6. buf'[k] = buf[k]  BY <3>1, <3>5, <1>1
      <4>7. buf[k] = StreamByte(stream, k)
        <5>1. pc # "process" /\ k \in 0..RING_PROC_LEN - 1 /\ fed - RING_PROC_LEN + k = k
          BY <1>1, <3>1
        <5>2. buf[RING_INDEX(processed + k)]
                = StreamByte(stream, fed - RING_PROC_LEN + k)
          BY <5>1 DEF StreamIntact, Sound
        <5> QED  BY <5>1, <5>2, <3>1, <3>2, <1>1
      <4> QED  BY <3>3, <4>4, <4>5, <4>6, <4>7
    <3> QED  BY <3>4, <3>5, <3>1
  <2>5. AnsweredBy(acc)'
    BY <2>2, <2>3, <2>4, <1>2, <1>4 DEF AnsweredBy
  <2> QED  BY <2>5 DEF AnsweredSoFar
<1>8. CaughtUp'
  BY <1>1 DEF CaughtUp
<1> QED  BY <1>5, <1>6, <1>7, <1>8 DEF Faithful

\* What executes nothing and leaves the answers alone.
LEMMA QuietStep ==
  ASSUME IInv, Faithful, Sound', UNCHANGED <<state, stream, bus>>, Done' = Done,
         \A k \in 0..Done - 1 : AnswerByte(k)' = AnswerByte(k)
  PROVE  AtRecord' /\ Executed' /\ AnsweredSoFar'
<1>1. Sound  BY DEF Sound, Open
<1>2. Here' = Here /\ Raised' = Raised  BY DEF Here, Raised
<1>3. AtRecord'  BY <1>1, <1>2 DEF Faithful, AtRecord
<1>4. Executed'  BY <1>1, <1>2 DEF Faithful, Executed
<1>5. AnsweredSoFar'
  <2> SUFFICES ASSUME state' # "header" PROVE \E acc : AnsweredBy(acc)'
    BY DEF AnsweredSoFar
  <2>1. PICK acc : AnsweredBy(acc)
    BY <1>1 DEF Faithful, AnsweredSoFar
  <2>2. AnsweredBy(acc)'
    BY <2>1, <1>2 DEF AnsweredBy
  <2> QED  BY <2>2
<1> QED  BY <1>3, <1>4, <1>5

\* An answer is read in the order in which it was given.
LEMMA ReadFaithful ==
  ASSUME IInv, Faithful, Sound', NEW n \in IovLens, char_master_aio_read(n)
  PROVE  Faithful'
<1>1. /\ pc = "unlocked" /\ pc' = "unlocked" /\ Open
      /\ UNCHANGED <<state, stream, bus, fed>>
  BY DEF char_master_aio_read, Open
<1>2. Sound  BY <1>1 DEF Sound
<1>3. Pipe!Take  BY ReadTakes
<1>4. Done' = Done
  BY <1>3 DEF Pipe!Take, Done
<1>5. /\ taken' \in taken..Done
      /\ out' = [m \in 1..taken' |-> IF m <= taken THEN out[m] ELSE Tape[m - 1]]
      /\ \A q \in taken'..fed - 1 : Tape'[q] = Tape[q]
  BY <1>3 DEF Pipe!Take, Pipe!Kept, Done
<1>6. taken \in Nat /\ fed \in Nat /\ Done \in Nat /\ Done <= fed
  <2>1. Done \in Nat /\ Pending \in Nat /\ fed \in Nat /\ fed = Done + Pending
    BY <1>2, Progress DEF Faithful
  <2>2. taken \in Nat  BY <1>1, Counts
  <2> QED  BY <2>1, <2>2
<1>7. ASSUME NEW k \in 0..Done - 1 PROVE AnswerByte(k)' = AnswerByte(k)
  <2>1. k \in Nat /\ k <= fed - 1 /\ taken' \in Nat /\ taken <= taken'
    BY <1>5, <1>6
  <2>2. k >= taken => AnswerByte(k) = Tape[k]
    BY <2>1, <1>6 DEF AnswerByte, Tape
  <2>3. CASE k < taken
    <3>1. k + 1 \in 1..taken' /\ k + 1 <= taken /\ k < taken'
      BY <2>1, <2>3, <1>6
    <3>2. out'[k + 1] = out[k + 1]  BY <3>1, <1>5
    <3> QED  BY <3>1, <3>2, <2>3 DEF AnswerByte
  <2>4. CASE k >= taken /\ k < taken'
    <3>1. k + 1 \in 1..taken' /\ ~(k + 1 <= taken) /\ (k + 1) - 1 = k
      BY <2>1, <2>4, <1>6
    <3>2. out'[k + 1] = Tape[k]  BY <3>1, <1>5
    <3> QED  BY <3>2, <2>2, <2>4 DEF AnswerByte
  <2>5. CASE k >= taken'
    <3>1. k \in taken'..fed - 1 /\ k \in taken'..fed' - 1 /\ ~(k < taken') /\ k >= taken
      BY <2>1, <2>5, <1>1, <1>6
    <3>2. Tape'[k] = buf'[RING_INDEX(sent' + (k - taken'))]
      BY <3>1 DEF Tape, RING_INDEX
    <3>3. AnswerByte(k)' = Tape'[k]  BY <3>1, <3>2 DEF AnswerByte, RING_INDEX
    <3> QED  BY <3>1, <3>3, <2>2, <1>5
  <2> QED  BY <2>1, <2>3, <2>4, <2>5, <1>6
<1>8. CaughtUp'
  <2>1. Here' = Here  BY <1>4 DEF Here
  <2> QED  BY <2>1, <1>1, <1>2 DEF Faithful, CaughtUp
<1> QED  BY <1>1, <1>4, <1>7, <1>8, QuietStep DEF Faithful

\* A write adds to the stream, behind what was executed.
LEMMA WriteFaithful ==
  ASSUME IInv, IInv', StreamIntact, StreamIntact', Faithful, Sound',
         NEW n \in IovLens, char_master_aio_write(n)
  PROVE  Faithful'
<1>1. /\ pc' = "enter" /\ Open /\ UNCHANGED <<state, stream, bus, taken, out, sent>>
  BY DEF char_master_aio_write, Open
<1>2. Sound  BY <1>1 DEF Sound
<1>3. Pipe!Accept  BY WriteAccepts
<1>4. Done' = Done
  BY <1>3 DEF Pipe!Accept, Done
<1>5. fed' \in fed..taken + RING_SIZE /\ \A q \in taken..fed - 1 : Tape'[q] = Tape[q]
  BY <1>3 DEF Pipe!Accept, Pipe!Kept
<1>6. taken \in Nat /\ fed \in Nat /\ Done \in Nat /\ Done <= fed
  <2>1. Done \in Nat /\ Pending \in Nat /\ fed \in Nat /\ fed = Done + Pending
    BY <1>2, Progress DEF Faithful
  <2>2. taken \in Nat  BY <1>1, Counts
  <2> QED  BY <2>1, <2>2
<1>7. ASSUME NEW k \in 0..Done - 1 PROVE AnswerByte(k)' = AnswerByte(k)
  <2>1. CASE k < taken  BY <2>1, <1>1 DEF AnswerByte
  <2>2. CASE ~(k < taken)
    <3>1. k \in taken..fed - 1 /\ k \in taken'..fed' - 1
      <4>1. fed' \in Nat /\ fed <= fed' /\ taken' = taken
        BY <1>1, <1>5, <1>6, Sizes DEF IInv, TypeOK
      <4> DEFINE d == Done
      <4>2. d \in Nat /\ d <= fed /\ k \in 0..d - 1  BY <1>6, <1>7
      <4> HIDE DEF d
      <4>3. PICK end \in Nat : fed' = end  BY <4>1
      <4>4. k \in taken..fed - 1 /\ k \in taken..end - 1
        BY <4>1, <4>2, <4>3, <2>2, <1>6
      <4> QED  BY <4>1, <4>3, <4>4
    <3>2. AnswerByte(k) = Tape[k]  BY <3>1, <2>2 DEF AnswerByte, Tape
    <3>3. Tape'[k] = buf'[RING_INDEX(sent' + (k - taken'))]
      BY <3>1 DEF Tape, RING_INDEX
    <3>4. AnswerByte(k)' = Tape'[k]
      BY <3>3, <2>2, <1>1 DEF AnswerByte, RING_INDEX
    <3> QED  BY <3>1, <3>2, <3>4, <1>5
  <2> QED  BY <2>1, <2>2
<1>8. CaughtUp'  BY <1>1 DEF CaughtUp
<1> QED  BY <1>1, <1>4, <1>7, <1>8, QuietStep DEF Faithful

\* The steps that change neither the ring nor what is accepted or read.
LEMMA StillFaithful ==
  ASSUME IInv, Faithful, Sound',
         UNCHANGED <<state, stream, bus, buf, sent, taken, fed, out>>,
         Pending' = Pending
  PROVE  /\ AtRecord' /\ Executed' /\ AnsweredSoFar'
         /\ Done' = Done /\ Here' = Here
<1>1. Done' = Done  BY DEF Done
<1>2. \A k : AnswerByte(k)' = AnswerByte(k)
  BY DEF AnswerByte, RING_INDEX
<1>3. Here' = Here  BY <1>1 DEF Here
<1> QED  BY <1>1, <1>2, <1>3, QuietStep

\* The loop stops when no complete record is left.
LEMMA DoneFaithful ==
  ASSUME StreamsParse, IInv, StreamIntact, Faithful, Sound', process_done
  PROVE  Faithful'
<1>1. /\ UNCHANGED <<state, stream, bus, buf, sent, taken, fed, out>>
      /\ pc = "process" /\ pc' = "unlocked"
      /\ left < 4 \/ \E h \in HeadersOf(WordAt(i)) : left < RecordLen(h)
  BY DEF process_done, user
<1>2. Sound  BY <1>1 DEF Sound, Open
<1>3. Pending' = Pending
  BY <1>1, DoneLength DEF Pending
<1>4. state # "header"  BY <1>1 DEF IInv, ControlOK
<1>5. ~Whole(stream, Here, fed \div 4)
  <2>1. CASE left < 4
    <3>1. /\ fed \in Nat /\ fed = Done + Pending /\ Done = 4 * (Here - 1)
          /\ Here \in Nat
      BY <1>2, Progress DEF Faithful
    <3>2. left \in Nat /\ Pending = left  BY <1>1, <1>2, Counts DEF Sound
    <3> DEFINE p == Here
    <3>3. fed = 4 * (p - 1) + left /\ p \in Nat  BY <3>1, <3>2
    <3> HIDE DEF p
    <3>4. ~(p <= fed \div 4)  BY <3>2, <3>3, <2>1
    <3> QED  BY <3>4 DEF Whole, p
  <2>2. CASE left >= 4
    <3>1. PICK h \in HeadersOf(WordAt(i)) : left < RecordLen(h)
      <4>1. left \in Nat  BY <1>1, <1>2, Counts DEF Sound
      <4>2. ~(left < 4)  BY <4>1, <2>2
      <4> QED  BY <4>2, <1>1
    <3>2. /\ HeadersOf(WordAt(i)) = {HeaderAt(stream, Here)}
          /\ left >= RecordLen(HeaderAt(stream, Here))
               <=> Whole(stream, Here, fed \div 4)
          /\ RecordLen(HeaderAt(stream, Here)) \in Nat
      BY <1>1, <1>2, <2>2, RecordRead DEF Faithful
    <3>3. h = HeaderAt(stream, Here)  BY <3>1, <3>2
    <3>4. left \in Nat  BY <1>1, <1>2, Counts DEF Sound
    <3>5. ~(left >= RecordLen(h))
      <4> DEFINE L == RecordLen(h)
      <4>1. L \in Nat /\ left < L  BY <3>1, <3>2, <3>3
      <4> HIDE DEF L
      <4>2. ~(left >= L)  BY <4>1, <3>4
      <4> QED  BY <4>2 DEF L
    <3> QED  BY <3>2, <3>3, <3>5
  <2>3. left \in Nat  BY <1>1, <1>2, Counts DEF Sound
  <2> QED  BY <2>1, <2>2, <2>3
<1>6. /\ AtRecord' /\ Executed' /\ AnsweredSoFar' /\ Here' = Here
  BY <1>1, <1>3, StillFaithful
<1>7. CaughtUp'
  BY <1>1, <1>4, <1>5, <1>6 DEF CaughtUp
<1> QED  BY <1>6, <1>7 DEF Faithful

\* A file that is opened has executed nothing.
LEMMA OpenFaithful ==
  ASSUME IInv, char_master_open
  PROVE  Faithful'
<1>1. /\ state = "closed" /\ state' = "header" /\ stream' \in Streams
      /\ bus' = <<>> /\ fed' = 0
  BY DEF char_master_open
<1>2. Done' = 0
  <2>1. Pipe!Open  BY OpenOpens
  <2> QED  BY <2>1 DEF Pipe!Open, Done
<1>3. 0 % 4 = 0 /\ <<>> \in Seq(Operations)  OBVIOUS
<1> QED  BY <1>1, <1>2, <1>3
         DEF Faithful, AtRecord, Executed, AnsweredSoFar, CaughtUp

\* Every step of a file whose stream can be copied.
LEMMA NextFaithful ==
  ASSUME StreamsParse, IInv, IInv', StreamIntact, StreamIntact', Faithful,
         [Next]_vars
  PROVE  Faithful'
<1>0. ~Sound' => Faithful'
  BY DEF Faithful, AtRecord, Executed, AnsweredSoFar, CaughtUp
<1>1. CASE char_master_open  BY <1>1, OpenFaithful
<1>2. CASE char_master_release
  <2>1. ~Sound'  BY <1>2 DEF char_master_release, Sound, Open
  <2> QED  BY <2>1, <1>0
<1>3. ASSUME NEW n \in IovLens, char_master_aio_read(n) PROVE Faithful'
  BY <1>3, <1>0, ReadFaithful
<1>4. ASSUME NEW n \in IovLens, char_master_aio_write(n) PROVE Faithful'
  BY <1>4, <1>0, WriteFaithful
<1>5. CASE process_wait
  <2> SUFFICES ASSUME Sound' PROVE Faithful'  BY <1>0
  <2>1. /\ UNCHANGED <<state, stream, bus, buf, sent, processed, received,
                       taken, fed, out, left>>
        /\ pc = "enter" /\ pc' = "unlocked" /\ state = "header" /\ received < 8
    BY <1>5 DEF process_wait, cursors, user, locals
  <2>2. Pending' = Pending  BY <2>1 DEF Pending, RING_PROC_LEN, RING_POS
  <2>3. fed < 8
    <3>1. /\ sent = 0 /\ processed = 0 /\ taken = 0 /\ Open
          /\ received \in Nat /\ received \in Position /\ 0 \in Position
      BY <2>1, Sizes DEF IInv, ControlOK, TypeOK, Position, Open
    <3>2. RING_PROC_LEN = received /\ RING_READ_LEN = 0
      <4>1. RING_PROC_LEN = Ahead(received, 0) /\ RING_READ_LEN = Ahead(0, 0)
        BY <3>1, Lengths
      <4> QED  BY <4>1, <3>1 DEF Ahead
    <3>3. fed = received  BY <3>1, <3>2, Counts
    <3> QED  BY <3>3, <2>1
  <2>4. AtRecord' /\ Executed' /\ AnsweredSoFar'
    BY <2>1, <2>2, StillFaithful
  <2> QED  BY <2>1, <2>3, <2>4 DEF Faithful, CaughtUp
<1>6. CASE process_probe
  <2>1. stream' = stream /\ state # "closed"
    BY <1>6 DEF process_probe, user
  <2>2. Sound' => Sound  BY <2>1 DEF Sound, Open
  <2> QED  BY <1>6, <1>0, <2>2, ProbeFaithful
<1>7. CASE process_start
  <2> SUFFICES ASSUME Sound' PROVE Faithful'  BY <1>0
  <2>1. /\ UNCHANGED <<state, stream, bus, buf, sent, processed, received,
                       taken, fed, out>>
        /\ pc = "enter" /\ pc' = "process" /\ left' = RING_PROC_LEN
    BY <1>7 DEF process_start, cursors, user
  <2>2. Pending' = Pending  BY <2>1 DEF Pending, RING_PROC_LEN, RING_POS
  <2>3. AtRecord' /\ Executed' /\ AnsweredSoFar'
    BY <2>1, <2>2, StillFaithful
  <2> QED  BY <2>1, <2>3 DEF Faithful, CaughtUp
<1>8. CASE process_record
  <2> SUFFICES ASSUME Sound' PROVE Faithful'  BY <1>0
  <2>1. pc' = "process" /\ pc = "process" /\ stream' = stream
    BY <1>8 DEF process_record, user
  <2>2. Sound  BY <2>1 DEF Sound, IInv, ControlOK
  <2>3. AtRecord' /\ Executed'
    BY <1>8, <2>2, RecordExecuted DEF Faithful
  <2>4. AnsweredSoFar'
    BY <1>8, <2>2, RecordAnswered DEF Faithful
  <2> QED  BY <2>1, <2>3, <2>4 DEF Faithful, CaughtUp
<1>9. CASE process_done  BY <1>9, <1>0, DoneFaithful
<1>10. CASE UNCHANGED vars
  <2> SUFFICES ASSUME Sound' PROVE Faithful'  BY <1>0
  <2>1. UNCHANGED <<state, sent, processed, received, taken, fed,
                    stream, out, buf, pc, left, bus>>
    BY <1>10 DEF vars, cursors, user, locals
  <2>2. Pending' = Pending
    BY <2>1 DEF Pending, RING_PROC_LEN, RING_POS
  <2>3. AtRecord' /\ Executed' /\ AnsweredSoFar' /\ Here' = Here
    BY <2>1, <2>2, StillFaithful
  <2> QED  BY <2>1, <2>3 DEF Faithful, CaughtUp, Sound, Open
<1> QED  BY <1>1, <1>2, <1>3, <1>4, <1>5, <1>6, <1>7, <1>8, <1>9, <1>10
         DEF Next, Process

\* What the stream means, to the record at which the walk stands.
LEMMA FaithfulInvariant ==
  ASSUME StreamsParse
  PROVE  Spec => []Faithful
<1>1. Init => Faithful
  BY DEF Init, Faithful, AtRecord, Executed, AnsweredSoFar, CaughtUp, Sound, Open
<1>2. IInv /\ IInv' /\ StreamIntact /\ StreamIntact' /\ Faithful /\ [Next]_vars
        => Faithful'
  BY NextFaithful
<1> QED  BY <1>1, <1>2, Invariance, StreamStaysIntact, PTL DEF Spec

\* A file whose mutex is free has issued the operations of the complete
\* records, each once and in order.
THEOREM BusIsFaithful ==
  ASSUME StreamsParse
  PROVE  Spec => []BusFaithful
<1>1. IInv /\ Faithful => BusFaithful
  <2> SUFFICES ASSUME IInv, Faithful, Sound, pc = "unlocked"
               PROVE  bus = Meaning(stream, fed \div 4)
    BY DEF BusFaithful, Sound
  <2> DEFINE n == fed \div 4
  <2>1. /\ n \in Done \div 4..Len(stream) /\ stream \in Seq(Word)
        /\ fed \in Nat /\ Len(stream) \in Nat /\ Done \div 4 \in Nat
        /\ Here = Done \div 4 + 1
    BY Progress DEF Faithful, Here
  <2>2. CASE state = "header"
    <3>1. bus = <<>> /\ fed < 8  BY <2>2 DEF Faithful, Executed, CaughtUp
    <3>2. n < 2  BY <3>1, <2>1
    <3> QED  BY <3>1, <3>2 DEF Meaning
  <2>3. CASE state # "header"
    <3>1. Meaning(stream, n) = bus \o MeaningFrom(stream, n)[<<Here, Raised>>]
      BY <2>1, <2>3 DEF Faithful, Executed
    <3>2. ~Whole(stream, Here, n)  BY <2>3 DEF Faithful, CaughtUp
    <3>3. n \in 0..Len(stream) /\ Here \in 1..n + 1 /\ Raised \in BOOLEAN
      <4> HIDE DEF n
      <4>1. n \in 0..Len(stream) /\ Here \in 1..n + 1  BY <2>1
      <4> QED  BY <4>1 DEF Raised
    <3>4. MeaningFrom(stream, n)[<<Here, Raised>>] = <<>>
      BY <3>2, <3>3, <2>1, MeaningUnfolds
    <3>5. bus \in Seq(Operations)  BY DEF Faithful, Executed
    <3>6. bus \o <<>> = bus  BY <3>5, ConcatEmptySeq
    <3> QED  BY <3>1, <3>4, <3>6
  <2> QED  BY <2>2, <2>3
<1> QED  BY <1>1, FaithfulInvariant, Invariance, PTL

\* It has been answered what the complete records call for, byte for byte,
\* whether the answer was read already or not.
THEOREM RepliesAreFaithful ==
  ASSUME StreamsParse
  PROVE  Spec => []ReplyFaithful
<1>1. IInv /\ Faithful => ReplyFaithful
  <2> SUFFICES ASSUME IInv, Faithful, Sound, pc = "unlocked"
               PROVE  LET reply == Reply(stream, fed \div 4)
                      IN  /\ taken + RING_READ_LEN = 4 * Len(reply)
                          /\ \A k \in 0..4 * Len(reply) - 1 :
                               AnswerByte(k) = StreamByte(reply, k)
    BY DEF ReplyFaithful, Sound
  <2> DEFINE n == fed \div 4
             reply == Reply(stream, n)
  <2>1. /\ n \in Done \div 4..Len(stream) /\ stream \in Seq(Word)
        /\ fed \in Nat /\ Len(stream) \in Nat /\ Done \div 4 \in Nat
        /\ Here = Done \div 4 + 1 /\ Done = 4 * (Done \div 4) /\ Done \in Nat
    BY Progress DEF Faithful, Here
  <2>2. taken + RING_READ_LEN = Done
    <3>1. /\ taken \in Nat /\ RING_READ_LEN \in Nat /\ RING_PROC_LEN \in Nat
          /\ taken + RING_READ_LEN + RING_PROC_LEN = fed
          /\ Pending = RING_PROC_LEN
      BY Counts DEF Sound
    <3> QED  BY <3>1 DEF Done
  <2>3. CASE state = "header"
    <3>1. Done = 0 /\ fed < 8
      BY <2>3 DEF Faithful, AtRecord, CaughtUp
    <3>2. n < 2  BY <3>1, <2>1
    <3>3. reply = <<>> /\ Len(reply) = 0  BY <3>2 DEF Reply
    <3> HIDE DEF reply
    <3>4. 4 * Len(reply) = 0 /\ 0..4 * Len(reply) - 1 = {}  BY <3>3
    <3> QED  BY <3>1, <3>4, <2>2 DEF reply
  <2>4. CASE state # "header"
    <3>1. PICK acc : AnsweredBy(acc)
      BY <2>4 DEF Faithful, AnsweredSoFar
    <3>2. ~Whole(stream, Here, n)  BY <2>4 DEF Faithful, CaughtUp
    <3>3. n \in 0..Len(stream) /\ Here \in 1..n + 1
      <4> HIDE DEF n
      <4> QED  BY <2>1
    <3>4. ReplyFrom(stream, n)[Here] = <<>>
      BY <3>2, <3>3, <2>1, ReplyUnfolds
    <3>5. acc \o <<>> = acc
      <4>1. acc \in Seq(Answers)  BY <3>1 DEF AnsweredBy
      <4> QED  BY <4>1, ConcatEmptySeq
    <3>6. reply = acc
      BY <3>1, <3>4, <3>5, <2>1 DEF AnsweredBy
    <3>7. 4 * Len(acc) = Done
      BY <3>1, <2>1 DEF AnsweredBy
    <3>8. \A k \in 0..Done - 1 : AnswerByte(k) = StreamByte(acc, k)
      BY <3>1 DEF AnsweredBy
    <3> HIDE DEF reply
    <3> QED  BY <3>6, <3>7, <3>8, <2>2 DEF reply
  <2> QED  BY <2>3, <2>4
<1> QED  BY <1>1, FaithfulInvariant, Invariance, PTL
=============================================================================
