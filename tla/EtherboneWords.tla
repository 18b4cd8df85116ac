--------------------------- MODULE EtherboneWords ---------------------------
(***************************************************************************)
(* The words of an Etherbone stream as pcie-wb/wishbone.c understands      *)
(* them, and what a stream of words means: which operations it causes on   *)
(* the bus and how it is answered, whatever calls carried it.  Meaning and *)
(* answer are defined over whole streams, without ring, cursors or locks:  *)
(* EtherboneMaster models the code and is compared with them.              *)
(***************************************************************************)
EXTENDS Integers, Sequences

CONSTANTS
  MaxCount,   \* largest wcount or rcount; 255 in the code
  AddrSpace   \* number of bus addresses; 2^32 in the code

ASSUME WordsAssumption ==
  MaxCount \in Nat \ {0} /\ AddrSpace \in Nat \ {0}

Flags == {"BCA", "RCA", "RFF", "CYC", "WCA", "WFF"}

Header == [flags : SUBSET Flags, be : 0..15,
           wcount : 0..MaxCount, rcount : 0..MaxCount]

ZeroHeader == [flags |-> {}, be |-> 0, wcount |-> 0, rcount |-> 0]

\* The longest record is a header, a base address and MaxCount words to
\* write, a return address and MaxCount addresses to read.
MaxRecord == 4 * (2 * MaxCount + 3)

\* A word is a header, a plain 32-bit value, or a word of the negotiation.
Zero      == <<"dat", 0>>
ProbeResp == <<"probe_response">>
Garbled   == <<"garbled">>     \* four bytes that are not of one word
Word      == {<<"hdr", h>> : h \in Header}
               \cup {<<"dat", v>> : v \in 0..AddrSpace - 1}
               \cup {<<"probe">>, <<"probe_id">>}

\* Byte n (counted from 0) of a stream of words.
StreamByte(s, n) == <<s[(n \div 4) + 1], n % 4>>

ValueOf(w) == IF w[1] = "dat" THEN w[2] ELSE 0

\* What the hardware answers to a read: a fixed function of the address.
Answer(space, a) == <<space, a>>

(***************************************************************************)
(* The meaning of the first n words of a stream s, that starts with a      *)
(* probe of two words.  Each function walks over the records that end      *)
(* within the n words, from the one that starts at word p on.              *)
(***************************************************************************)
IsHeader(w)    == w[1] = "hdr" \/ w = Zero
HeaderAt(s, p) == IF s[p][1] = "hdr" THEN s[p][2] ELSE ZeroHeader

WritePart(h) == IF h.wcount = 0 THEN 0 ELSE 1 + h.wcount
ReadPart(h)  == IF h.rcount = 0 THEN 0 ELSE 1 + h.rcount
RecordEnd(s, p) ==
  p + 1 + WritePart(HeaderAt(s, p)) + ReadPart(HeaderAt(s, p))

Whole(s, p, n) == p <= n /\ RecordEnd(s, p) <= n + 1

\* S holds the starts of the records of s: a record of s starts where the
\* one before it ends, with a header.
Parse(s, S) ==
  /\ 3 \in S /\ S \subseteq Nat \ {0}
  /\ \A p \in S : p <= Len(s) =>
       /\ IsHeader(s[p])
       /\ Whole(s, p, Len(s)) => RecordEnd(s, p) \in S

\* The answer to the record at p: zeros in place of the write part, then a
\* header that writes back, and the values read after the return address.
RecordReply(s, p) ==
  LET h    == HeaderAt(s, p)
      r    == p + 1 + WritePart(h)          \* the return address
      back == [flags  |-> {f \in {"CYC", "WFF", "WCA"} :
                             \/ f = "CYC" /\ "CYC" \in h.flags
                             \/ f = "WFF" /\ "RFF" \in h.flags
                             \/ f = "WCA" /\ "BCA" \in h.flags},
               be     |-> h.be,
               wcount |-> h.rcount,
               rcount |-> 0]
      space == IF "RCA" \in h.flags THEN "cfg" ELSE "mem"
  IN  [k \in 1..WritePart(h) |-> Zero]
        \o <<<<"hdr", back>>>>
        \o [k \in 1..ReadPart(h) |->
              IF k = 1 THEN s[r] ELSE Answer(space, s[r + k - 1])]

\* The words of the answer to the records from p on.
ReplyFrom(s, n) ==
  LET f[p \in 1..n + 1] ==
        IF Whole(s, p, n) THEN RecordReply(s, p) \o f[RecordEnd(s, p)]
        ELSE <<>>
  IN  f

Reply(s, n) ==
  IF n < 2 THEN <<>> ELSE <<ProbeResp, s[2]>> \o ReplyFrom(s, n)[3]

\* The bus operations of the record at p; raise says if the cycle is down.
RecordMeaning(s, p, raise) ==
  LET h   == HeaderAt(s, p)
      r   == p + 1 + WritePart(h)
      inc == IF "WFF" \in h.flags THEN 0 ELSE 4
      wr(k) == <<"write", (ValueOf(s[p + 1]) + inc * (k - 1)) % AddrSpace,
                 s[p + 1 + k]>>
      rd(k) == <<IF "RCA" \in h.flags THEN "read_cfg" ELSE "read", s[r + k]>>
  IN  (IF raise THEN <<<<"cycle", 1>>>> ELSE <<>>)
        \o <<<<"byteenable", h.be>>>>
        \o [k \in 1..(IF "WCA" \in h.flags THEN 0 ELSE h.wcount) |-> wr(k)]
        \o [k \in 1..h.rcount |-> rd(k)]
        \o (IF "CYC" \in h.flags THEN <<<<"cycle", 0>>>> ELSE <<>>)

\* What comes after the record at p: where, and if the cycle is down there.
Following(s, p) == <<RecordEnd(s, p), "CYC" \in HeaderAt(s, p).flags>>

\* The bus operations of the records from word c[1] on; c[2] is raise.
MeaningFrom(s, n) ==
  LET f[c \in (1..n + 1) \X BOOLEAN] ==
        IF Whole(s, c[1], n)
        THEN RecordMeaning(s, c[1], c[2]) \o f[Following(s, c[1])]
        ELSE <<>>
  IN  f

Meaning(s, n) == IF n < 2 THEN <<>> ELSE MeaningFrom(s, n)[<<3, TRUE>>]
=============================================================================
