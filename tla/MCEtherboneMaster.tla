------------------------- MODULE MCEtherboneMaster -------------------------
(***************************************************************************)
(* Instances of EtherboneMaster for TLC.                                   *)
(***************************************************************************)
EXTENDS EtherboneMaster

Hdr(flags, be, w, r) ==
  <<"hdr", [flags |-> flags, be |-> be, wcount |-> w, rcount |-> r]>>

Dat(v) == <<"dat", v>>
Probe  == <<<<"probe">>, <<"probe_id">>>>

\* Records with every combination of empty and non-empty parts, of the flags
\* the code tests, and the longest record.
WriteHigh == <<Hdr({"CYC"}, 15, 2, 0), Dat(12), Dat(1), Dat(2)>>
WriteFifo == <<Hdr({"WFF", "RFF"}, 3, 2, 0), Dat(8), Dat(3), Dat(4)>>
WriteCfg  == <<Hdr({"WCA", "BCA", "CYC"}, 15, 1, 0), Dat(4), Dat(5)>>
ReadMem   == <<Hdr({"RFF"}, 12, 0, 2), Dat(9), Dat(4), Dat(8)>>
ReadCfg   == <<Hdr({"RCA", "BCA", "CYC"}, 15, 0, 1), Dat(7), Dat(0)>>
Longest   == <<Hdr({"CYC"}, 1, 2, 2), Dat(0), Dat(6), Dat(7),
               Dat(10), Dat(11), Dat(13)>>
Empty     == <<Hdr({"CYC"}, 15, 0, 0)>>
Nothing   == <<Zero>>

Records == {WriteHigh, WriteFifo, WriteCfg, ReadMem, ReadCfg, Longest,
            Empty, Nothing}

\* Pairs of records with one part, every record after the longest one and
\* before a part of it, and one stream long enough for every cursor to wrap
\* twice past the end of the ring.
OnePart == {WriteHigh, WriteFifo, WriteCfg, ReadMem, ReadCfg}

AllStreams ==
  {Probe \o a \o b : a \in OnePart \cup {Nothing}, b \in OnePart}
    \cup {Probe \o ReadMem \o Longest \o b : b \in Records}
    \cup {Probe \o a \o SubSeq(Longest, 1, 6) : a \in Records}
    \cup {Probe \o Longest \o ReadMem \o Longest \o WriteFifo \o ReadCfg
            \o Longest}

\* Where the records of a stream start: what the theorems on these streams
\* suppose.
Starts(s) ==
  LET f[p \in 1..Len(s) + 1] ==
        {p} \cup (IF Whole(s, p, Len(s)) THEN f[RecordEnd(s, p)] ELSE {})
  IN  f[3]

ASSUME AllParse == \A s \in AllStreams : Parse(s, Starts(s))

\* A stream that is longer than the ring; a call that copies it may fault.
FaultyStreams == {Probe \o Longest}

UserStreams == AllStreams \cup FaultyStreams

Headers == {[flags |-> {}, be |-> 15, wcount |-> 2, rcount |-> 2],
            [flags |-> {"CYC"}, be |-> 15, wcount |-> 0, rcount |-> 1]}
=============================================================================
