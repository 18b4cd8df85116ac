---------------------------- MODULE EtherbonePipe ----------------------------
(***************************************************************************)
(* What an open file of the master device (pcie-wb/wishbone.c) is to its   *)
(* user: a tape of bytes without end.  The user appends to it (write), the *)
(* driver replaces the bytes in order by their answers, the user takes     *)
(* these in order (read); no more than Size bytes are on their way.  There *)
(* is no ring, no cursor that wraps and no walk: EtherboneMaster           *)
(* implements it with all of these.                                        *)
(***************************************************************************)
EXTENDS EtherboneWords

CONSTANTS
  Size        \* bytes on their way at most

VARIABLES
  open,       \* whether the file is open
  stream,     \* the words the user sends
  whole,      \* whether every byte of them can be copied
  taken, done, fed,  \* bytes read, executed and accepted so far
  tape,       \* the bytes at positions taken..fed - 1
  out         \* the bytes read so far

pipe == <<open, stream, whole, taken, done, fed, tape, out>>

Init ==
  /\ open = FALSE
  /\ taken = 0 /\ done = 0 /\ fed = 0
  /\ DOMAIN tape = {} /\ out = <<>>

Open ==
  /\ ~open /\ open'
  /\ taken' = 0 /\ done' = 0 /\ fed' = 0
  /\ DOMAIN tape' = {} /\ out' = <<>>

Close ==
  /\ open /\ ~open'
  /\ UNCHANGED <<stream, whole, taken, done, fed, tape, out>>

\* The tape holds the bytes on their way; those at positions S are the same.
Kept(S) ==
  /\ DOMAIN tape' = taken'..fed' - 1
  /\ \A p \in S : tape'[p] = tape[p]

\* The next bytes of the user are appended, as far as there is room.
Accept ==
  /\ fed' \in fed..taken + Size /\ UNCHANGED <<taken, done, out>>
  /\ Kept(taken..fed - 1)
  /\ whole => \A p \in fed..fed' - 1 : tape'[p] = StreamByte(stream, p)

\* The next bytes that were accepted are executed and become their answer.
Execute ==
  /\ done' \in done..fed /\ UNCHANGED <<taken, fed, out>>
  /\ Kept((taken..done - 1) \cup (done'..fed - 1))

\* The next bytes of the answer are taken from the tape.
Take ==
  /\ taken' \in taken..done /\ UNCHANGED <<done, fed>>
  /\ out' = [n \in 1..taken' |-> IF n <= taken THEN out[n] ELSE tape[n - 1]]
  /\ Kept(taken'..fed - 1)

Next ==
  \/ Open
  \/ Close
  \/ open /\ UNCHANGED <<open, stream, whole>> /\ (Accept \/ Execute \/ Take)

Spec == Init /\ [][Next]_pipe
=============================================================================
