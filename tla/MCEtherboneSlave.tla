-------------------------- MODULE MCEtherboneSlave --------------------------
(***************************************************************************)
(* Instances of EtherboneSlave for TLC.                                    *)
(***************************************************************************)
EXTENDS EtherboneSlave

Hdr(wca, wff, be, w, r) ==
  [tag |-> "hdr", wca |-> wca, wff |-> wff, be |-> be, wcount |-> w, rcount |-> r]
Base(a) == [tag |-> "base", addr |-> a]
Val(x)  == [tag |-> "val", v |-> x]
Zero    == Val(0)

Reply      == <<Hdr(TRUE, FALSE, 15, 2, 0), Base("DATA"), Val(1), Val(0)>>
ReplyTwice == <<Hdr(TRUE, TRUE, 15, 2, 0), Base("ERR"), Val(0), Val(1)>>
TooLong    == <<Hdr(TRUE, FALSE, 15, 3, 0), Base("DATA"), Val(1), Val(0), Val(2)>>
JustData   == <<Hdr(TRUE, TRUE, 15, 1, 0), Base("DATA"), Val(2)>>
NotConfig  == <<Hdr(FALSE, FALSE, 15, 1, 0), Base("ERR"), Val(1)>>
Read       == <<Hdr(TRUE, FALSE, 15, 0, 1), Base("other"), Base("DATA")>>
Bare       == <<Hdr(FALSE, FALSE, 15, 0, 0)>>

SomeMessages ==
  {ReplyTwice, JustData, NotConfig, Read, Bare \o Reply, Reply \o Bare,
   TooLong \o Reply}

\* The answer to the probe echoes its identifier, zero; it may be followed at
\* once by a record.
AllGreetings ==
  {<<[tag |-> "response"], Zero>>, <<[tag |-> "response"], Zero>> \o Reply,
   <<[tag |-> "noise"], Zero>>}
=============================================================================
