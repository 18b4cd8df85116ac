------------------------------ MODULE MCCardBus ------------------------------
(***************************************************************************)
(* Instances of CardBus for TLC.                                           *)
(***************************************************************************)
EXTENDS CardBus

Word(a, b, c, d) == [n \in Lane |-> CASE n = 0 -> a [] n = 1 -> b
                                       [] n = 2 -> c [] n = 3 -> d]
Wr(w, d) == [write |-> TRUE, addr |-> <<w, 0>>, data |-> d]
Rd(w)    == [write |-> FALSE, addr |-> <<w, 0>>]

Rec(be, cyc, ops, n) == [be |-> be, cyc |-> cyc, ops |-> ops, len |-> n]

\* Two windows; whole words, half words, single bytes, a mask with a hole,
\* a record without accesses, records that keep and that end the cycle.
SomeRecords ==
  {Rec(Lane, FALSE, <<Rd(0), Wr(1, Word(1, 2, 1, 2))>>, 2),
   Rec({2, 3}, FALSE, <<Wr(1, Word(0, 0, 2, 1))>>, 1),
   Rec({1}, TRUE, <<Wr(0, Word(2, 1, 2, 2)), Rd(1)>>, 2),
   Rec({0, 2}, FALSE, <<Wr(0, Word(1, 1, 1, 1))>>, 1),
   Rec(Lane, TRUE, <<>>, 0)}
=============================================================================
