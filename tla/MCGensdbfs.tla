------------------------------ MODULE MCGensdbfs ------------------------------
(* Small directories: three files at the top, two in a directory, one below. *)
EXTENDS Gensdbfs

Names == {"dot", "a", "b", "c", "d", "e", "f", "g"}
Plain == [n \in Names |-> Unset]

Deep == "dot" :> <<"a", "d", "c">> @@ "d" :> <<"f", "e">> @@ "e" :> <<"g">>
Bare == "dot" :> <<"a", "d", "c">> @@ "d" :> <<>>

Tree(kids, sizes, writable, position, maxsize) ==
  [root |-> "dot", kids |-> kids, st_size |-> sizes, writable |-> writable,
   position |-> position, maxsize |-> maxsize]

\* No directory ends with a file of one byte more than whole blocks, and the
\* records of none lie at the end of a device.
MCTrees ==
  {Tree(Deep, a @@ f, w, Plain, m) :
     a \in [{"a", "c"} -> {2, 6}], f \in [{"f", "g"} -> {0, 3, 4}], w \in {{}, {"a", "f"}},
     m \in {Plain, [Plain EXCEPT !["a"] = 7], [Plain EXCEPT !["d"] = 29]}}
  \cup {Tree(Bare, s, {}, [Plain EXCEPT !["dot"] = 12, !["a"] = 0], Plain) :
          s \in [{"a", "c"} -> {0, 5, 8}]}

\* A directory that does.
MCTail == {Tree(Deep, [a |-> 1, c |-> 2, f |-> 3, g |-> 5], {}, Plain, Plain)}
===============================================================================
