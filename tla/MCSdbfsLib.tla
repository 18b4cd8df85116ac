------------------------------ MODULE MCSdbfsLib ------------------------------
(* Small images for the library. *)
EXTENDS SdbfsLib

Dir(n)  == [Blank EXCEPT !.type = "interconnect", !.magic = TRUE, !.records = n,
                         !.name = <<".">>]
File(w, i, first, last) ==
  [Blank EXCEPT !.type = "device", !.name = w, !.id = i, !.first = first, !.last = last]
Bridge(w, first, child) ==
  [Blank EXCEPT !.type = "bridge", !.name = w, !.first = first, !.last = first + 9,
                !.child = child]

\* A file before the directory; a bridge in the middle, whose records are not
\* at the start of what it covers, with another under it; two files of one
\* name; an empty file.
Nested ==
  [entry |-> 3,
   rec |-> 3 :> Dir(4) @@ 4 :> File(<<"a">>, 1, 0, 2) @@ 5 :> Bridge(<<"d">>, 8, 10)
        @@ 6 :> File(<<"c">>, 3, 20, 22)
        @@ 10 :> Dir(5) @@ 11 :> File(<<"b">>, 2, 6, 7) @@ 12 :> File(<<"e">>, 4, 9, 8)
        @@ 13 :> File(<<"a">>, 3, 8, 8) @@ 14 :> Bridge(<<"f">>, 9, 8)
        @@ 16 :> Dir(2) @@ 17 :> File(<<"g">>, 7, 2, 3)]

\* A bridge that leads nowhere, then one as the last record of all.
Astray ==
  [entry |-> 0,
   rec |-> 0 :> Dir(4) @@ 1 :> Bridge(<<"x">>, 30, 30) @@ 2 :> File(<<"b">>, 2, 5, 9)
        @@ 3 :> Bridge(<<"d">>, 6, 6) @@ 6 :> Dir(3) @@ 7 :> File(<<"a">>, 1, 3, 4)
        @@ 8 :> Bridge(<<"y">>, 40, 40)]

\* A directory that contains itself.
Looped ==
  [entry |-> 0,
   rec |-> 0 :> Dir(3) @@ 1 :> Bridge(<<"d">>, 0, 0) @@ 2 :> File(<<"a">>, 1, 3, 3)]

NoDirectory == [entry |-> 0, rec |-> 0 :> File(<<"a">>, 1, 0, 0)]

MCImages == {Nested, Astray, Looped, NoDirectory}
MCKeys   == {[by |-> "name", of |-> <<w>>] : w \in {"a", "b", "e"}}
              \cup {[by |-> "id", of |-> i] : i \in {3, 7}}

\* What the theorems on opening and reading suppose.
ASSUME WholeNames == NamesWhole
===============================================================================
