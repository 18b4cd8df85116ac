----------------------------- MODULE WishboneBus -----------------------------
(***************************************************************************)
(* What struct wishbone_operations (pcie-wb/wishbone.h) promises to the    *)
(* files that use a card: between cycle(1) and cycle(0) the bus is theirs, *)
(* an access reaches exactly the bytes it names, and a read returns what   *)
(* is there.  CardBus implements it for each of the three drivers.         *)
(***************************************************************************)
CONSTANTS
  Users,      \* those who may have the bus
  Nobody,
  Address,    \* of a word on the bus
  Lane,       \* byte lanes of a word
  Bytes       \* values of one byte

VARIABLES
  holder,     \* who has the bus
  memory,     \* of each address, the bytes of its word
  seen        \* of each user, the bytes it wrote or read in its cycle

bus == <<holder, memory, seen>>

Init ==
  /\ holder = Nobody
  /\ memory \in [Address -> [Lane -> Bytes]]
  /\ seen = [u \in Users |-> {}]

\* cycle(1)
Begin(u) ==
  /\ holder = Nobody
  /\ holder' = u
  /\ UNCHANGED <<memory, seen>>

\* Lanes be of word a: what u has seen there is now what is there.
Sees(u, a, be) ==
  seen' = [seen EXCEPT ![u] = {t \in seen[u] : t[1] # a \/ t[2] \notin be}
                                \cup {<<a, n, memory'[a][n]>> : n \in be}]

\* Only lanes be of word a change.
Confined(a, be) ==
  \A b \in Address, n \in Lane :
    memory'[b][n] # memory[b][n] => b = a /\ n \in be

\* byteenable(be) and write(a)
Write(u, a, be) ==
  /\ holder = u /\ UNCHANGED holder
  /\ memory' \in [Address -> [Lane -> Bytes]]
  /\ Confined(a, be)
  /\ Sees(u, a, be)

\* byteenable(be) and read(a)
Read(u, a, be) ==
  /\ holder = u /\ UNCHANGED <<holder, memory>>
  /\ Sees(u, a, be)

\* cycle(0)
End(u) ==
  /\ holder = u
  /\ holder' = Nobody
  /\ seen' = [seen EXCEPT ![u] = {}]
  /\ UNCHANGED memory

Next ==
  \E u \in Users :
    \/ Begin(u) \/ End(u)
    \/ \E a \in Address, be \in SUBSET Lane : Write(u, a, be) \/ Read(u, a, be)

Spec == Init /\ [][Next]_bus
=============================================================================
