------------------------ MODULE WishboneRegistryProofs ------------------------
(***************************************************************************)
(* Proofs about WishboneRegistry, for any number of cards and of minor     *)
(* numbers.                                                                *)
(***************************************************************************)
EXTENDS WishboneRegistry, SequenceTheorems, WellFoundedInduction, TLAPS

\* Where a card waits to be registered: its minor number is chosen ...
Adding   == {"master_cdev", "slave_cdev", "master_device", "slave_device",
             "insert"}

\* ... or given up again; where it goes; where it is in the list.
Failing  == {"fail_out", "fail_master_cdev", "fail_slave_cdev",
             "fail_master_device"}
Removing == {"del_slave_device", "del_master_device", "del_slave_cdev",
             "del_master_cdev", "unregistered"}
InList   == {"present", "unregister"}
Critical == Adding \cup Failing \cup Removing

\* Where the module may be.
ModuleSteps ==
  {"out", "in", "fail_last"} \cup Resources \cup FailLabels \cup ExitSteps

TypeOK ==
  /\ module \in ModuleSteps /\ held \subseteq Resources
  /\ holder \in Cards \cup {NoCard}
  /\ pc \in [Cards -> {"absent", "register"} \cup InList \cup Critical]
  /\ wishbone_list \in Seq(Cards)
  /\ linked \in [Cards -> BOOLEAN] /\ minor \in [Cards -> Minors]
  /\ published \in [Nodes -> [Minors -> Cards \cup {NoCard}]]

\* What the module has got at each step ...
HeldAt(at) ==
  CASE at \in {"out", "fail_last", "master_class"} -> {}
    [] at \in {"slave_class", "fail_master_class", "exit_master_class"} ->
         {"master_class"}
    [] at \in {"master_region", "fail_slave_class", "exit_slave_class"} ->
         {"master_class", "slave_class"}
    [] at \in {"slave_region", "fail_master_dev", "exit_master_region"} ->
         {"master_class", "slave_class", "master_region"}
    [] at \in {"in", "exit_slave_region"} -> Resources

\* ... and cards need all of it.
ModuleOK ==
  /\ held = HeldAt(module)
  /\ \A d \in Cards : pc[d] # "absent" => module = "in"

\* wishbone_mutex.
Locked == \A d \in Cards : pc[d] \in Critical <=> holder = d

\* The list holds the cards that are registered.
ListedOK ==
  /\ \A p \in 1..Len(wishbone_list) : pc[wishbone_list[p]] \in InList
  /\ \A d \in Cards : pc[d] \in InList => Listed(d)

\* Between two places of the list there is room for the numbers between.
Spaced ==
  /\ \A p, q \in 1..Len(wishbone_list) :
       p <= q => minor[wishbone_list[q]] - minor[wishbone_list[p]] >= q - p
  /\ \A p \in 1..Len(wishbone_list) : minor[wishbone_list[p]] >= p - 1

\* A card that is being added has the number of the first gap, ...
GapFound ==
  \A d \in Cards : pc[d] \in Adding =>
    /\ minor[d] <= Len(wishbone_list)
    /\ \A q \in 1..minor[d] : InPlace(q)
    /\ minor[d] < Len(wishbone_list) => ~InPlace(minor[d] + 1)

\* ... and whoever holds the mutex has a number that is not in the list.
OwnNumber ==
  \A d \in Cards : pc[d] \in Critical =>
    \A p \in 1..Len(wishbone_list) : minor[wishbone_list[p]] # minor[d]

\* Where a card has published each node.
Shown(node) ==
  CASE node = "slave_device" ->
         {"insert", "present", "unregister", "del_slave_device"}
    [] node = "master_device" ->
         {"slave_device", "fail_master_device", "insert", "present",
          "unregister", "del_slave_device", "del_master_device"}
    [] node = "slave_cdev" ->
         {"master_device", "slave_device", "fail_slave_cdev",
          "fail_master_device", "insert", "present", "unregister",
          "del_slave_device", "del_master_device", "del_slave_cdev"}
    [] node = "master_cdev" ->
         {"slave_cdev", "master_device", "slave_device", "fail_master_cdev",
          "fail_slave_cdev", "fail_master_device", "insert", "present",
          "unregister", "del_slave_device", "del_master_device",
          "del_slave_cdev", "del_master_cdev"}

\* At every step a number leads to the card that has published it.
PublishedOK ==
  \A node \in Nodes, m \in Minors, d \in Cards :
    published[node][m] = d <=> pc[d] \in Shown(node) /\ minor[d] = m

IInv == /\ TypeOK /\ ModuleOK /\ Locked /\ ListedOK /\ Spaced /\ GapFound
        /\ OwnNumber /\ PublishedOK

(***************************************************************************)
(* Lemmas about the operators of the model.                                *)
(***************************************************************************)
\* InsertAt moves the elements from its place on up by one.
LEMMA InsertAtProperties ==
  ASSUME NEW S, NEW s \in Seq(S), NEW i \in 1..Len(s) + 1, NEW e \in S
  PROVE  /\ InsertAt(s, i, e) \in Seq(S)
         /\ Len(InsertAt(s, i, e)) = Len(s) + 1
         /\ \A k \in 1..Len(s) + 1 :
              InsertAt(s, i, e)[k] = IF k < i THEN s[k]
                                     ELSE IF k = i THEN e ELSE s[k - 1]
<1> DEFINE n == Len(s)
           a == SubSeq(s, 1, i - 1)
           b == <<e>>
           c == SubSeq(s, i, n)
<1>1. n \in Nat /\ i \in Int /\ 1 <= i /\ i <= n + 1
  BY LenProperties
<1>2. \A k \in 1..n : s[k] \in S
  BY ElementOfSeq
<1>3. /\ a \in Seq(S) /\ Len(a) = i - 1
      /\ \A k \in 1..i - 1 : a[k] = s[k]
  <2>1. \A k \in 1..i - 1 : s[k] \in S
    BY <1>1, <1>2
  <2>2. /\ a \in Seq(S) /\ Len(a) = IF 1 <= i - 1 THEN i - 1 - 1 + 1 ELSE 0
        /\ \A k \in 1..i - 1 - 1 + 1 : a[k] = s[1 + k - 1]
    <3> HIDE DEF n
    <3> QED BY <1>1, <2>1, SubSeqProperties
  <2> HIDE DEF a, n
  <2> QED BY <1>1, <2>2
<1>4. /\ c \in Seq(S) /\ Len(c) = n - i + 1
      /\ \A k \in 1..n - i + 1 : c[k] = s[i + k - 1]
  <2>1. \A k \in i..n : s[k] \in S
    BY <1>1, <1>2
  <2>2. /\ c \in Seq(S) /\ Len(c) = IF i <= n THEN n - i + 1 ELSE 0
        /\ \A k \in 1..n - i + 1 : c[k] = s[i + k - 1]
    <3> HIDE DEF n
    <3> QED BY <1>1, <2>1, SubSeqProperties
  <2> HIDE DEF c, n
  <2> QED BY <1>1, <2>2
<1>5. b \in Seq(S) /\ Len(b) = 1 /\ b[1] = e
  OBVIOUS
<1> DEFINE ab == a \o b
           abc == ab \o c
<1>6. InsertAt(s, i, e) = abc
  BY DEF InsertAt
<1> HIDE DEF a, b, c, n
<1>7. /\ ab \in Seq(S) /\ Len(ab) = i
      /\ \A k \in 1..i : ab[k] = IF k <= i - 1 THEN a[k] ELSE b[k - (i - 1)]
  <2>1. /\ ab \in Seq(S) /\ Len(ab) = Len(a) + Len(b)
        /\ \A k \in 1..Len(a) + Len(b) :
             ab[k] = IF k <= Len(a) THEN a[k] ELSE b[k - Len(a)]
    BY <1>3, <1>5, ConcatProperties
  <2> QED BY <1>1, <1>3, <1>5, <2>1
<1>8. \A k \in 1..i : ab[k] = IF k < i THEN s[k] ELSE e
  BY <1>1, <1>3, <1>5, <1>7
<1> HIDE DEF ab
<1>9. /\ abc \in Seq(S) /\ Len(abc) = n + 1
      /\ \A k \in 1..n + 1 : abc[k] = IF k <= i THEN ab[k] ELSE c[k - i]
  <2>1. /\ abc \in Seq(S) /\ Len(abc) = Len(ab) + Len(c)
        /\ \A k \in 1..Len(ab) + Len(c) :
             abc[k] = IF k <= Len(ab) THEN ab[k] ELSE c[k - Len(ab)]
    BY <1>4, <1>7, ConcatProperties
  <2> QED BY <1>1, <1>4, <1>7, <2>1
<1> HIDE DEF abc
<1>10. \A k \in 1..n + 1 :
         abc[k] = IF k < i THEN s[k] ELSE IF k = i THEN e ELSE s[k - 1]
  <2> SUFFICES ASSUME NEW k \in 1..n + 1
               PROVE  abc[k] = IF k < i THEN s[k]
                               ELSE IF k = i THEN e ELSE s[k - 1]
    OBVIOUS
  <2>1. CASE k <= i
    BY <1>1, <1>8, <1>9, <2>1
  <2>2. CASE k > i
    <3>1. k - i \in 1..n - i + 1 /\ i + (k - i) - 1 = k - 1
      BY <1>1, <2>2
    <3>2. c[k - i] = s[k - 1]
      BY <1>4, <3>1
    <3> QED BY <1>1, <1>9, <2>2, <3>2
  <2> QED BY <1>1, <2>1, <2>2
<1> QED BY <1>6, <1>9, <1>10 DEF n

\* RemoveAt moves the elements behind its place down by one.
LEMMA RemoveAtProperties ==
  ASSUME NEW S, NEW s \in Seq(S), NEW i \in 1..Len(s)
  PROVE  /\ RemoveAt(s, i) \in Seq(S)
         /\ Len(RemoveAt(s, i)) = Len(s) - 1
         /\ \A k \in 1..Len(s) - 1 :
              RemoveAt(s, i)[k] = IF k < i THEN s[k] ELSE s[k + 1]
<1> DEFINE n == Len(s)
           a == SubSeq(s, 1, i - 1)
           c == SubSeq(s, i + 1, n)
           ac == a \o c
<1>1. n \in Nat /\ i \in Int /\ 1 <= i /\ i <= n
  BY LenProperties
<1>2. \A k \in 1..n : s[k] \in S
  BY ElementOfSeq
<1>3. /\ a \in Seq(S) /\ Len(a) = i - 1
      /\ \A k \in 1..i - 1 : a[k] = s[k]
  <2>1. \A k \in 1..i - 1 : s[k] \in S
    BY <1>1, <1>2
  <2>2. /\ a \in Seq(S) /\ Len(a) = IF 1 <= i - 1 THEN i - 1 - 1 + 1 ELSE 0
        /\ \A k \in 1..i - 1 - 1 + 1 : a[k] = s[1 + k - 1]
    <3> HIDE DEF n
    <3> QED BY <1>1, <2>1, SubSeqProperties
  <2> HIDE DEF a, n
  <2> QED BY <1>1, <2>2
<1>4. /\ c \in Seq(S) /\ Len(c) = n - i
      /\ \A k \in 1..n - i : c[k] = s[i + k]
  <2>1. \A k \in i + 1..n : s[k] \in S
    BY <1>1, <1>2
  <2>2. /\ c \in Seq(S) /\ Len(c) = IF i + 1 <= n THEN n - (i + 1) + 1 ELSE 0
        /\ \A k \in 1..n - (i + 1) + 1 : c[k] = s[(i + 1) + k - 1]
    <3> HIDE DEF n
    <3> QED BY <1>1, <2>1, SubSeqProperties
  <2> HIDE DEF c, n
  <2> QED BY <1>1, <2>2
<1>6. RemoveAt(s, i) = ac
  BY DEF RemoveAt
<1> HIDE DEF a, c, n
<1>9. /\ ac \in Seq(S) /\ Len(ac) = n - 1
      /\ \A k \in 1..n - 1 : ac[k] = IF k <= i - 1 THEN a[k] ELSE c[k - (i - 1)]
  <2>1. /\ ac \in Seq(S) /\ Len(ac) = Len(a) + Len(c)
        /\ \A k \in 1..Len(a) + Len(c) :
             ac[k] = IF k <= Len(a) THEN a[k] ELSE c[k - Len(a)]
    BY <1>3, <1>4, ConcatProperties
  <2> QED BY <1>1, <1>3, <1>4, <2>1
<1> HIDE DEF ac
<1>10. \A k \in 1..n - 1 : ac[k] = IF k < i THEN s[k] ELSE s[k + 1]
  <2> SUFFICES ASSUME NEW k \in 1..n - 1
               PROVE  ac[k] = IF k < i THEN s[k] ELSE s[k + 1]
    OBVIOUS
  <2>1. CASE k < i
    BY <1>1, <1>3, <1>9, <2>1
  <2>2. CASE k >= i
    <3>1. k - (i - 1) \in 1..n - i /\ i + (k - (i - 1)) = k + 1
      BY <1>1, <2>2
    <3>2. c[k - (i - 1)] = s[k + 1]
      BY <1>4, <3>1
    <3> QED BY <1>1, <1>9, <2>2, <3>2
  <2> QED BY <1>1, <2>1, <2>2
<1> QED BY <1>6, <1>9, <1>10 DEF n

\* Every set of numbers has a least one.
LEMMA Least ==
  ASSUME NEW T, T \subseteq Nat, T # {}
  PROVE  \E x \in T : \A y \in T : x <= y
<1> DEFINE R == {p \in Nat \X Nat : p[1] < p[2]}
<1>1. IsWellFoundedOn(R, Nat)
  BY NatLessThanWellFounded, Zenon DEF OpToRel
<1> HIDE DEF R
<1>2. PICK x \in T : \A y \in T : <<y, x>> \notin R
  BY <1>1, WFMin
<1>3. ASSUME NEW y \in T PROVE x <= y
  <2>1. x \in Nat /\ y \in Nat
    OBVIOUS
  <2>2. y < x => <<y, x>> \in R
    BY <2>1 DEF R
  <2>3. ~(y < x)
    BY <2>2, <1>2
  <2> QED BY <2>1, <2>3
<1> QED BY <1>3

\* The walk over the list finds the first gap.
LEMMA GapIs ==
  ASSUME Len(wishbone_list) \in Nat
  PROVE  /\ Gap \in 1..Len(wishbone_list) + 1
         /\ Gap <= Len(wishbone_list) => ~InPlace(Gap)
         /\ \A q \in 1..Gap - 1 : InPlace(q)
<1> DEFINE n == Len(wishbone_list)
           T == {p \in 1..n + 1 : p <= n => ~InPlace(p)}
<1>1. n \in Nat
  OBVIOUS
<1> HIDE DEF n
<1>2. n + 1 \in T /\ T \subseteq Nat /\ T \subseteq 1..n + 1
  <2>1. n + 1 \in 1..n + 1 /\ ~(n + 1 <= n)
    BY <1>1
  <2> QED BY <1>1, <2>1
<1>3. PICK g \in T : \A y \in T : g <= y
  BY <1>2, Least
<1>4. \A q \in 1..g - 1 : InPlace(q)
  <2> SUFFICES ASSUME NEW q \in 1..g - 1 PROVE InPlace(q)
    OBVIOUS
  <2>1. g \in 1..n + 1 /\ q \in 1..n + 1 /\ q < g /\ ~(g <= q)
    BY <1>1, <1>2, <1>3
  <2>2. q \notin T
    BY <1>3, <2>1
  <2> QED BY <2>1, <2>2
<1>5. /\ g \in 1..n + 1
      /\ g <= n => ~InPlace(g)
      /\ \A q \in 1..g - 1 : InPlace(q)
  BY <1>2, <1>3, <1>4
<1> HIDE DEF T
<1>6. \E p \in 1..n + 1 : /\ p <= n => ~InPlace(p)
                          /\ \A q \in 1..p - 1 : InPlace(q)
  BY <1>5
<1>7. Gap = CHOOSE p \in 1..n + 1 : /\ p <= n => ~InPlace(p)
                                    /\ \A q \in 1..p - 1 : InPlace(q)
  BY Zenon DEF Gap, n
<1>8. /\ Gap \in 1..n + 1
      /\ Gap <= n => ~InPlace(Gap)
      /\ \A q \in 1..Gap - 1 : InPlace(q)
  <2> HIDE DEF InPlace
  <2> QED BY <1>6, <1>7, Zenon
<1> QED BY <1>8 DEF n

(***************************************************************************)
(* What the steps do.                                                      *)
(***************************************************************************)
\* The number of a listed card is a number and not less than its place.
LEMMA Numbers ==
  ASSUME TypeOK
  PROVE  /\ Len(wishbone_list) \in Nat
         /\ \A p \in 1..Len(wishbone_list) : wishbone_list[p] \in Cards
         /\ \A d \in Cards : minor[d] \in Minors
         /\ \A d \in Cards : minor[d] \in Nat
<1>1. wishbone_list \in Seq(Cards) /\ minor \in [Cards -> Minors]
  BY DEF TypeOK
<1>2. Len(wishbone_list) \in Nat
  BY <1>1, LenProperties
<1>3. \A p \in 1..Len(wishbone_list) : wishbone_list[p] \in Cards
  BY <1>1, ElementOfSeq
<1>4. \A d \in Cards : minor[d] \in Minors
  BY <1>1
<1>5. Minors \subseteq Nat
  BY RegistryAssumption DEF Minors
<1> QED BY <1>2, <1>3, <1>4, <1>5

\* A card is at one place of the list only.
LEMMA PlacesDiffer ==
  ASSUME TypeOK, Spaced,
         NEW p \in 1..Len(wishbone_list), NEW q \in 1..Len(wishbone_list),
         minor[wishbone_list[p]] = minor[wishbone_list[q]]
  PROVE  p = q
<1>1. /\ Len(wishbone_list) \in Nat
      /\ minor[wishbone_list[p]] \in Nat /\ minor[wishbone_list[q]] \in Nat
  BY Numbers
<1> DEFINE a == minor[wishbone_list[p]]
           b == minor[wishbone_list[q]]
           n == Len(wishbone_list)
<1>2. p <= q => b - a >= q - p
  BY DEF Spaced
<1>3. q <= p => a - b >= p - q
  BY DEF Spaced
<1>4. a \in Nat /\ b \in Nat /\ a = b /\ p \in 1..n /\ q \in 1..n /\ n \in Nat
  BY <1>1
<1> HIDE DEF a, b, n
<1> QED BY <1>2, <1>3, <1>4

\* Behind a gap the numbers have moved on.
LEMMA BehindGap ==
  ASSUME TypeOK, Spaced, NEW g \in 1..Len(wishbone_list) + 1,
         g <= Len(wishbone_list) => ~InPlace(g)
  PROVE  \A p \in g..Len(wishbone_list) : minor[wishbone_list[p]] >= p
<1> SUFFICES ASSUME NEW p \in g..Len(wishbone_list)
             PROVE  minor[wishbone_list[p]] >= p
  OBVIOUS
<1> DEFINE a == minor[wishbone_list[g]]
           b == minor[wishbone_list[p]]
           n == Len(wishbone_list)
<1>1. n \in Nat
  BY Numbers
<1>2. /\ g \in 1..n /\ p \in 1..n /\ g <= p
  <2> HIDE DEF n
  <2> QED BY <1>1 DEF n
<1>3. a \in Nat /\ b \in Nat
  BY <1>2, Numbers
<1>4. b - a >= p - g /\ a >= g - 1
  BY <1>2 DEF Spaced
<1>5. a # g - 1
  <2>1. ~InPlace(g)
    BY <1>1, <1>2
  <2> QED BY <2>1 DEF InPlace
<1> HIDE DEF a, b, n
<1>6. b >= p
  BY <1>1, <1>2, <1>3, <1>4, <1>5
<1> QED BY <1>6 DEF b

\* A step back withdraws one node, and its card stays on the way out.
LEMMA UndoIsOneStep ==
  ASSUME NEW d \in Cards, register_fail(d) \/ unregister_step(d)
  PROVE  \E node \in Nodes, at \in Failing \cup Removing,
            next \in Failing \cup Removing :
           /\ register_undo(d, at, node, next)
           /\ at \in Shown(node) /\ next \notin Shown(node)
           /\ \A other \in Nodes \ {node} :
                at \in Shown(other) <=> next \in Shown(other)
<1> USE DEF Nodes, Failing, Removing, Shown
<1>1. CASE register_undo(d, "fail_master_device",
                        "master_device", "fail_slave_cdev")
  BY <1>1
<1>2. CASE register_undo(d, "fail_slave_cdev", "slave_cdev", "fail_master_cdev")
  BY <1>2
<1>3. CASE register_undo(d, "fail_master_cdev", "master_cdev", "fail_out")
  BY <1>3
<1>4. CASE register_undo(d, "del_slave_device",
                        "slave_device", "del_master_device")
  BY <1>4
<1>5. CASE register_undo(d, "del_master_device",
                        "master_device", "del_slave_cdev")
  BY <1>5
<1>6. CASE register_undo(d, "del_slave_cdev", "slave_cdev", "del_master_cdev")
  BY <1>6
<1>7. CASE register_undo(d, "del_master_cdev", "master_cdev", "unregistered")
  BY <1>7
<1> QED
  BY <1>1, <1>2, <1>3, <1>4, <1>5, <1>6, <1>7 DEF register_fail, unregister_step

\* Where a step of publishing goes.
LEMMA PublishGoes ==
  ASSUME NEW node \in Nodes
  PROVE  /\ node \in Adding /\ After(node) \in Adding /\ Undo(node) \in Failing
         /\ node \notin Shown(node) /\ After(node) \in Shown(node)
         /\ Undo(node) \notin Shown(node)
         /\ \A other \in Nodes \ {node} :
              /\ node \in Shown(other) <=> After(node) \in Shown(other)
              /\ node \in Shown(other) <=> Undo(node) \in Shown(other)
<1> USE DEF Nodes, Adding, Failing, Shown, After, Undo
<1>1. CASE node = "master_cdev"
  BY <1>1
<1>2. CASE node = "slave_cdev"
  BY <1>2
<1>3. CASE node = "master_device"
  BY <1>3
<1>4. CASE node = "slave_device"
  BY <1>4
<1> QED BY <1>1, <1>2, <1>3, <1>4

\* The steps of the module leave the registry alone.
ModuleNext ==
  \/ wishbone_init \/ wishbone_init_fail_last \/ wishbone_exit
  \/ \E r \in Resources : wishbone_init_step(r)
  \/ \E at \in FailLabels \cup ExitSteps : wishbone_free(at)

LEMMA CardsStay ==
  ASSUME ModuleNext
  PROVE  UNCHANGED <<holder, pc, wishbone_list, linked, minor, published>>
BY DEF ModuleNext, wishbone_init, wishbone_init_step, wishbone_init_fail_last,
       wishbone_free, wishbone_exit, ModuleStep, registry

\* A step of the module takes it from what it has at one step to what it has
\* at the next.
LEMMA ModuleMoves ==
  ASSUME TypeOK, ModuleOK, ModuleNext
  PROVE  module' \in ModuleSteps /\ held' = HeldAt(module')
<1> USE DEF ModuleStep, ModuleOK, HeldAt, ModuleSteps
<1>1. CASE wishbone_init
  BY <1>1 DEF wishbone_init, Resources
<1>2. CASE wishbone_init_fail_last
  BY <1>2 DEF wishbone_init_fail_last
<1>3. CASE wishbone_exit
  BY <1>3 DEF wishbone_exit, ExitSteps
<1>4. ASSUME NEW r \in Resources, wishbone_init_step(r)
      PROVE  module' \in ModuleSteps /\ held' = HeldAt(module')
  <2>1. CASE ModuleStep(Allocated(r), held \cup {r})
    BY <1>4, <2>1 DEF wishbone_init_step, Allocated, Resources
  <2>2. CASE ModuleStep(NotAllocated(r), held)
    BY <1>4, <2>2 DEF wishbone_init_step, NotAllocated, Resources, FailLabels
  <2> QED BY <1>4, <2>1, <2>2 DEF wishbone_init_step
<1>5. ASSUME NEW at \in FailLabels \cup ExitSteps, wishbone_free(at)
      PROVE  module' \in ModuleSteps /\ held' = HeldAt(module')
  BY <1>5 DEF wishbone_free, Frees, Onward, FailLabels, ExitSteps, Resources
<1> QED BY <1>1, <1>2, <1>3, <1>4, <1>5 DEF ModuleNext

\* The steps of a card, one case each; register_fail and unregister_step
\* are taken apart by UndoIsOneStep.
CardNext(d) ==
  \/ wishbone_register(d) \/ register_search(d)
  \/ \E node \in Nodes : register_publish(d, node)
  \/ register_insert(d) \/ register_fail(d) \/ register_fail_out(d)
  \/ wishbone_unregister(d) \/ unregister_del(d)
  \/ unregister_step(d) \/ unregister_done(d)

LEMMA NextIs ==
  ASSUME Next
  PROVE  ModuleNext \/ \E d \in Cards : CardNext(d)
BY Zenon DEF Next, ModuleNext, CardNext

\* A card that is inserted fits into the list.
LEMMA Inserted ==
  ASSUME TypeOK, GapFound, NEW d \in Cards, register_insert(d)
  PROVE  /\ minor[d] + 1 \in 1..Len(wishbone_list) + 1
         /\ wishbone_list' \in Seq(Cards)
         /\ Len(wishbone_list') = Len(wishbone_list) + 1
         /\ \A k \in 1..Len(wishbone_list) + 1 :
              wishbone_list'[k] = IF k < minor[d] + 1 THEN wishbone_list[k]
                                  ELSE IF k = minor[d] + 1 THEN d
                                  ELSE wishbone_list[k - 1]
<1>1. /\ pc[d] = "insert"
      /\ wishbone_list' = InsertAt(wishbone_list, minor[d] + 1, d)
  BY DEF register_insert
<1>2. wishbone_list \in Seq(Cards)
  BY DEF TypeOK
<1>3. minor[d] \in Nat /\ Len(wishbone_list) \in Nat
  BY Numbers
<1>4. minor[d] <= Len(wishbone_list)
  BY <1>1 DEF GapFound, Adding
<1>5. minor[d] + 1 \in 1..Len(wishbone_list) + 1
  BY <1>3, <1>4
<1> DEFINE i == minor[d] + 1
<1>6. /\ i \in 1..Len(wishbone_list) + 1
      /\ wishbone_list' = InsertAt(wishbone_list, i, d)
  BY <1>1, <1>5
<1> HIDE DEF i
<1>7. /\ wishbone_list' \in Seq(Cards)
      /\ Len(wishbone_list') = Len(wishbone_list) + 1
      /\ \A k \in 1..Len(wishbone_list) + 1 :
           wishbone_list'[k] = IF k < i THEN wishbone_list[k]
                               ELSE IF k = i THEN d ELSE wishbone_list[k - 1]
  BY <1>2, <1>6, InsertAtProperties
<1> QED BY <1>6, <1>7 DEF i

\* A card that is removed leaves the others in their order.
LEMMA Removed ==
  ASSUME TypeOK, NEW d \in Cards, unregister_del(d)
  PROVE  \E p \in 1..Len(wishbone_list) :
           /\ wishbone_list[p] = d
           /\ wishbone_list' \in Seq(Cards)
           /\ Len(wishbone_list') = Len(wishbone_list) - 1
           /\ \A k \in 1..Len(wishbone_list) - 1 :
                wishbone_list'[k] = IF k < p THEN wishbone_list[k]
                                    ELSE wishbone_list[k + 1]
<1>1. PICK p \in 1..Len(wishbone_list) :
        wishbone_list[p] = d /\ wishbone_list' = RemoveAt(wishbone_list, p)
  BY DEF unregister_del
<1>2. wishbone_list \in Seq(Cards)
  BY DEF TypeOK
<1> QED BY <1>1, <1>2, RemoveAtProperties

\* The search gives a card the number of the first gap and refuses it when
\* the list is full.
LEMMA Searched ==
  ASSUME TypeOK, Spaced, NEW d \in Cards, register_search(d)
  PROVE  \/ /\ Len(wishbone_list) = max_devices
            /\ pc' = [pc EXCEPT ![d] = "absent"]
            /\ UNCHANGED <<holder, minor>>
         \/ /\ Gap - 1 \in Minors
            /\ holder' = d
            /\ minor' = [minor EXCEPT ![d] = Gap - 1]
            /\ pc' = [pc EXCEPT ![d] = "master_cdev"]
<1> DEFINE n == Len(wishbone_list)
<1>1. n \in Nat /\ Gap \in 1..n + 1
  BY Numbers, GapIs
<1>2. CASE RunOut(Gap)
  <2>1. n >= max_devices
    <3> HIDE DEF n
    <3> QED BY <1>1, <1>2, RegistryAssumption DEF RunOut
  <2>2. n \in 1..n
    BY <1>1, <2>1, RegistryAssumption
  <2>3. minor[wishbone_list[n]] \in Minors /\ minor[wishbone_list[n]] >= n - 1
    BY <2>2, Numbers DEF Spaced
  <2>4. n <= max_devices
    <3> HIDE DEF n
    <3> QED BY <1>1, <2>3, RegistryAssumption DEF Minors
  <2>5. n = max_devices
    BY <1>1, <2>1, <2>4, RegistryAssumption
  <2>6. pc' = [pc EXCEPT ![d] = "absent"] /\ UNCHANGED <<holder, minor>>
    BY <1>2 DEF register_search, Goto
  <2> QED BY <2>5, <2>6
<1>3. CASE ~RunOut(Gap)
  <2>1. Gap - 1 \in Minors
    <3> HIDE DEF n
    <3> QED BY <1>1, <1>3, RegistryAssumption DEF RunOut, Minors
  <2> QED BY <1>3, <2>1 DEF register_search, Goto
<1> QED BY <1>2, <1>3

LEMMA TypeOKStep ==
  ASSUME TypeOK, ModuleOK, Spaced, GapFound, Next
  PROVE  TypeOK'
<1>1. CASE ModuleNext
  <2>1. UNCHANGED <<holder, pc, wishbone_list, linked, minor, published>>
    BY <1>1, CardsStay
  <2>2. module' \in ModuleSteps /\ held' \subseteq Resources
    BY <1>1, ModuleMoves DEF HeldAt, Resources, ModuleSteps, FailLabels, ExitSteps
  <2> QED BY <2>1, <2>2 DEF TypeOK
<1>2. ASSUME NEW d \in Cards, CardNext(d)
      PROVE  TypeOK'
  <2> USE DEF TypeOK
  <2>0. minor[d] \in Minors
    OBVIOUS
  <2>1. CASE wishbone_register(d)
    BY <2>1 DEF wishbone_register, Goto
  <2>2. CASE register_search(d)
    <3>1. UNCHANGED <<module, held, wishbone_list, linked, published>>
      BY <2>2 DEF register_search
    <3>2. /\ holder' \in Cards \cup {NoCard} /\ minor' \in [Cards -> Minors]
          /\ pc' \in [Cards -> {"absent", "register"} \cup InList \cup Critical]
      BY <2>2, Searched DEF Critical, Adding
    <3> QED BY <3>1, <3>2
  <2>3. CASE \E node \in Nodes : register_publish(d, node)
    <3>1. PICK node \in Nodes : register_publish(d, node)
      BY <2>3
    <3>2. After(node) \in Critical /\ Undo(node) \in Critical
      BY PublishGoes DEF Critical
    <3>3. published' \in [Nodes -> [Minors -> Cards \cup {NoCard}]]
      <4>1. published \in [Nodes -> [Minors -> Cards \cup {NoCard}]]
        OBVIOUS
      <4> HIDE DEF TypeOK
      <4> QED BY <2>0, <3>1, <4>1 DEF register_publish, Publish
    <3> QED BY <3>1, <3>2, <3>3 DEF register_publish, Goto
  <2>4. CASE register_insert(d)
    <3>1. wishbone_list' \in Seq(Cards)
      BY <2>4, Inserted
    <3> QED BY <2>4, <3>1 DEF register_insert, Goto, InList
  <2>5. CASE register_fail(d) \/ unregister_step(d)
    <3>1. PICK node \in Nodes, at \in Failing \cup Removing,
               next \in Failing \cup Removing : register_undo(d, at, node, next)
      BY <2>5, UndoIsOneStep
    <3>2. published' \in [Nodes -> [Minors -> Cards \cup {NoCard}]]
      BY <2>0, <3>1 DEF register_undo, Withdraw
    <3> QED BY <3>1, <3>2 DEF register_undo, Goto, Critical
  <2>6. CASE register_fail_out(d)
    BY <2>6 DEF register_fail_out, Goto, registry
  <2>7. CASE wishbone_unregister(d)
    BY <2>7 DEF wishbone_unregister, Goto, registry, InList
  <2>8. CASE unregister_del(d)
    <3>1. wishbone_list' \in Seq(Cards)
      BY <2>8, Removed
    <3> QED BY <2>8, <3>1 DEF unregister_del, Goto, Critical, Removing
  <2>9. CASE unregister_done(d)
    BY <2>9 DEF unregister_done, Goto, registry
  <2> QED
    BY <1>2, <2>1, <2>2, <2>3, <2>4, <2>5, <2>6, <2>7, <2>8, <2>9 DEF CardNext
<1> QED BY <1>1, <1>2, NextIs

LEMMA ModuleOKStep ==
  ASSUME TypeOK, ModuleOK, Next
  PROVE  ModuleOK'
<1>1. CASE ModuleNext
  <2>1. pc' = pc
    BY <1>1, CardsStay
  <2>2. module = "in" => \A d \in Cards : pc[d] = "absent"
    <3>1. module = "in" => wishbone_exit
      BY <1>1 DEF ModuleNext, wishbone_init, wishbone_init_fail_last,
         wishbone_init_step, wishbone_free, Resources, FailLabels, ExitSteps
    <3> QED BY <3>1 DEF wishbone_exit
  <2>3. \A d \in Cards : pc[d] = "absent"
    BY <2>2 DEF ModuleOK
  <2> QED BY <1>1, <2>1, <2>3, ModuleMoves DEF ModuleOK
<1>2. ASSUME NEW d \in Cards, CardNext(d)
      PROVE  ModuleOK'
  <2>1. module' = module /\ held' = held
    BY <1>2 DEF CardNext, wishbone_register, register_search, register_publish,
       register_insert, register_fail, register_undo, register_fail_out,
       wishbone_unregister, unregister_del, unregister_step, unregister_done
  <2>2. module = "in"
    <3>1. CASE wishbone_register(d)
      BY <3>1 DEF wishbone_register
    <3>2. CASE pc[d] # "absent"
      BY <3>2 DEF ModuleOK
    <3>3. wishbone_register(d) \/ pc[d] # "absent"
      BY <1>2 DEF CardNext, Nodes, register_search, register_publish,
         register_insert, register_fail, register_undo, register_fail_out,
         wishbone_unregister, unregister_del, unregister_step, unregister_done
    <3> QED BY <3>1, <3>2, <3>3
  <2> QED BY <2>1, <2>2 DEF ModuleOK
<1> QED BY <1>1, <1>2, NextIs

\* A step of a card moves no other card and changes no other number.
LEMMA OthersStay ==
  ASSUME TypeOK, Spaced, NEW d \in Cards, CardNext(d), NEW c \in Cards, c # d
  PROVE  pc'[c] = pc[c] /\ minor'[c] = minor[c]
<1> USE DEF TypeOK
<1>1. CASE wishbone_register(d)
  BY <1>1 DEF wishbone_register, Goto
<1>2. CASE register_search(d)
  BY <1>2, Searched
<1>3. CASE \E node \in Nodes : register_publish(d, node)
  BY <1>3 DEF register_publish, Goto
<1>4. CASE register_insert(d)
  BY <1>4 DEF register_insert, Goto
<1>5. CASE register_fail(d) \/ unregister_step(d)
  BY <1>5 DEF register_fail, unregister_step, register_undo, Goto
<1>6. CASE register_fail_out(d)
  BY <1>6 DEF register_fail_out, Goto, registry
<1>7. CASE wishbone_unregister(d)
  BY <1>7 DEF wishbone_unregister, Goto, registry
<1>8. CASE unregister_del(d)
  BY <1>8 DEF unregister_del, Goto
<1>9. CASE unregister_done(d)
  BY <1>9 DEF unregister_done, Goto, registry
<1> QED
  BY <1>1, <1>2, <1>3, <1>4, <1>5, <1>6, <1>7, <1>8, <1>9 DEF CardNext

\* What a step of a card means to the list and to the mutex: a step outside
\* of it, ...
Outside(d) ==
  /\ pc[d] \notin Critical /\ pc'[d] \notin Critical
  /\ pc[d] \in InList <=> pc'[d] \in InList
  /\ UNCHANGED <<holder, wishbone_list, minor, published>>

\* ... the search that takes it and finds a number, ...
Enter(d) ==
  /\ pc[d] = "register" /\ pc'[d] = "master_cdev" /\ holder = NoCard
  /\ holder' = d
  /\ minor' = [minor EXCEPT ![d] = Gap - 1]
  /\ UNCHANGED <<wishbone_list, published>>

\* ... a step that holds it and leaves the list alone, ...
Inside(d) ==
  /\ pc[d] \in Critical /\ pc'[d] \in Critical
  /\ pc'[d] \in Adding => pc[d] \in Adding
  /\ UNCHANGED <<holder, wishbone_list, minor>>

\* ... or one that gives it back.  The others are register_insert and
\* unregister_del.
Leave(d) ==
  /\ pc[d] \in {"fail_out", "unregistered"} /\ pc'[d] = "absent"
  /\ holder' = NoCard
  /\ UNCHANGED <<wishbone_list, minor, published>>

LEMMA KindOfStep ==
  ASSUME TypeOK, Spaced, NEW d \in Cards, CardNext(d)
  PROVE  \/ Outside(d) \/ Enter(d) \/ Inside(d) \/ Leave(d)
         \/ register_insert(d) \/ unregister_del(d)
<1>0. pc \in [Cards -> {"absent", "register"} \cup InList \cup Critical]
  BY DEF TypeOK
<1> USE DEF Critical, Adding, Failing, Removing, InList
<1>1. CASE wishbone_register(d)
  <2> Outside(d)
    BY <1>0, <1>1 DEF wishbone_register, Goto, Outside
  <2> QED OBVIOUS
<1>2. CASE register_search(d)
  <2>1. /\ pc[d] = "register" /\ holder = NoCard
        /\ UNCHANGED <<wishbone_list, published>>
    BY <1>2 DEF register_search
  <2>2. CASE /\ pc' = [pc EXCEPT ![d] = "absent"]
             /\ UNCHANGED <<holder, minor>>
    BY <1>0, <2>1, <2>2 DEF Outside
  <2>3. CASE /\ holder' = d
             /\ minor' = [minor EXCEPT ![d] = Gap - 1]
             /\ pc' = [pc EXCEPT ![d] = "master_cdev"]
    BY <1>0, <2>1, <2>3 DEF Enter
  <2> QED BY <1>2, <2>2, <2>3, Searched
<1>3. CASE \E node \in Nodes : register_publish(d, node)
  <2> Inside(d)
    BY <1>0, <1>3, PublishGoes DEF register_publish, Goto, Inside
  <2> QED OBVIOUS
<1>4. CASE register_fail(d) \/ unregister_step(d)
  <2> Inside(d)
    BY <1>0, <1>4, UndoIsOneStep DEF register_undo, Goto, Inside
  <2> QED OBVIOUS
<1>5. CASE register_fail_out(d)
  BY <1>0, <1>5 DEF register_fail_out, Goto, registry, Leave
<1>6. CASE wishbone_unregister(d)
  BY <1>0, <1>6 DEF wishbone_unregister, Goto, registry, Outside
<1>7. CASE unregister_done(d)
  BY <1>0, <1>7 DEF unregister_done, Goto, registry, Leave
<1> QED
  BY <1>1, <1>2, <1>3, <1>4, <1>5, <1>6, <1>7 DEF CardNext

LEMMA LockedStep ==
  ASSUME TypeOK, Locked, Spaced, Next
  PROVE  Locked'
<1>1. CASE ModuleNext
  BY <1>1, CardsStay DEF Locked
<1>2. ASSUME NEW d \in Cards, CardNext(d)
      PROVE  Locked'
  <2>1. \A c \in Cards \ {d} : pc'[c] = pc[c]
    BY <1>2, OthersStay
  <2>2. NoCard \notin Cards
    BY RegistryAssumption
  <2> USE DEF Locked, Critical, Adding, Failing, Removing
  <2>3. CASE Outside(d)
    BY <2>1, <2>2, <2>3 DEF Outside
  <2>4. CASE Enter(d)
    BY <2>1, <2>2, <2>4 DEF Enter
  <2>5. CASE Inside(d)
    BY <2>1, <2>2, <2>5 DEF Inside
  <2>6. CASE Leave(d)
    BY <2>1, <2>2, <2>6 DEF Leave
  <2>7. CASE register_insert(d)
    BY <2>1, <2>2, <2>7 DEF register_insert, Goto, TypeOK
  <2>8. CASE unregister_del(d)
    BY <2>1, <2>2, <2>8 DEF unregister_del, Goto, TypeOK
  <2> QED BY <1>2, <2>3, <2>4, <2>5, <2>6, <2>7, <2>8, KindOfStep
<1> QED BY <1>1, <1>2, NextIs

\* Cards in the list are not being added, and keep their numbers.
LEMMA ListStays ==
  ASSUME TypeOK, Locked, ListedOK, Spaced, NEW d \in Cards, CardNext(d),
         wishbone_list' = wishbone_list
  PROVE  \A p \in 1..Len(wishbone_list) :
           /\ wishbone_list'[p] = wishbone_list[p]
           /\ minor'[wishbone_list[p]] = minor[wishbone_list[p]]
<1> SUFFICES ASSUME NEW p \in 1..Len(wishbone_list)
             PROVE  minor'[wishbone_list[p]] = minor[wishbone_list[p]]
  OBVIOUS
<1>1. wishbone_list[p] \in Cards /\ pc[wishbone_list[p]] \in InList
  BY Numbers DEF ListedOK
<1>2. CASE wishbone_list[p] # d
  BY <1>1, <1>2, OthersStay
<1>3. CASE wishbone_list[p] = d
  <2>1. pc[d] # "register"
    BY <1>1, <1>3 DEF InList
  <2>2. minor' = minor
    BY <2>1, KindOfStep DEF Outside, Enter, Inside, Leave, register_insert,
       unregister_del
  <2> QED BY <2>2
<1> QED BY <1>2, <1>3

LEMMA ListedOKStep ==
  ASSUME TypeOK, Locked, ListedOK, Spaced, GapFound, Next
  PROVE  ListedOK'
<1>1. CASE ModuleNext
  BY <1>1, CardsStay DEF ListedOK, Listed
<1>2. ASSUME NEW d \in Cards, CardNext(d)
      PROVE  ListedOK'
  <2>1. \A c \in Cards \ {d} : pc'[c] = pc[c]
    BY <1>2, OthersStay
  <2>2. \A p \in 1..Len(wishbone_list) : wishbone_list[p] \in Cards
    BY Numbers
  <2>3. CASE /\ wishbone_list' = wishbone_list
             /\ pc'[d] \in InList <=> pc[d] \in InList
    BY <2>1, <2>2, <2>3 DEF ListedOK, Listed
  <2>4. CASE Outside(d) \/ Enter(d) \/ Inside(d) \/ Leave(d)
    <3> USE DEF InList, Critical, Adding, Failing, Removing
    <3>1. CASE Outside(d)
      BY <2>3, <3>1 DEF Outside
    <3>2. CASE Enter(d)
      BY <2>3, <3>2 DEF Enter
    <3>3. CASE Inside(d)
      BY <2>3, <3>3 DEF Inside
    <3>4. CASE Leave(d)
      BY <2>3, <3>4 DEF Leave
    <3> QED BY <2>4, <3>1, <3>2, <3>3, <3>4
  <2>5. CASE register_insert(d)
    <3> DEFINE n == Len(wishbone_list)
               m == minor[d]
    <3>1. n \in Nat /\ m \in Nat /\ m + 1 \in 1..n + 1
      BY <2>5, Numbers, Inserted
    <3>2. /\ Len(wishbone_list') = n + 1
          /\ \A k \in 1..n + 1 :
               wishbone_list'[k] = IF k < m + 1 THEN wishbone_list[k]
                                   ELSE IF k = m + 1 THEN d
                                   ELSE wishbone_list[k - 1]
      BY <2>5, Inserted
    <3>3. pc'[d] = "present"
      BY <2>5 DEF register_insert, Goto, TypeOK
    <3>4. \A p \in 1..n : pc[wishbone_list[p]] \in InList
      BY DEF ListedOK
    <3>5. \A c \in Cards : pc[c] \in InList =>
            \E p \in 1..n : wishbone_list[p] = c
      BY DEF ListedOK, Listed
    <3>6. \A p \in 1..n : wishbone_list[p] \in Cards
      BY <2>2
    <3> HIDE DEF n, m
    <3>7. ASSUME NEW k \in 1..n + 1 PROVE pc'[wishbone_list'[k]] \in InList
      <4>1. CASE k < m + 1
        <5>1. k \in 1..n
          BY <3>1, <4>1
        <5> QED BY <2>1, <3>2, <3>3, <3>4, <3>6, <4>1, <5>1 DEF InList
      <4>2. CASE k = m + 1
        BY <3>1, <3>2, <3>3, <4>2 DEF InList
      <4>3. CASE k > m + 1
        <5>1. k - 1 \in 1..n
          BY <3>1, <4>3
        <5>2. wishbone_list'[k] = wishbone_list[k - 1]
          BY <3>1, <3>2, <4>3
        <5> QED BY <2>1, <3>3, <3>4, <3>6, <5>1, <5>2 DEF InList
      <4> QED BY <3>1, <4>1, <4>2, <4>3
    <3>8. ASSUME NEW c \in Cards, pc'[c] \in InList
          PROVE  \E k \in 1..n + 1 : wishbone_list'[k] = c
      <4>1. CASE c = d
        <5>1. wishbone_list'[m + 1] = d
          BY <3>1, <3>2
        <5> QED BY <3>1, <4>1, <5>1
      <4>2. CASE c # d
        <5>1. PICK p \in 1..n : wishbone_list[p] = c
          BY <2>1, <3>5, <3>8, <4>2
        <5>2. CASE p < m + 1
          <6>1. p \in 1..n + 1 /\ wishbone_list'[p] = c
            BY <3>1, <3>2, <5>1, <5>2
          <6> QED BY <6>1
        <5>3. CASE p >= m + 1
          <6>1. p + 1 \in 1..n + 1 /\ ~(p + 1 < m + 1) /\ p + 1 # m + 1
                /\ (p + 1) - 1 = p
            BY <3>1, <5>3
          <6>2. wishbone_list'[p + 1] = c
            BY <3>2, <5>1, <6>1
          <6> QED BY <6>1, <6>2
        <5> QED BY <3>1, <5>2, <5>3
      <4> QED BY <4>1, <4>2
    <3> QED BY <3>2, <3>7, <3>8 DEF ListedOK, Listed
  <2>6. CASE unregister_del(d)
    <3> DEFINE n == Len(wishbone_list)
    <3>1. PICK i \in 1..n :
            /\ wishbone_list[i] = d
            /\ Len(wishbone_list') = n - 1
            /\ \A k \in 1..n - 1 :
                 wishbone_list'[k] = IF k < i THEN wishbone_list[k]
                                     ELSE wishbone_list[k + 1]
      BY <2>6, Removed
    <3>2. n \in Nat
      BY Numbers
    <3>3. pc'[d] \notin InList
      BY <2>6 DEF unregister_del, Goto, TypeOK, InList
    <3>4. \A p \in 1..n : pc[wishbone_list[p]] \in InList
      BY DEF ListedOK
    <3>5. \A c \in Cards : pc[c] \in InList =>
            \E p \in 1..n : wishbone_list[p] = c
      BY DEF ListedOK, Listed
    <3>6. \A p \in 1..n : wishbone_list[p] \in Cards
      BY <2>2
    <3>7. \A p \in 1..n : p # i => wishbone_list[p] # d
      BY <3>1, PlacesDiffer
    <3> HIDE DEF n
    <3>8. ASSUME NEW k \in 1..n - 1 PROVE pc'[wishbone_list'[k]] \in InList
      <4>1. PICK p \in 1..n : p # i /\ wishbone_list'[k] = wishbone_list[p]
        <5>1. CASE k < i
          BY <3>1, <3>2, <5>1
        <5>2. CASE k >= i
          <6>1. k + 1 \in 1..n /\ k + 1 # i
            BY <3>2, <5>2
          <6> QED BY <3>1, <3>2, <5>2, <6>1
        <5> QED BY <3>2, <5>1, <5>2
      <4> QED BY <2>1, <3>4, <3>6, <3>7, <4>1
    <3>9. ASSUME NEW c \in Cards, pc'[c] \in InList
          PROVE  \E k \in 1..n - 1 : wishbone_list'[k] = c
      <4>1. c # d
        BY <3>3, <3>9
      <4>2. PICK p \in 1..n : wishbone_list[p] = c
        BY <2>1, <3>5, <3>9, <4>1
      <4>3. p # i
        BY <3>1, <4>1, <4>2
      <4>4. CASE p < i
        <5>1. p \in 1..n - 1 /\ wishbone_list'[p] = c
          BY <3>1, <3>2, <4>2, <4>4
        <5> QED BY <5>1
      <4>5. CASE p > i
        <5>1. p - 1 \in 1..n - 1 /\ ~(p - 1 < i) /\ (p - 1) + 1 = p
          BY <3>2, <4>5
        <5>2. wishbone_list'[p - 1] = c
          BY <3>1, <4>2, <5>1
        <5> QED BY <5>1, <5>2
      <4> QED BY <3>2, <4>3, <4>4, <4>5
    <3> QED BY <3>1, <3>8, <3>9 DEF ListedOK, Listed
  <2> QED BY <1>2, <2>4, <2>5, <2>6, KindOfStep
<1> QED BY <1>1, <1>2, NextIs

\* A step that leaves the list alone keeps what is said of its numbers.
LEMMA SpacedStep ==
  ASSUME TypeOK, Locked, ListedOK, Spaced, GapFound, Next
  PROVE  Spaced'
<1>1. CASE ModuleNext
  BY <1>1, CardsStay DEF Spaced
<1>2. ASSUME NEW d \in Cards, CardNext(d)
      PROVE  Spaced'
  <2>1. \A p \in 1..Len(wishbone_list) :
          wishbone_list[p] \in Cards /\ minor[wishbone_list[p]] \in Nat
    BY Numbers
  <2>2. CASE wishbone_list' = wishbone_list
    BY <1>2, <2>2, ListStays DEF Spaced
  <2>3. CASE register_insert(d)
    <3> DEFINE n == Len(wishbone_list)
               m == minor[d]
               num(p) == minor[wishbone_list[p]]
               now(p) == minor'[wishbone_list'[p]]
    <3>1. n \in Nat /\ m \in Nat /\ m + 1 \in 1..n + 1
      BY <2>3, Numbers, Inserted
    <3>2. minor' = minor
      BY <2>3 DEF register_insert
    <3>3. /\ Len(wishbone_list') = n + 1
          /\ \A k \in 1..n + 1 :
               now(k) = IF k < m + 1 THEN num(k)
                        ELSE IF k = m + 1 THEN m ELSE num(k - 1)
      BY <2>3, <3>2, Inserted
    <3>4. /\ \A p \in 1..m : p \in 1..n => num(p) = p - 1
          /\ m < n => ~InPlace(m + 1)
      BY <2>3 DEF register_insert, GapFound, Adding, InPlace
    <3>5. \A p \in m + 1..n : num(p) >= p
      <4>1. m + 1 \in 1..n + 1 /\ (m + 1 <= n => ~InPlace(m + 1))
        <5> HIDE DEF n, m
        <5> QED BY <3>1, <3>4
      <4> DEFINE g == m + 1
      <4>2. g \in 1..n + 1 /\ (g <= n => ~InPlace(g))
        BY <4>1
      <4> HIDE DEF g
      <4>3. \A p \in g..n : num(p) >= p
        BY <4>2, BehindGap
      <4> QED BY <4>3 DEF g
    <3>6. /\ \A p, q \in 1..n : p <= q => num(q) - num(p) >= q - p
          /\ \A p \in 1..n : num(p) \in Nat /\ num(p) >= p - 1
      BY <2>1 DEF Spaced
    <3> HIDE DEF n, m, num, now
    <3>7. ASSUME NEW k \in 1..n + 1
          PROVE  /\ now(k) \in Nat
                 /\ k < m + 1 => now(k) = k - 1
                 /\ k > m + 1 => now(k) >= k - 1
                 /\ k = m + 1 => now(k) = k - 1
      <4>1. CASE k < m + 1
        <5>1. k \in 1..m /\ k \in 1..n
          BY <3>1, <4>1
        <5>2. now(k) = num(k) /\ num(k) = k - 1 /\ num(k) \in Nat
          BY <3>3, <3>4, <3>6, <4>1, <5>1
        <5> QED BY <3>1, <4>1, <5>2
      <4>2. CASE k = m + 1
        BY <3>1, <3>3, <4>2
      <4>3. CASE k > m + 1
        <5>1. k - 1 \in 1..n /\ k - 1 \in m + 1..n
          BY <3>1, <4>3
        <5>2. now(k) = num(k - 1)
          BY <3>1, <3>3, <4>3
        <5> QED BY <3>1, <3>5, <3>6, <4>3, <5>1, <5>2
      <4> QED BY <3>1, <4>1, <4>2, <4>3
    <3>8. ASSUME NEW p \in 1..n + 1, NEW q \in 1..n + 1, p <= q
          PROVE  now(q) - now(p) >= q - p
      <4>1. CASE p <= m + 1
        BY <3>1, <3>7, <3>8, <4>1
      <4>2. CASE p > m + 1
        <5>1. p - 1 \in 1..n /\ q - 1 \in 1..n /\ p - 1 <= q - 1 /\ q > m + 1
          BY <3>1, <3>8, <4>2
        <5>2. now(p) = num(p - 1) /\ now(q) = num(q - 1)
          BY <3>1, <3>3, <4>2, <5>1
        <5>3. num(q - 1) - num(p - 1) >= (q - 1) - (p - 1)
          BY <3>6, <5>1
        <5> QED BY <3>1, <5>2, <5>3
      <4> QED BY <3>1, <4>1, <4>2
    <3>9. \A p \in 1..n + 1 : now(p) >= p - 1
      BY <3>1, <3>7
    <3> QED BY <3>3, <3>8, <3>9 DEF Spaced, now
  <2>4. CASE unregister_del(d)
    <3> DEFINE n == Len(wishbone_list)
               num(p) == minor[wishbone_list[p]]
               now(p) == minor'[wishbone_list'[p]]
    <3>1. minor' = minor
      BY <2>4 DEF unregister_del
    <3>2. PICK i \in 1..n :
            /\ Len(wishbone_list') = n - 1
            /\ \A k \in 1..n - 1 :
                 now(k) = IF k < i THEN num(k) ELSE num(k + 1)
      BY <2>4, <3>1, Removed
    <3>3. n \in Nat
      BY Numbers
    <3>4. /\ \A p, q \in 1..n : p <= q => num(q) - num(p) >= q - p
          /\ \A p \in 1..n : num(p) \in Nat /\ num(p) >= p - 1
      BY <2>1 DEF Spaced
    <3> HIDE DEF n, num, now
    <3>5. ASSUME NEW p \in 1..n - 1
          PROVE  /\ p \in 1..n /\ p + 1 \in 1..n
                 /\ now(p) = num(p) \/ now(p) = num(p + 1)
                 /\ p < i => now(p) = num(p)
                 /\ p >= i => now(p) = num(p + 1)
      BY <3>2, <3>3
    <3>6. ASSUME NEW p \in 1..n - 1, NEW q \in 1..n - 1, p <= q
          PROVE  now(q) - now(p) >= q - p
      <4>1. CASE q < i
        <5>1. p < i
          BY <3>3, <3>6, <4>1
        <5> QED BY <3>4, <3>5, <3>6, <4>1, <5>1
      <4>2. CASE p >= i
        <5>1. q >= i /\ p + 1 <= q + 1
          BY <3>3, <3>6, <4>2
        <5>2. num(q + 1) - num(p + 1) >= (q + 1) - (p + 1)
          BY <3>4, <3>5, <5>1
        <5> QED BY <3>5, <4>2, <5>1, <5>2
      <4>3. CASE p < i /\ q >= i
        <5>1. num(q + 1) - num(p) >= (q + 1) - p
          BY <3>4, <3>5, <3>6
        <5>2. now(p) = num(p) /\ now(q) = num(q + 1)
          BY <3>5, <4>3
        <5>3. num(q + 1) \in Nat /\ num(p) \in Nat
          BY <3>4, <3>5
        <5> QED BY <5>1, <5>2, <5>3
      <4> QED BY <3>3, <4>1, <4>2, <4>3
    <3>7. ASSUME NEW p \in 1..n - 1 PROVE now(p) >= p - 1
      <4>1. /\ num(p) \in Nat /\ num(p) >= p - 1
            /\ num(p + 1) \in Nat /\ num(p + 1) >= (p + 1) - 1
        BY <3>4, <3>5
      <4> QED BY <3>5, <4>1
    <3> QED BY <3>2, <3>6, <3>7 DEF Spaced, now
  <2>5. CASE Outside(d) \/ Enter(d) \/ Inside(d) \/ Leave(d)
    BY <2>2, <2>5 DEF Outside, Enter, Inside, Leave
  <2> QED BY <1>2, <2>3, <2>4, <2>5, KindOfStep
<1> QED BY <1>1, <1>2, NextIs

\* Only the holder of the mutex is being added or taken away.
LEMMA GapFoundStep ==
  ASSUME TypeOK, Locked, ListedOK, Spaced, GapFound, Next, Locked'
  PROVE  GapFound'
<1>1. CASE ModuleNext
  BY <1>1, CardsStay DEF GapFound, InPlace
<1>2. ASSUME NEW d \in Cards, CardNext(d)
      PROVE  GapFound'
  <2>0. /\ \A c \in Cards \ {d} : pc'[c] = pc[c] /\ minor'[c] = minor[c]
        /\ NoCard \notin Cards
    BY <1>2, OthersStay, RegistryAssumption
  <2> DEFINE old(q) == minor[wishbone_list[q]] = q - 1
             now(q) == minor'[wishbone_list'[q]] = q - 1
  <2>1. CASE wishbone_list' = wishbone_list /\ \A c \in Cards :
               pc'[c] \in Adding => pc[c] \in Adding /\ minor'[c] = minor[c]
    <3> SUFFICES ASSUME NEW c \in Cards, pc'[c] \in Adding
                 PROVE  /\ minor'[c] <= Len(wishbone_list')
                        /\ \A q \in 1..minor'[c] : now(q)
                        /\ minor'[c] < Len(wishbone_list') =>
                             ~now(minor'[c] + 1)
      BY DEF GapFound, InPlace
    <3>1. PICK m \in Nat : m = minor[c]
      BY Numbers
    <3>2. minor'[c] = m
      BY <2>1, <3>1
    <3>3. /\ m <= Len(wishbone_list)
          /\ \A q \in 1..m : old(q)
          /\ m < Len(wishbone_list) => ~old(m + 1)
      BY <2>1, <3>1 DEF GapFound, InPlace
    <3>4. \A q \in 1..Len(wishbone_list) : now(q) <=> old(q)
      BY <1>2, <2>1, ListStays
    <3>5. Len(wishbone_list) \in Nat
      BY Numbers
    <3> HIDE DEF now, old
    <3>6. \A q \in 1..m : now(q)
      BY <3>3, <3>4, <3>5
    <3>7. m < Len(wishbone_list) => ~now(m + 1)
      BY <3>3, <3>4, <3>5
    <3> QED BY <2>1, <3>2, <3>3, <3>6, <3>7
  <2>2. CASE \A c \in Cards : pc'[c] \notin Adding
    BY <2>2 DEF GapFound
  <2>3. CASE Outside(d)
    BY <2>0, <2>1, <2>3 DEF Outside, Critical
  <2>4. CASE Enter(d)
    <3>1. \A c \in Cards \ {d} : pc'[c] \notin Adding
      BY <2>0, <2>4 DEF Enter, Locked, Critical
    <3>2. /\ minor'[d] = Gap - 1 /\ wishbone_list' = wishbone_list
      BY <2>4 DEF Enter, TypeOK
    <3>3. \A q \in 1..Len(wishbone_list) : now(q) <=> old(q)
      BY <1>2, <3>2, ListStays
    <3>4. PICK g : g = Gap
      OBVIOUS
    <3>5. /\ Len(wishbone_list) \in Nat /\ g \in 1..Len(wishbone_list) + 1
          /\ g <= Len(wishbone_list) => ~old(g)
          /\ \A q \in 1..g - 1 : old(q)
      BY <3>4, Numbers, GapIs DEF InPlace
    <3> HIDE DEF now, old
    <3>6. /\ g - 1 <= Len(wishbone_list)
          /\ \A q \in 1..g - 1 : now(q)
          /\ g - 1 < Len(wishbone_list) => ~now((g - 1) + 1)
      <4>1. \A q \in 1..g - 1 : now(q)
        BY <3>3, <3>5
      <4>2. g - 1 < Len(wishbone_list) =>
              g \in 1..Len(wishbone_list) /\ (g - 1) + 1 = g
        BY <3>5
      <4>3. g - 1 < Len(wishbone_list) => ~now((g - 1) + 1)
        BY <3>3, <3>5, <4>2
      <4> QED BY <3>5, <4>1, <4>3
    <3>7. /\ minor'[d] <= Len(wishbone_list')
          /\ \A q \in 1..minor'[d] : now(q)
          /\ minor'[d] < Len(wishbone_list') => ~now(minor'[d] + 1)
      BY <3>2, <3>4, <3>6
    <3> USE DEF now
    <3> QED BY <3>1, <3>7 DEF GapFound, InPlace
  <2>5. CASE Inside(d)
    BY <2>0, <2>1, <2>5 DEF Inside
  <2>6. CASE Leave(d) \/ register_insert(d)
    <3>1. holder' = NoCard
      BY <2>6 DEF Leave, register_insert
    <3> QED BY <2>0, <2>2, <3>1 DEF Locked, Critical
  <2>7. CASE unregister_del(d)
    <3>1. holder' = d /\ pc'[d] \notin Adding
      BY <2>7 DEF unregister_del, Goto, TypeOK, Adding
    <3> QED BY <2>0, <2>2, <3>1 DEF Locked, Critical
  <2> QED BY <1>2, <2>3, <2>4, <2>5, <2>6, <2>7, KindOfStep
<1> QED BY <1>1, <1>2, NextIs

LEMMA OwnNumberStep ==
  ASSUME TypeOK, Locked, ListedOK, Spaced, GapFound, OwnNumber, Next, Locked'
  PROVE  OwnNumber'
<1>1. CASE ModuleNext
  BY <1>1, CardsStay DEF OwnNumber
<1>2. ASSUME NEW d \in Cards, CardNext(d)
      PROVE  OwnNumber'
  <2>0. /\ \A c \in Cards \ {d} : pc'[c] = pc[c] /\ minor'[c] = minor[c]
        /\ NoCard \notin Cards
    BY <1>2, OthersStay, RegistryAssumption
  <2>1. CASE wishbone_list' = wishbone_list /\ \A c \in Cards :
               pc'[c] \in Critical => pc[c] \in Critical /\ minor'[c] = minor[c]
    <3>1. \A p \in 1..Len(wishbone_list) :
            minor'[wishbone_list'[p]] = minor[wishbone_list[p]]
      BY <1>2, <2>1, ListStays
    <3> QED BY <2>1, <3>1 DEF OwnNumber
  <2>2. CASE \A c \in Cards : pc'[c] \notin Critical
    BY <2>2 DEF OwnNumber
  <2>3. CASE Outside(d)
    BY <2>0, <2>1, <2>3 DEF Outside
  <2>4. CASE Enter(d)
    <3>1. \A c \in Cards \ {d} : pc'[c] \notin Critical
      BY <2>0, <2>4 DEF Enter, Locked
    <3>2. minor'[d] = Gap - 1 /\ wishbone_list' = wishbone_list
      BY <2>4 DEF Enter, TypeOK
    <3>3. \A p \in 1..Len(wishbone_list) :
            minor'[wishbone_list'[p]] = minor[wishbone_list[p]]
      BY <1>2, <3>2, ListStays
    <3>4. PICK g : g = Gap
      OBVIOUS
    <3> DEFINE n == Len(wishbone_list)
               num(p) == minor[wishbone_list[p]]
    <3>5. n \in Nat /\ g \in 1..n + 1 /\ \A p \in 1..g - 1 : num(p) = p - 1
      BY <3>4, Numbers, GapIs DEF InPlace
    <3>6. \A p \in g..n : num(p) >= p
      <4>1. g <= n => ~InPlace(g)
        BY <3>4, Numbers, GapIs
      <4> QED BY <3>5, <4>1, BehindGap
    <3>7. \A p \in 1..n : num(p) \in Nat
      BY Numbers
    <3> HIDE DEF n, num
    <3>8. ASSUME NEW p \in 1..n PROVE num(p) # g - 1
      <4>1. CASE p < g
        <5>1. p \in 1..g - 1
          BY <3>5, <4>1
        <5>2. num(p) = p - 1
          BY <3>5, <5>1
        <5> QED BY <3>5, <4>1, <5>2
      <4>2. CASE p >= g
        <5>1. p \in g..n
          BY <3>5, <4>2
        <5>2. num(p) >= p
          BY <3>6, <5>1
        <5> QED BY <3>5, <3>7, <4>2, <5>2
      <4> QED BY <3>5, <4>1, <4>2
    <3> QED BY <3>1, <3>2, <3>3, <3>4, <3>8 DEF OwnNumber, n, num
  <2>5. CASE Inside(d)
    BY <2>0, <2>1, <2>5 DEF Inside
  <2>6. CASE Leave(d) \/ register_insert(d)
    <3>1. holder' = NoCard
      BY <2>6 DEF Leave, register_insert
    <3> QED BY <2>0, <2>2, <3>1 DEF Locked
  <2>7. CASE unregister_del(d)
    <3>1. \A c \in Cards \ {d} : pc'[c] \notin Critical
      BY <2>0, <2>7 DEF unregister_del, Locked
    <3>2. minor' = minor
      BY <2>7 DEF unregister_del
    <3> DEFINE n == Len(wishbone_list)
    <3>3. PICK i \in 1..n :
            /\ wishbone_list[i] = d
            /\ Len(wishbone_list') = n - 1
            /\ \A k \in 1..n - 1 :
                 wishbone_list'[k] = IF k < i THEN wishbone_list[k]
                                     ELSE wishbone_list[k + 1]
      BY <2>7, Removed
    <3>4. n \in Nat
      BY Numbers
    <3>5. \A p \in 1..n : p # i => minor[wishbone_list[p]] # minor[d]
      BY <3>3, PlacesDiffer
    <3> HIDE DEF n
    <3>6. ASSUME NEW k \in 1..n - 1 PROVE minor[wishbone_list'[k]] # minor[d]
      <4>1. CASE k < i
        <5>1. k \in 1..n /\ k # i
          BY <3>4, <4>1
        <5> QED BY <3>3, <3>5, <4>1, <5>1
      <4>2. CASE k >= i
        <5>1. k + 1 \in 1..n /\ k + 1 # i /\ ~(k < i)
          BY <3>4, <4>2
        <5> QED BY <3>3, <3>5, <5>1
      <4> QED BY <3>4, <4>1, <4>2
    <3> QED BY <3>1, <3>2, <3>3, <3>6 DEF OwnNumber
  <2> QED BY <1>2, <2>3, <2>4, <2>5, <2>6, <2>7, KindOfStep
<1> QED BY <1>1, <1>2, NextIs

\* Nobody else shows a node at the number of the holder.
LEMMA NumberIsFree ==
  ASSUME TypeOK, Locked, ListedOK, OwnNumber,
         NEW d \in Cards, pc[d] \in Critical,
         NEW c \in Cards, c # d, NEW node \in Nodes, pc[c] \in Shown(node)
  PROVE  minor[c] # minor[d]
<1>1. pc[c] \notin Critical
  <2>1. holder = d
    BY DEF Locked
  <2> QED BY <2>1 DEF Locked
<1>2. pc[c] \in InList
  BY <1>1 DEF Nodes, Shown, InList, Critical, Adding, Failing, Removing
<1>3. PICK p \in 1..Len(wishbone_list) : wishbone_list[p] = c
  BY <1>2 DEF ListedOK, Listed
<1> QED BY <1>3 DEF OwnNumber

LEMMA PublishedOKStep ==
  ASSUME TypeOK, Locked, ListedOK, Spaced, OwnNumber, PublishedOK, Next
  PROVE  PublishedOK'
<1>1. CASE ModuleNext
  BY <1>1, CardsStay DEF PublishedOK
<1>2. ASSUME NEW d \in Cards, CardNext(d)
      PROVE  PublishedOK'
  <2>0. /\ \A c \in Cards \ {d} : pc'[c] = pc[c] /\ minor'[c] = minor[c]
        /\ NoCard \notin Cards
        /\ minor[d] \in Minors
    BY <1>2, OthersStay, RegistryAssumption, Numbers
  \* A step that publishes nothing.
  <2>1. CASE /\ published' = published
             /\ \A node \in Nodes :
                  /\ pc'[d] \in Shown(node) <=> pc[d] \in Shown(node)
                  /\ pc[d] \in Shown(node) => minor'[d] = minor[d]
    <3> SUFFICES ASSUME NEW node \in Nodes, NEW m \in Minors, NEW c \in Cards
                 PROVE  published[node][m] = c
                          <=> pc'[c] \in Shown(node) /\ minor'[c] = m
      BY <2>1 DEF PublishedOK
    <3>1. published[node][m] = c <=> pc[c] \in Shown(node) /\ minor[c] = m
      BY DEF PublishedOK
    <3> QED BY <2>0, <2>1, <3>1
  <2>2. CASE wishbone_register(d)
    <3>1. pc[d] = "absent" /\ pc'[d] = "register" /\ minor' = minor
          /\ published' = published
      BY <2>2 DEF wishbone_register, Goto, TypeOK
    <3> QED BY <2>1, <3>1 DEF Nodes, Shown
  <2>3. CASE register_search(d)
    <3>1. /\ pc[d] = "register" /\ pc'[d] \in {"absent", "master_cdev"}
          /\ published' = published
      BY <2>3, Searched DEF register_search, TypeOK
    <3> QED BY <2>1, <3>1 DEF Nodes, Shown
  <2>4. CASE \E node \in Nodes : register_publish(d, node)
    <3>1. PICK node \in Nodes : register_publish(d, node)
      BY <2>4
    <3>2. pc[d] = node /\ minor' = minor /\ pc[d] \in Critical
      BY <3>1, PublishGoes DEF register_publish, Critical
    <3>3. CASE Publish(node, d) /\ Goto(d, After(node))
      <4>1. pc'[d] = After(node)
        BY <3>3 DEF Goto, TypeOK
      <4> SUFFICES ASSUME NEW other \in Nodes, NEW m \in Minors, NEW c \in Cards
                   PROVE  published'[other][m] = c
                            <=> pc'[c] \in Shown(other) /\ minor'[c] = m
        BY DEF PublishedOK
      <4>2. published[other][m] = c <=> pc[c] \in Shown(other) /\ minor[c] = m
        BY DEF PublishedOK
      <4>3. published'[other][m] = IF other = node /\ m = minor[d] THEN d
                                   ELSE published[other][m]
        BY <2>0, <3>3 DEF Publish, TypeOK
      <4>4. CASE other # node
        BY <2>0, <3>2, <4>1, <4>2, <4>3, <4>4, PublishGoes
      <4>5. CASE other = node /\ m = minor[d]
        BY <2>0, <3>2, <4>1, <4>3, <4>5, PublishGoes, NumberIsFree
      <4>6. CASE other = node /\ m # minor[d]
        BY <2>0, <3>2, <4>1, <4>2, <4>3, <4>6, PublishGoes
      <4> QED BY <4>4, <4>5, <4>6
    <3>4. CASE Goto(d, Undo(node)) /\ published' = published
      <4>1. pc'[d] = Undo(node)
        BY <3>4 DEF Goto, TypeOK
      <4>2. \A other \in Nodes :
              pc'[d] \in Shown(other) <=> pc[d] \in Shown(other)
        BY <3>2, <4>1, PublishGoes
      <4> QED BY <2>1, <3>2, <3>4, <4>2
    <3> QED BY <3>1, <3>3, <3>4 DEF register_publish
  <2>5. CASE register_insert(d)
    <3>1. /\ pc[d] = "insert" /\ pc'[d] = "present" /\ minor' = minor
          /\ published' = published
      BY <2>5 DEF register_insert, Goto, TypeOK
    <3> QED BY <2>1, <3>1 DEF Nodes, Shown
  <2>6. CASE register_fail(d) \/ unregister_step(d)
    <3>1. PICK node \in Nodes, at \in Failing \cup Removing,
               next \in Failing \cup Removing :
            /\ register_undo(d, at, node, next)
            /\ at \in Shown(node) /\ next \notin Shown(node)
            /\ \A other \in Nodes \ {node} :
                 at \in Shown(other) <=> next \in Shown(other)
      BY <2>6, UndoIsOneStep
    <3>2. /\ pc[d] = at /\ pc'[d] = next /\ minor' = minor /\ pc[d] \in Critical
      BY <3>1 DEF register_undo, Goto, TypeOK, Critical
    <3> SUFFICES ASSUME NEW other \in Nodes, NEW m \in Minors, NEW c \in Cards
                 PROVE  published'[other][m] = c
                          <=> pc'[c] \in Shown(other) /\ minor'[c] = m
      BY DEF PublishedOK
    <3>3. published[other][m] = c <=> pc[c] \in Shown(other) /\ minor[c] = m
      BY DEF PublishedOK
    <3>4. published'[other][m] = IF other = node /\ m = minor[d] THEN NoCard
                                 ELSE published[other][m]
      BY <2>0, <3>1 DEF register_undo, Withdraw, TypeOK
    <3>5. CASE other # node
      BY <2>0, <3>1, <3>2, <3>3, <3>4, <3>5
    <3>6. CASE other = node /\ m = minor[d]
      BY <2>0, <3>1, <3>2, <3>4, <3>6, NumberIsFree
    <3>7. CASE other = node /\ m # minor[d]
      BY <2>0, <3>1, <3>2, <3>3, <3>4, <3>7
    <3> QED BY <3>5, <3>6, <3>7
  <2>7. CASE register_fail_out(d)
    <3>1. /\ pc[d] = "fail_out" /\ pc'[d] = "absent" /\ minor' = minor
          /\ published' = published
      BY <2>7 DEF register_fail_out, Goto, registry, TypeOK
    <3> QED BY <2>1, <3>1 DEF Nodes, Shown
  <2>8. CASE wishbone_unregister(d)
    <3>1. /\ pc[d] = "present" /\ pc'[d] = "unregister" /\ minor' = minor
          /\ published' = published
      BY <2>8 DEF wishbone_unregister, Goto, registry, TypeOK
    <3> QED BY <2>1, <3>1 DEF Nodes, Shown
  <2>9. CASE unregister_del(d)
    <3>1. /\ pc[d] = "unregister" /\ pc'[d] = "del_slave_device"
          /\ minor' = minor /\ published' = published
      BY <2>9 DEF unregister_del, Goto, TypeOK
    <3> QED BY <2>1, <3>1 DEF Nodes, Shown
  <2>10. CASE unregister_done(d)
    <3>1. /\ pc[d] = "unregistered" /\ pc'[d] = "absent" /\ minor' = minor
          /\ published' = published
      BY <2>10 DEF unregister_done, Goto, registry, TypeOK
    <3> QED BY <2>1, <3>1 DEF Nodes, Shown
  <2> QED
    BY <1>2, <2>2, <2>3, <2>4, <2>5, <2>6, <2>7, <2>8, <2>9, <2>10 DEF CardNext
<1> QED BY <1>1, <1>2, NextIs

(***************************************************************************)
(* The theorems.                                                           *)
(***************************************************************************)
LEMMA Initially == Init => IInv
<1> SUFFICES ASSUME Init PROVE IInv
  OBVIOUS
<1>1. 0 \in Minors
  BY RegistryAssumption DEF Minors
<1>2. wishbone_list \in Seq(Cards) /\ Len(wishbone_list) = 0
      /\ ~(\E p : p \in 1..Len(wishbone_list))
  BY EmptySeq DEF Init
<1>3. TypeOK
  BY <1>1, <1>2 DEF Init, TypeOK, ModuleSteps
<1>4. ModuleOK
  BY DEF Init, ModuleOK, HeldAt
<1> USE DEF InList, Critical, Adding, Failing, Removing
<1>5. Locked
  BY RegistryAssumption DEF Init, Locked
<1>6. ListedOK
  BY <1>2 DEF Init, ListedOK
<1>7. Spaced
  BY <1>2 DEF Init, Spaced
<1>8. GapFound /\ OwnNumber
  BY DEF Init, GapFound, OwnNumber
<1>9. PublishedOK
  BY RegistryAssumption DEF Init, PublishedOK, Nodes, Shown
<1> QED BY <1>3, <1>4, <1>5, <1>6, <1>7, <1>8, <1>9 DEF IInv

LEMMA Inductive == IInv /\ [Next]_vars => IInv'
<1> SUFFICES ASSUME IInv, [Next]_vars PROVE IInv'
  OBVIOUS
<1>1. CASE Next
  <2>1. TypeOK' /\ ModuleOK' /\ Locked'
    BY <1>1, TypeOKStep, ModuleOKStep, LockedStep DEF IInv
  <2>2. ListedOK' /\ Spaced' /\ PublishedOK'
    BY <1>1, ListedOKStep, SpacedStep, PublishedOKStep DEF IInv
  <2>3. GapFound' /\ OwnNumber'
    BY <1>1, <2>1, GapFoundStep, OwnNumberStep DEF IInv
  <2> QED BY <2>1, <2>2, <2>3 DEF IInv
<1>2. CASE UNCHANGED vars
  BY <1>2 DEF vars, registry, IInv, TypeOK, ModuleOK, Locked, ListedOK, Listed,
     Spaced, GapFound, InPlace, OwnNumber, PublishedOK
<1> QED BY <1>1, <1>2

\* The registry at every step of loading, registering, failing and going.
THEOREM Invariance == Spec => []IInv
BY Initially, Inductive, PTL DEF Spec

\* Wherever wishbone_init fails, and in wishbone_exit, the exits free exactly
\* what was allocated, each of it once; a card finds all of it there.
THEOREM ModuleLeavesNothing == Spec => []ModuleClean
<1>1. IInv => ModuleClean
  BY DEF IInv, ModuleOK, ModuleClean, HeldAt, Frees, FailLabels, ExitSteps,
     Resources
<1> QED BY <1>1, Invariance, PTL

\* The list that wishbone_register searches stays in ascending order, however
\* many cards come, fail and go.
THEOREM ListInOrder == Spec => []InOrder
<1>1. IInv => InOrder
  <2> SUFFICES ASSUME IInv PROVE InOrder
    OBVIOUS
  <2>1. \A p \in 1..Len(wishbone_list) :
          /\ minor[wishbone_list[p]] \in Minors
          /\ minor[wishbone_list[p]] \in Nat
    BY Numbers DEF IInv
  <2>2. ASSUME NEW p \in 1..Len(wishbone_list), NEW q \in 1..Len(wishbone_list),
               p < q
        PROVE  minor[wishbone_list[p]] < minor[wishbone_list[q]]
    <3> DEFINE a == minor[wishbone_list[p]]
               b == minor[wishbone_list[q]]
               n == Len(wishbone_list)
    <3>1. n \in Nat /\ p \in 1..n /\ q \in 1..n
      BY Numbers DEF IInv
    <3>2. p <= q => b - a >= q - p
      BY DEF IInv, Spaced
    <3>3. a \in Nat /\ b \in Nat
      BY <2>1
    <3> HIDE DEF a, b, n
    <3>4. a < b
      BY <2>2, <3>1, <3>2, <3>3
    <3> QED BY <3>4 DEF a, b
  <2> QED BY <2>1, <2>2 DEF InOrder
<1> QED BY <1>1, Invariance, PTL

\* Whenever the mutex is free exactly the registered cards are published,
\* each under its own number and nowhere else: no failure and no removal left
\* anything behind.
THEOREM PublishedAsListed == Spec => []Published
<1>1. IInv => Published
  <2> SUFFICES ASSUME IInv, holder = NoCard,
                      NEW node \in Nodes, NEW m \in Minors, NEW d \in Cards
               PROVE  published[node][m] = d <=> Listed(d) /\ minor[d] = m
    BY DEF Published
  <2>1. pc[d] \notin Critical
    BY RegistryAssumption DEF IInv, Locked
  <2>2. pc[d] \in {"absent", "register"} \cup InList
    BY <2>1 DEF IInv, TypeOK
  <2>3. pc[d] \in Shown(node) <=> pc[d] \in InList
    BY <2>2 DEF Nodes, Shown, InList
  <2>4. pc[d] \in InList <=> Listed(d)
    BY DEF IInv, ListedOK, Listed
  <2> QED BY <2>3, <2>4 DEF IInv, PublishedOK
<1> QED BY <1>1, Invariance, PTL

\* The search for a number refuses a card only if all numbers are taken.
THEOREM RefusedWhenFull == Spec => RefusedOnlyWhenFull
<1> DEFINE Step == \A d \in Cards : pc[d] = "register" /\ pc'[d] = "absent"
                                      => Len(wishbone_list) = max_devices
<1>1. IInv /\ [Next]_vars => [Step]_vars
  <2> SUFFICES ASSUME IInv, Next, NEW c \in Cards,
                      pc[c] = "register", pc'[c] = "absent"
               PROVE  Len(wishbone_list) = max_devices
    OBVIOUS
  <2>1. ~ModuleNext
    BY CardsStay
  <2>2. PICK d \in Cards : CardNext(d)
    BY <2>1, NextIs
  <2>3. d = c
    BY <2>2, OthersStay DEF IInv
  <2>4. register_search(d)
    BY <2>2, <2>3 DEF CardNext, wishbone_register, register_publish, Nodes,
       register_insert, register_fail, unregister_step, register_undo,
       register_fail_out, wishbone_unregister, unregister_del, unregister_done
  <2> QED BY <2>3, <2>4, Searched DEF IInv, TypeOK
<1>2. Spec => [][Step]_vars
  BY <1>1, Invariance, PTL DEF Spec
<1> QED BY <1>2 DEF RefusedOnlyWhenFull
=============================================================================
