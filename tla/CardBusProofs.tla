---------------------------- MODULE CardBusProofs ----------------------------
(***************************************************************************)
(* Proofs about CardBus, for any number of files, windows and records, and *)
(* whichever of the three drivers the card has.                            *)
(*                                                                         *)
(* The three promises of the module rest on one fact: between the lock and *)
(* the unlock of dev->mutex the owner is the only file that moves (Owned), *)
(* so that the lanes and the window it has set are still those of its own  *)
(* record when it accesses the bus (Prepared).                             *)
(***************************************************************************)
EXTENDS CardBus, FiniteSetTheorems, TLAPS

\* A file from the moment it has the mutex to the moment it gives it up.
Holding(f) == pc[f] \in {"raise", "unlock"} \/ InCycle(f)

\* Which states go with which steps.
ControlOK ==
  \A f \in Files :
    /\ pc[f] \in {"lock", "raise"} => state[f] = "idle"
    /\ pc[f] \in {"byteenable", "window", "access"} => state[f] = "cycle"
    /\ pc[f] \in {"drop", "unlock"} => state[f] \in {"cycle", "closing"}
    /\ state[f] = "closing" => pc[f] \in {"drop", "unlock"}

\* Exactly the owner of dev->mutex holds it, and the line, if the card has
\* one, follows.
Owned ==
  /\ \A f \in Files : Holding(f) <=> owner = f
  /\ HasControl => (hw_cyc <=> \E f \in Files : InCycle(f))
  /\ ~HasControl => ~hw_cyc

\* The lanes are always those of some legal mask; those of the record that
\* is being executed once byteenable has run, if its mask is legal; and the
\* window is that of the access that is about to be made.
Prepared ==
  /\ \E be \in Legal : lanes = Select(be)
  /\ \A f \in Files :
       /\ pc[f] \in {"lock", "raise", "byteenable"} =>
            k[f] = 1 /\ rec[f] \in Records
       /\ pc[f] \in {"window", "access"} =>
            /\ k[f] \in 1..rec[f].len /\ rec[f] \in Records
            /\ rec[f].be \in Legal /\ card # "vme_wb" => lanes = Select(rec[f].be)
            /\ card = "vme_wb" => hw_lanes = rec[f].be
       /\ pc[f] = "access" /\ HasControl => hw_window = Op(f).addr[1]

\* What a file has seen is in memory, and forgotten with its cycle.
SeenOK ==
  \A f \in Files :
    /\ \A t \in seen[f] : mem[t[1]][t[2]] = t[3]
    /\ owner # f => seen[f] = {}

IInv == /\ TypeOK /\ ControlOK /\ Owned /\ Prepared
        /\ WindowShadow /\ AccessFaithful /\ SeenOK

-----------------------------------------------------------------------------
(***************************************************************************)
(* The table of byte masks.                                                *)
(***************************************************************************)
\* The lowest lane of a mask, computed for each legal mask.
LEMMA Lowests ==
  /\ \A n \in Lane : Lowest({n}) = n
  /\ Lowest({0, 1}) = 0 /\ Lowest({2, 3}) = 2 /\ Lowest(Lane) = 0
<1>1. \A be : \A n \in be : (\A m \in be : n <= m) /\ (\A a, b \in be : a <= b /\ b <= a => a = b)
               => Lowest(be) = n
  BY DEF Lowest
<1>2. ASSUME NEW n \in Lane PROVE Lowest({n}) = n
  BY <1>1 DEF Lane
<1>3. Lowest({0, 1}) = 0
  BY <1>1
<1>4. Lowest({2, 3}) = 2
  BY <1>1
<1>5. Lowest(Lane) = 0
  BY <1>1 DEF Lane
<1> QED BY <1>2, <1>3, <1>4, <1>5

\* The number of lanes of each legal mask.
LEMMA Widths ==
  /\ \A n \in Lane : Cardinality({n}) = 1
  /\ Cardinality({0, 1}) = 2 /\ Cardinality({2, 3}) = 2 /\ Cardinality(Lane) = 4
<1>1. \A n \in Lane : Cardinality({n}) = 1
  BY FS_Singleton
<1>2. ASSUME NEW S, IsFiniteSet(S), NEW x, x \notin S
      PROVE  /\ IsFiniteSet(S \cup {x})
             /\ Cardinality(S \cup {x}) = Cardinality(S) + 1
  BY <1>2, FS_AddElement
<1>3. \A x, y : x # y => /\ IsFiniteSet({x, y})
                        /\ Cardinality({x, y}) = 2
  <2> SUFFICES ASSUME NEW x, NEW y, x # y
               PROVE  IsFiniteSet({x, y}) /\ Cardinality({x, y}) = 2
    OBVIOUS
  <2>1. {x, y} = {x} \cup {y} /\ y \notin {x}
    OBVIOUS
  <2>2. IsFiniteSet({x}) /\ Cardinality({x}) = 1
    BY FS_Singleton
  <2>3. IsFiniteSet({x} \cup {y}) /\ Cardinality({x} \cup {y}) = Cardinality({x}) + 1
    BY <1>2, <2>1, <2>2, Zenon
  <2> QED BY <2>1, <2>2, <2>3
<1>4. 0 # 1 /\ 2 # 3
  OBVIOUS
<1>5. Cardinality({0, 1}) = 2 /\ Cardinality({2, 3}) = 2
  BY <1>3, <1>4, Zenon
<1>6. Cardinality(Lane) = 4
  <2>1. IsFiniteSet({0, 1}) /\ Cardinality({0, 1}) = 2
    BY <1>3, <1>4, Zenon
  <2>2. IsFiniteSet({0, 1} \cup {2}) /\ Cardinality({0, 1} \cup {2}) = Cardinality({0, 1}) + 1
    <3>1. 2 \notin {0, 1}
      OBVIOUS
    <3> QED BY <1>2, <2>1, <3>1, Zenon
  <2>3. Cardinality(({0, 1} \cup {2}) \cup {3}) = Cardinality({0, 1} \cup {2}) + 1
    <3>1. 3 \notin {0, 1} \cup {2}
      OBVIOUS
    <3> QED BY <1>2, <2>2, <3>1, Zenon
  <2>4. Lane = ({0, 1} \cup {2}) \cup {3}
    BY DEF Lane
  <2> QED BY <2>1, <2>2, <2>3, <2>4
<1> QED BY <1>1, <1>5, <1>6

\* For a legal mask wb_byteenable selects exactly the lanes of the mask, and
\* the shift takes each byte of the data to its own lane.
LEMMA Selected ==
  ASSUME NEW be \in Legal
  PROVE  /\ Select(be).width \in {1, 2, 4}
         /\ Select(be).low_addr \in Lane
         /\ Select(be).shift \in {0, 8, 16, 24}
         /\ Select(be) \in [width : {1, 2, 4}, shift : {0, 8, 16, 24}, low_addr : Lane]
         /\ Select(be).shift \div 8 = Select(be).low_addr
         /\ Select(be).low_addr .. Select(be).low_addr + Select(be).width - 1 = be
<1>1. CASE be = {0}
  BY <1>1, Lowests, Widths DEF Select, Lane
<1>2. CASE be = {1}
  BY <1>2, Lowests, Widths DEF Select, Lane
<1>3. CASE be = {2}
  BY <1>3, Lowests, Widths DEF Select, Lane
<1>4. CASE be = {3}
  BY <1>4, Lowests, Widths DEF Select, Lane
<1>5. CASE be = {0, 1}
  BY <1>5, Lowests, Widths DEF Select, Lane
<1>6. CASE be = {2, 3}
  BY <1>6, Lowests, Widths DEF Select, Lane
<1>7. CASE be = Lane
  BY <1>7, Lowests, Widths DEF Select, Lane
<1> QED BY <1>1, <1>2, <1>3, <1>4, <1>5, <1>6, <1>7 DEF Legal

\* Written and Returned under lanes of a legal mask: bytes stay in their lane.
LEMMA Transfer ==
  ASSUME NEW be \in Legal, lanes = Select(be), card # "vme_wb"
  PROVE  /\ Touched = be /\ be \subseteq Lane
         /\ \A w, d : Written(w, d) =
              [n \in Lane |-> IF n \in be THEN d[n] ELSE w[n]]
         /\ \A w : \A n \in be : Returned(w)[n] = w[n]
<1>1. /\ lanes.width \in {1, 2, 4} /\ lanes.low_addr \in Lane
      /\ lanes.shift \div 8 = lanes.low_addr
      /\ lanes.low_addr .. lanes.low_addr + lanes.width - 1 = be
  BY Selected
<1>2. Touched = be /\ Above = 0
  BY <1>1 DEF Touched, Above, Lane
<1>3. be \subseteq Lane
  BY DEF Legal, Lane
<1>4. \A n \in Lane : n - 0 = n /\ n + 0 = n
  BY DEF Lane
<1>5. ASSUME NEW w, NEW d
      PROVE  Written(w, d) = [n \in Lane |-> IF n \in be THEN d[n] ELSE w[n]]
  BY <1>2, <1>4 DEF Written
<1>6. ASSUME NEW w, NEW n \in be
      PROVE  Returned(w)[n] = w[n]
  BY <1>2, <1>3, <1>4 DEF Returned
<1> QED BY <1>2, <1>3, <1>5, <1>6

\* The same on a VME card, for any mask.
LEMMA TransferVme ==
  ASSUME NEW be \in SUBSET Lane, hw_lanes = be, card = "vme_wb"
  PROVE  /\ Touched = be
         /\ \A w, d : Written(w, d) =
              [n \in Lane |-> IF n \in be THEN d[n] ELSE w[n]]
         /\ \A w : \A n \in be : Returned(w)[n] = w[n]
<1>1. Touched = be /\ Above = 0
  BY DEF Touched, Above
<1>2. \A n \in Lane : n - 0 = n /\ n + 0 = n
  BY DEF Lane
<1>3. \A w, d : Written(w, d) = [n \in Lane |-> IF n \in be THEN d[n] ELSE w[n]]
  BY <1>1, <1>2 DEF Written
<1>4. \A w : \A n \in be : Returned(w)[n] = w[n]
  BY <1>1, <1>2 DEF Returned
<1> QED BY <1>1, <1>3, <1>4

-----------------------------------------------------------------------------
(***************************************************************************)
(* Each step keeps the invariant.                                          *)
(***************************************************************************)
\* The initial states satisfy the invariant.
LEMMA InitIInv == Init => IInv
<1> SUFFICES ASSUME Init PROVE IInv
  OBVIOUS
<1> USE BusAssumption
<1>1. Lane \in Legal /\ Select(Lane) = [width |-> 4, shift |-> 0, low_addr |-> 0]
  BY Lowests, Widths DEF Legal, Select
<1>2. mem \in [Address -> Data]
  BY DEF Init, Data
<1>3. TypeOK
  <2>1. lanes \in [width : {1, 2, 4}, shift : {0, 8, 16, 24}, low_addr : Lane]
    BY DEF Init, Lane
  <2>2. /\ state \in [Files -> {"closed", "idle", "cycle", "closing"}]
        /\ pc \in [Files -> {"rest", "lock", "raise", "byteenable", "window",
                             "access", "drop", "unlock"}]
        /\ rec \in [Files -> Records \cup {NoRecord}]
        /\ k \in [Files -> Nat]
    BY DEF Init
  <2>3. {hw_cyc, hw_int} \subseteq BOOLEAN
    BY DEF Init
  <2>4. /\ owner \in Files \cup {NoFile}
        /\ window_offset \in Windows /\ hw_window \in Windows
        /\ card \in Cards /\ hw_lanes \subseteq Lane
        /\ intended \in [Address -> Data]
        /\ seen \in [Files -> SUBSET (Address \X Lane \X Bytes)]
    BY <1>2 DEF Init
  <2> QED BY <1>2, <2>1, <2>2, <2>3, <2>4 DEF TypeOK
<1>4. ControlOK
  BY DEF Init, ControlOK
<1>5. Owned
  BY DEF Init, Owned, Holding, InCycle, HasControl
<1>6. Prepared
  BY <1>1 DEF Init, Prepared
<1>7. SeenOK
  BY DEF Init, SeenOK
<1> QED BY <1>3, <1>4, <1>5, <1>6, <1>7 DEF Init, IInv, WindowShadow, AccessFaithful

\* A step that only moves a file outside its cycle, or takes the mutex.
LEMMA OutsideIInv ==
  ASSUME IInv, NEW f \in Files,
         \/ char_master_open(f) \/ \E r \in Records : record(f, r)
         \/ wb_cycle_lock(f)
  PROVE  IInv'
<1> USE BusAssumption DEF IInv, HasControl
<1>1. CASE char_master_open(f)
  <2> USE <1>1 DEF char_master_open, dev, hw
  <2>1. TypeOK'
    BY DEF TypeOK
  <2>2. ControlOK'
    BY DEF TypeOK, ControlOK
  <2>3. Owned'
    BY DEF TypeOK, ControlOK, Owned, Holding, InCycle
  <2>4. Prepared'
    BY DEF Prepared, Op
  <2>5. SeenOK'
    BY DEF SeenOK
  <2> QED BY <2>1, <2>2, <2>3, <2>4, <2>5 DEF WindowShadow, AccessFaithful
<1>2. ASSUME NEW r \in Records, record(f, r) PROVE IInv'
  <2> USE <1>2 DEF record, Goto, dev, hw
  <2>1. TypeOK'
    BY DEF TypeOK
  <2>2. ControlOK'
    BY DEF TypeOK, ControlOK
  <2>3. Owned'
    BY DEF TypeOK, ControlOK, Owned, Holding, InCycle
  <2>4. Prepared'
    BY DEF TypeOK, Prepared, Op
  <2>5. SeenOK'
    BY DEF SeenOK
  <2> QED BY <2>1, <2>2, <2>3, <2>4, <2>5 DEF WindowShadow, AccessFaithful
<1>3. CASE wb_cycle_lock(f)
  <2> USE <1>3 DEF wb_cycle_lock, Goto, hw
  <2>1. TypeOK'
    BY DEF TypeOK
  <2>2. ControlOK'
    BY DEF TypeOK, ControlOK
  <2>3. Owned'
    BY DEF TypeOK, ControlOK, Owned, Holding, InCycle
  <2>4. Prepared'
    BY DEF TypeOK, Prepared, Op
  <2>5. SeenOK'
    BY DEF SeenOK
  <2> QED BY <2>1, <2>2, <2>3, <2>4, <2>5 DEF WindowShadow, AccessFaithful
<1> QED BY <1>1, <1>2, <1>3

\* A step of the interrupt handler: the mask keeps it from the cycle line.
LEMMA InterruptIInv ==
  ASSUME IInv, NEW on \in BOOLEAN, pcie_int_enable(on)
  PROVE  IInv'
<1> USE DEF IInv, HasControl, pcie_int_enable, WriteControl, dev, file
<1>1. TypeOK'
  BY DEF TypeOK
<1>2. ControlOK'
  BY DEF ControlOK
<1>3. hw_cyc' = hw_cyc
  OBVIOUS
<1>4. Owned'
  BY <1>3 DEF Owned, Holding, InCycle
<1>5. Prepared'
  BY DEF Prepared, Op
<1>6. SeenOK'
  BY DEF SeenOK
<1> QED BY <1>1, <1>2, <1>4, <1>5, <1>6 DEF WindowShadow, AccessFaithful

\* A step of the owner that leaves memory alone.
LEMMA CycleIInv ==
  ASSUME IInv, NEW f \in Files,
         \/ wb_cycle_raise(f) \/ wb_cycle_drop(f) \/ wb_cycle_unlock(f)
         \/ char_master_release(f)
  PROVE  IInv'
<1> USE BusAssumption DEF IInv, HasControl
<1>1. CASE wb_cycle_raise(f)
  <2> USE <1>1 DEF wb_cycle_raise, WriteControl, Goto, dev
  <2>1. TypeOK'
    BY DEF TypeOK
  <2>2. ControlOK'
    BY DEF TypeOK, ControlOK
  <2>3. Owned'
    <3>1. owner = f
      BY DEF Owned, Holding
    <3>2. Holding(f)' /\ InCycle(f)'
      BY DEF TypeOK, Holding, InCycle
    <3>3. owner' = owner /\ card' = card
          /\ hw_cyc' = IF HasControl THEN TRUE ELSE hw_cyc
      BY DEF TypeOK
    <3>4. ASSUME NEW g \in Files PROVE Holding(g)' <=> owner' = g
      <4>1. CASE g = f
        BY <3>1, <3>2, <3>3, <4>1
      <4>2. CASE g # f
        <5>1. ~ Holding(g)
          BY <3>1, <4>2 DEF Owned
        <5>2. pc'[g] = pc[g] /\ state'[g] = state[g]
          BY <4>2 DEF TypeOK
        <5> QED BY <3>1, <3>3, <4>2, <5>1, <5>2 DEF Holding, InCycle
      <4> QED BY <4>1, <4>2
    <3>5. \E g \in Files : InCycle(g)'
      BY <3>2, Zenon
    <3> QED BY <3>3, <3>4, <3>5 DEF Owned
  <2>4. Prepared'
    BY DEF TypeOK, Prepared, Op
  <2>5. SeenOK'
    BY DEF TypeOK, SeenOK
  <2> QED BY <2>1, <2>2, <2>3, <2>4, <2>5 DEF WindowShadow, AccessFaithful
<1>2. CASE wb_cycle_drop(f)
  <2>0. /\ pc[f] = "drop" /\ Goto(f, "unlock")
        /\ UNCHANGED <<card, owner, window_offset, lanes, hw_window, hw_lanes, mem,
                       state, rec, k, intended, seen>>
    BY <1>2 DEF wb_cycle_drop, dev
  <2>b. (hw_cyc' = FALSE) /\ hw_int' = hw_int
    <3>1. CASE HasControl
      <4>1. WriteControl({}, {"cyc"})
        BY <1>2, <3>1 DEF wb_cycle_drop
      <4>2. hw_cyc' = ("cyc" \in {}) /\ hw_int' = hw_int
        BY <4>1 DEF WriteControl
      <4>3. ("cyc" \in {}) = FALSE
        OBVIOUS
      <4> QED BY <4>2, <4>3
    <3>2. CASE ~HasControl
      BY <1>2, <3>2 DEF wb_cycle_drop, Owned, TypeOK
    <3> QED BY <3>1, <3>2
  <2> USE <2>0, <2>b DEF Goto
  <2>1. TypeOK'
    BY DEF TypeOK
  <2>2. ControlOK'
    BY DEF TypeOK, ControlOK
  <2>3. Owned'
    <3>1. owner = f
      BY DEF ControlOK, Owned, Holding, InCycle
    <3>2. \A g \in Files : ~InCycle(g)'
      BY <3>1 DEF TypeOK, Owned, Holding, InCycle
    <3>3. \A g \in Files : Holding(g)' <=> Holding(g)
      BY <3>1 DEF TypeOK, ControlOK, Holding, InCycle
    <3> QED BY <3>2, <3>3 DEF Owned
  <2>4. Prepared'
    BY DEF TypeOK, Prepared, Op
  <2>5. SeenOK'
    BY DEF TypeOK, SeenOK
  <2> QED BY <2>1, <2>2, <2>3, <2>4, <2>5 DEF WindowShadow, AccessFaithful
<1>3. CASE wb_cycle_unlock(f)
  <2> USE <1>3 DEF wb_cycle_unlock, Goto, hw
  <2>1. TypeOK'
    BY DEF TypeOK
  <2>2. ControlOK'
    BY DEF TypeOK, ControlOK
  <2>3. Owned'
    BY DEF TypeOK, ControlOK, Owned, Holding, InCycle
  <2>4. Prepared'
    BY DEF TypeOK, Prepared, Op
  <2>5. SeenOK'
    <3>1. owner = f
      BY DEF Owned, Holding
    <3>2. seen' = [g \in Files |-> {}]
      BY <3>1 DEF TypeOK, SeenOK
    <3> QED BY <3>2 DEF SeenOK
  <2> QED BY <2>1, <2>2, <2>3, <2>4, <2>5 DEF WindowShadow, AccessFaithful
<1>4. CASE char_master_release(f)
  <2> USE <1>4 DEF char_master_release, Goto, dev, hw
  <2>1. TypeOK'
    BY DEF TypeOK
  <2>2. ControlOK'
    BY DEF TypeOK, ControlOK
  <2>3. Owned'
    BY DEF TypeOK, ControlOK, Owned, Holding, InCycle
  <2>4. Prepared'
    BY DEF TypeOK, Prepared, Op
  <2>5. SeenOK'
    BY DEF TypeOK, SeenOK
  <2> QED BY <2>1, <2>2, <2>3, <2>4, <2>5 DEF WindowShadow, AccessFaithful
<1> QED BY <1>1, <1>2, <1>3, <1>4

\* Selecting lanes, and moving the window: the owner prepares its access.
LEMMA PrepareIInv ==
  ASSUME IInv, NEW f \in Files,
         wb_byteenable(f) \/ vme_byteenable(f) \/ wb_window(f)
  PROVE  IInv'
<1> USE BusAssumption DEF IInv, HasControl
<1>1. \A g \in Files \ {f} : pc[f] \in {"byteenable", "window"} =>
        pc[g] \notin {"byteenable", "window", "access"}
  BY DEF ControlOK, Owned, Holding, InCycle
<1>2. CASE wb_byteenable(f)
  <2> USE <1>2 DEF wb_byteenable, Goto, Resume, hw
  <2>1. \E be \in Legal : lanes' = Select(be)
    BY DEF Prepared
  <2>2. TypeOK'
    <3>1. lanes' \in [width : {1, 2, 4}, shift : {0, 8, 16, 24}, low_addr : Lane]
      BY <2>1, Selected
    <3> QED BY <3>1 DEF TypeOK
  <2>3. ControlOK'
    BY DEF TypeOK, ControlOK
  <2>4. Owned'
    BY DEF TypeOK, ControlOK, Owned, Holding, InCycle
  <2>5. Prepared'
    BY <1>1, <2>1 DEF TypeOK, Prepared, Op
  <2>6. SeenOK'
    BY DEF TypeOK, SeenOK
  <2> QED BY <2>2, <2>3, <2>4, <2>5, <2>6 DEF WindowShadow, AccessFaithful
<1>4. CASE vme_byteenable(f)
  <2> USE <1>4 DEF vme_byteenable, Goto, Resume, dev
  <2>1. rec[f].be \subseteq Lane
    BY DEF Prepared
  <2>2. TypeOK'
    BY <2>1 DEF TypeOK
  <2>3. ControlOK'
    BY DEF TypeOK, ControlOK
  <2>4. Owned'
    BY DEF TypeOK, ControlOK, Owned, Holding, InCycle
  <2>5. Prepared'
    BY <1>1 DEF TypeOK, Prepared, Op
  <2>6. SeenOK'
    BY DEF TypeOK, SeenOK
  <2> QED BY <2>2, <2>3, <2>4, <2>5, <2>6 DEF WindowShadow, AccessFaithful
<1>3. CASE wb_window(f)
  <2> USE <1>3 DEF wb_window, Goto
  <2>1. Op(f).addr[1] \in Windows
    BY DEF Prepared, Op, Access, Address
  <2>2. TypeOK'
    BY <2>1 DEF TypeOK
  <2>3. ControlOK'
    BY DEF TypeOK, ControlOK
  <2>4. Owned'
    BY DEF TypeOK, ControlOK, Owned, Holding, InCycle
  <2>5. WindowShadow' /\ hw_window' = Op(f).addr[1]
    BY DEF WindowShadow
  <2>6. Prepared'
    BY <1>1, <2>5 DEF TypeOK, Prepared, Op
  <2>7. SeenOK'
    BY DEF TypeOK, SeenOK
  <2> QED BY <2>2, <2>3, <2>4, <2>5, <2>6, <2>7 DEF AccessFaithful
<1> QED BY <1>2, <1>3, <1>4

\* What an access is about to do: the lanes are exactly those the record
\* asked for, and the window that of its place.
LEMMA AccessReady ==
  ASSUME IInv, NEW f \in Files, pc[f] = "access"
  PROVE  /\ Asked(f) \subseteq Lane
         /\ \A w, d : Written(w, d) =
              [n \in Lane |-> IF n \in Asked(f) THEN d[n] ELSE w[n]]
         /\ \A w : \A n \in Asked(f) : Returned(w)[n] = w[n]
         /\ Op(f) \in Access /\ Place(f) \in Address
         /\ Target(f) = Place(f)
         /\ owner = f
         /\ \A g \in Files \ {f} : seen[g] = {}
<1> USE BusAssumption DEF IInv, HasControl
<1>1. /\ Asked(f) \subseteq Lane
      /\ \A w, d : Written(w, d) =
           [n \in Lane |-> IF n \in Asked(f) THEN d[n] ELSE w[n]]
      /\ \A w : \A n \in Asked(f) : Returned(w)[n] = w[n]
  <2>1. CASE card = "vme_wb"
    <3>1. hw_lanes = rec[f].be /\ rec[f].be \in SUBSET Lane
      BY <2>1 DEF Prepared
    <3>2. Asked(f) = rec[f].be
      BY <2>1 DEF Asked
    <3> QED BY <2>1, <3>1, <3>2, TransferVme
  <2>2. CASE card # "vme_wb"
    <3>1. PICK be \in Legal : lanes = Select(be) /\ (rec[f].be \in Legal => be = rec[f].be)
      BY <2>2 DEF Prepared
    <3>2. /\ Touched = be /\ be \subseteq Lane
          /\ \A w, d : Written(w, d) =
               [n \in Lane |-> IF n \in be THEN d[n] ELSE w[n]]
          /\ \A w : \A n \in be : Returned(w)[n] = w[n]
      BY <2>2, <3>1, Transfer
    <3>3. Asked(f) = be
      BY <2>2, <3>1, <3>2 DEF Asked
    <3> QED BY <3>2, <3>3
  <2> QED BY <2>1, <2>2
<1>2. Op(f) \in Access
  BY DEF Prepared, Op
<1>3. Op(f).addr \in Windows \X Lows
  BY <1>2 DEF Access, Address
<1>4. Place(f) \in Windows \X Lows
  BY <1>3 DEF Place
<1>5. Target(f) = Place(f)
  BY <1>3 DEF Prepared, Target, Place
<1>6. owner = f
  BY DEF ControlOK, Owned, Holding, InCycle
<1>7. \A g \in Files \ {f} : seen[g] = {}
  BY <1>6 DEF SeenOK
<1> QED BY <1>1, <1>2, <1>4, <1>5, <1>6, <1>7 DEF Address

\* Control after an access: the next access, the drop, or the end.
LEMMA AccessControl ==
  ASSUME IInv, NEW f \in Files, pc[f] = "access", Accessed(f),
         UNCHANGED <<card, dev, hw_cyc, hw_int, hw_window, hw_lanes, state, rec>>
  PROVE  ControlOK' /\ Owned' /\ Prepared' /\ WindowShadow'
         /\ pc' \in [Files -> {"rest", "lock", "raise", "byteenable", "window",
                               "access", "drop", "unlock"}]
         /\ k' \in [Files -> Nat]
<1> USE BusAssumption DEF IInv, HasControl, Accessed, Goto, Resume, dev
<1>1. pc' \in [Files -> {"rest", "lock", "raise", "byteenable", "window",
                         "access", "drop", "unlock"}]
  BY DEF TypeOK
<1>2. k' \in [Files -> Nat]
  BY DEF TypeOK
<1>3. ControlOK'
  BY DEF TypeOK, ControlOK
<1>4. Owned'
  BY DEF TypeOK, ControlOK, Owned, Holding, InCycle
<1>5. Prepared'
  BY DEF TypeOK, Prepared, Op
<1> QED BY <1>1, <1>2, <1>3, <1>4, <1>5 DEF WindowShadow

\* What is remembered is what memory holds after the access.
LEMMA RememberOK ==
  ASSUME IInv, NEW f \in Files, pc[f] = "access", NEW d, Remember(f, d),
         \A n \in Asked(f) : d[n] \in Bytes,
         UNCHANGED owner,
         mem' \in [Address -> Data],
         \A n \in Asked(f) : mem'[Place(f)][n] = d[n],
         \A a \in Address, n \in Lane :
           a # Place(f) \/ n \notin Asked(f) => mem'[a][n] = mem[a][n]
  PROVE  SeenOK' /\ seen' \in [Files -> SUBSET (Address \X Lane \X Bytes)]
<1> USE DEF IInv
<1>1. /\ Asked(f) \subseteq Lane /\ Place(f) \in Address
      /\ \A g \in Files \ {f} : seen[g] = {}
  BY AccessReady
<1> DEFINE Old == {t \in seen[f] : t[1] # Place(f) \/ t[2] \notin Asked(f)}
           New == {<<Place(f), n, d[n]>> : n \in Asked(f)}
<1>2. seen' = [seen EXCEPT ![f] = Old \cup New]
  BY DEF Remember
<1>3. seen \in [Files -> SUBSET (Address \X Lane \X Bytes)]
  BY DEF TypeOK
<1>4. Old \cup New \subseteq Address \X Lane \X Bytes
  <2>1. Old \subseteq Address \X Lane \X Bytes
    BY <1>3
  <2>2. New \subseteq Address \X Lane \X Bytes
    BY <1>1
  <2> QED BY <2>1, <2>2
<1>5. seen' \in [Files -> SUBSET (Address \X Lane \X Bytes)]
  BY <1>2, <1>3, <1>4, Zenon
<1>6. ASSUME NEW t \in Old PROVE mem'[t[1]][t[2]] = t[3]
  <2>1. t[1] \in Address /\ t[2] \in Lane
    BY <1>3
  <2>2. mem[t[1]][t[2]] = t[3]
    BY DEF SeenOK
  <2> QED BY <2>1, <2>2
<1>7. ASSUME NEW t \in New PROVE mem'[t[1]][t[2]] = t[3]
  OBVIOUS
<1>8. owner = f
  BY DEF ControlOK, Owned, Holding, InCycle
<1>9. SeenOK'
  BY <1>1, <1>2, <1>3, <1>6, <1>7, <1>8 DEF SeenOK
<1> QED BY <1>5, <1>9

\* An access changes and returns exactly what its record asked for.
LEMMA AccessIInv ==
  ASSUME IInv, NEW f \in Files, wb_write(f) \/ wb_read(f)
  PROVE  IInv'
<1> DEFINE A == Asked(f)
           a == Place(f)
<1>0. pc[f] = "access" /\ Accessed(f)
      /\ UNCHANGED <<card, dev, hw_cyc, hw_int, hw_window, hw_lanes, state, rec>>
  BY DEF wb_write, wb_read, hw
<1>1. /\ A \subseteq Lane /\ Op(f) \in Access /\ a \in Address
      /\ Target(f) = a
      /\ \A w, d : Written(w, d) = [n \in Lane |-> IF n \in A THEN d[n] ELSE w[n]]
      /\ \A w : \A n \in A : Returned(w)[n] = w[n]
  BY <1>0, AccessReady
<1>2. /\ ControlOK' /\ Owned' /\ Prepared' /\ WindowShadow'
      /\ pc' \in [Files -> {"rest", "lock", "raise", "byteenable", "window",
                            "access", "drop", "unlock"}]
      /\ k' \in [Files -> Nat]
  BY <1>0, AccessControl
<1>3. /\ mem \in [Address -> Data] /\ intended = mem
      /\ TypeOK
  BY DEF IInv, TypeOK, AccessFaithful
<1>4. mem[a] \in Data
  BY <1>1, <1>3
<1>5. CASE wb_write(f)
  <2> DEFINE d == Op(f).data
             w == [n \in Lane |-> IF n \in A THEN d[n] ELSE mem[a][n]]
  <2>1. d \in Data
    BY <1>1, <1>5 DEF wb_write, Access
  <2>2. mem' = [mem EXCEPT ![a] = w]
    BY <1>1, <1>3, <1>5 DEF wb_write
  <2>3. intended' = [mem EXCEPT ![a] = w]
    BY <1>1, <1>3, <1>5 DEF wb_write
  <2>4. w \in Data
    BY <1>1, <1>4, <2>1 DEF Data
  <2>5. mem' \in [Address -> Data] /\ mem'[a] = w
        /\ \A b \in Address : b # a => mem'[b] = mem[b]
    BY <1>1, <1>3, <2>2, <2>4
  <2>6. \A n \in A : d[n] \in Bytes /\ mem'[a][n] = d[n]
    BY <1>1, <2>1, <2>5 DEF Data
  <2>7. \A b \in Address, n \in Lane : b # a \/ n \notin A => mem'[b][n] = mem[b][n]
    BY <1>1, <2>5
  <2>8. Remember(f, d) /\ UNCHANGED owner
    BY <1>5 DEF wb_write, dev
  <2>9. SeenOK' /\ seen' \in [Files -> SUBSET (Address \X Lane \X Bytes)]
    BY <1>0, <2>5, <2>6, <2>7, <2>8, RememberOK
  <2>10. TypeOK'
    BY <1>0, <1>2, <1>3, <2>2, <2>3, <2>5, <2>9 DEF TypeOK, dev
  <2> QED BY <1>2, <2>2, <2>3, <2>9, <2>10 DEF IInv, AccessFaithful
<1>6. CASE wb_read(f)
  <2> DEFINE d == Returned(mem[a])
  <2>1. UNCHANGED <<mem, intended>>
    BY <1>6 DEF wb_read, hw
  <2>2. \A n \in A : d[n] \in Bytes /\ mem'[a][n] = d[n]
    BY <1>1, <1>4, <2>1 DEF Data
  <2>3. Remember(f, d) /\ UNCHANGED owner
    BY <1>1, <1>6 DEF wb_read, dev
  <2>4. SeenOK' /\ seen' \in [Files -> SUBSET (Address \X Lane \X Bytes)]
    BY <1>0, <1>3, <2>1, <2>2, <2>3, RememberOK
  <2>5. TypeOK'
    BY <1>0, <1>2, <1>3, <2>1, <2>4 DEF TypeOK, dev
  <2> QED BY <1>2, <1>3, <2>1, <2>4, <2>5 DEF IInv, AccessFaithful
<1> QED BY <1>5, <1>6

-----------------------------------------------------------------------------
(***************************************************************************)
(* The theorems.                                                           *)
(***************************************************************************)
\* Every step keeps the invariant.
LEMMA NextIInv == IInv /\ [Next]_vars => IInv'
<1> SUFFICES ASSUME IInv, [Next]_vars PROVE IInv'
  OBVIOUS
<1>1. ASSUME NEW on \in BOOLEAN, pcie_int_enable(on) PROVE IInv'
  BY <1>1, InterruptIInv
<1>2. ASSUME NEW f \in Files,
             \/ char_master_open(f) \/ \E r \in Records : record(f, r)
             \/ wb_cycle_lock(f)
      PROVE  IInv'
  BY <1>2, OutsideIInv
<1>3. ASSUME NEW f \in Files, Running(f) \/ char_master_release(f) PROVE IInv'
  BY <1>3, CycleIInv, PrepareIInv, AccessIInv DEF Running
<1>4. CASE UNCHANGED vars
  BY <1>4 DEF vars, dev, hw, file, IInv, HasControl, TypeOK, ControlOK, Owned, Holding,
              InCycle, Prepared, Op, WindowShadow, AccessFaithful, SeenOK
<1> QED BY <1>1, <1>2, <1>3, <1>4 DEF Next

\* The inductive invariant holds in every reachable state: who may be where,
\* who owns the mutex, and what the lanes and the window are set to.
THEOREM Invariance == Spec => []IInv
<1> QED BY InitIInv, NextIInv, PTL DEF Spec

\* The variables of the card keep their types; the width is always 1, 2 or 4.
THEOREM TypeCorrect == Spec => []TypeOK
<1>1. IInv => TypeOK
  BY DEF IInv
<1> QED BY <1>1, Invariance, PTL

\* At most one file has the bus, and a card's cycle line is up exactly then.
THEOREM OneCycleAtATime == Spec => []OneCycle
<1>1. IInv => OneCycle
  BY DEF IInv, OneCycle, HasControl, Owned, Holding, ControlOK, InCycle
<1> QED BY <1>1, Invariance, PTL

\* The cached window offset is what the card is set to.
THEOREM WindowIsShadowed == Spec => []WindowShadow
<1>1. IInv => WindowShadow
  BY DEF IInv
<1> QED BY <1>1, Invariance, PTL

\* Every access reaches the address and bytes of its own record.
THEOREM AccessesAreFaithful == Spec => []AccessFaithful
<1>1. IInv => AccessFaithful
  BY DEF IInv
<1> QED BY <1>1, Invariance, PTL

\* A cycle is atomic for the file that has it.
THEOREM CyclesAreIsolated == Spec => []Isolated
<1>1. IInv => Isolated
  BY DEF IInv, SeenOK, Isolated
<1> QED BY <1>1, Invariance, PTL

-----------------------------------------------------------------------------
(***************************************************************************)
(* The drivers implement WishboneBus.                                      *)
(***************************************************************************)
\* The initial states are initial states of the bus.
LEMMA InitBus == Init => Bus!Init
  BY BusAssumption DEF Init, Bus!Init, Data

\* An access of a file is an access of the bus, at its place and lanes.
LEMMA AccessBus ==
  ASSUME IInv, IInv', NEW f \in Files, wb_write(f) \/ wb_read(f)
  PROVE  Bus!Next
<1> DEFINE A == Asked(f)
           a == Place(f)
<1>1. pc[f] = "access" /\ UNCHANGED owner
  BY DEF wb_write, wb_read, dev
<1>2. /\ A \in SUBSET Lane /\ a \in Address /\ Target(f) = a /\ owner = f
      /\ \A w, d : Written(w, d) = [n \in Lane |-> IF n \in A THEN d[n] ELSE w[n]]
      /\ \A w : \A n \in A : Returned(w)[n] = w[n]
  BY <1>1, AccessReady
<1>3. mem \in [Address -> Data] /\ mem' \in [Address -> [Lane -> Bytes]]
  BY DEF IInv, TypeOK, Data
<1>4. CASE wb_write(f)
  <2>1. mem' = [mem EXCEPT ![a] = [n \in Lane |-> IF n \in A THEN Op(f).data[n] ELSE mem[a][n]]]
    BY <1>2, <1>3, <1>4 DEF wb_write
  <2>2. \A b \in Address, n \in Lane : mem'[b][n] # mem[b][n] => b = a /\ n \in A
    BY <1>2, <1>3, <2>1
  <2>3. \A n \in A : mem'[a][n] = Op(f).data[n]
    BY <1>2, <1>3, <2>1
  <2>4. {<<a, n, Op(f).data[n]>> : n \in A} = {<<a, n, mem'[a][n]>> : n \in A}
    BY <2>3
  <2>5. seen' = [seen EXCEPT ![f] = {t \in seen[f] : t[1] # a \/ t[2] \notin A}
                                     \cup {<<a, n, mem'[a][n]>> : n \in A}]
    BY <1>4, <2>4 DEF wb_write, Remember
  <2>6. Bus!Write(f, a, A)
    BY <1>1, <1>2, <1>3, <2>2, <2>5 DEF Bus!Write, Bus!Confined, Bus!Sees
  <2> QED BY <1>2, <2>6 DEF Bus!Next
<1>5. CASE wb_read(f)
  <2>1. mem' = mem
    BY <1>5 DEF wb_read, hw
  <2>2. {<<a, n, Returned(mem[a])[n]>> : n \in A} = {<<a, n, mem'[a][n]>> : n \in A}
    BY <1>2, <2>1
  <2>3. seen' = [seen EXCEPT ![f] = {t \in seen[f] : t[1] # a \/ t[2] \notin A}
                                     \cup {<<a, n, mem'[a][n]>> : n \in A}]
    <3>1. Remember(f, Returned(mem[a]))
      BY <1>2, <1>5 DEF wb_read
    <3> QED BY <2>2, <3>1 DEF Remember
  <2>4. Bus!Read(f, a, A)
    BY <1>1, <1>2, <2>1, <2>3 DEF Bus!Read, Bus!Sees
  <2> QED BY <1>2, <2>4 DEF Bus!Next
<1> QED BY <1>4, <1>5

\* Every step of the drivers is a step of the bus or leaves it alone.
LEMMA NextBus == IInv /\ IInv' /\ [Next]_vars => [Bus!Next]_(Bus!bus)
<1> SUFFICES ASSUME IInv, IInv', [Next]_vars
             PROVE  Bus!Next \/ UNCHANGED <<owner, mem, seen>>
  BY DEF Bus!bus
<1>1. ASSUME NEW f \in Files, wb_cycle_lock(f) PROVE Bus!Next
  <2>1. Bus!Begin(f)
    BY <1>1 DEF wb_cycle_lock, hw, Bus!Begin
  <2> QED BY <2>1 DEF Bus!Next
<1>2. ASSUME NEW f \in Files, wb_cycle_unlock(f) PROVE Bus!Next
  <2>1. owner = f
    BY <1>2 DEF wb_cycle_unlock, IInv, Owned, Holding
  <2>2. Bus!End(f)
    BY <1>2, <2>1 DEF wb_cycle_unlock, hw, Bus!End
  <2> QED BY <2>2 DEF Bus!Next
<1>3. ASSUME NEW f \in Files, wb_write(f) \/ wb_read(f) PROVE Bus!Next
  BY <1>3, AccessBus
<1>4. ASSUME NEW f \in Files,
             \/ char_master_open(f) \/ \E r \in Records : record(f, r)
             \/ wb_cycle_raise(f) \/ wb_byteenable(f) \/ vme_byteenable(f)
             \/ wb_window(f) \/ wb_cycle_drop(f) \/ char_master_release(f)
      PROVE  UNCHANGED <<owner, mem, seen>>
  BY <1>4 DEF char_master_open, record, wb_cycle_raise, wb_byteenable,
              vme_byteenable, wb_window, wb_cycle_drop, char_master_release, dev, hw
<1>5. ASSUME NEW on \in BOOLEAN, pcie_int_enable(on)
      PROVE  UNCHANGED <<owner, mem, seen>>
  BY <1>5 DEF pcie_int_enable, dev
<1>6. CASE UNCHANGED vars
  BY <1>6 DEF vars, dev, hw
<1> QED BY <1>1, <1>2, <1>3, <1>4, <1>5, <1>6 DEF Next, Running

\* Each of the three drivers implements a Wishbone bus: turns, confined
\* writes, and reads of what is there.
THEOREM BusImplemented == Spec => ImplementsBus
<1>1. Spec => Init /\ []IInv /\ [][Next]_vars
  BY Invariance DEF Spec
<1>2. Bus!Init /\ [][Bus!Next]_(Bus!bus) <=> ImplementsBus
  BY DEF ImplementsBus, Bus!Spec
<1> QED BY <1>1, <1>2, InitBus, NextBus, PTL
=============================================================================
