--------------------------- MODULE CardDriverProofs ---------------------------
(***************************************************************************)
(* Proofs about CardDriver, for any number of users and of times that a    *)
(* driver is bound to its card.                                            *)
(***************************************************************************)
EXTENDS CardDriver, TLAPS

TypeOK ==
  /\ driver \in {"pcie_wb", "spec_wb", "vme_wb"}
  /\ phase \in {"unbound", "probe", "fail", "fail0", "lost", "bound", "remove"}
  /\ at \in Nat \ {0}
  /\ legacy \in BOOLEAN /\ int_enable \in BOOLEAN /\ withdrawn \in BOOLEAN

\* While a driver binds it has what the steps so far have taken, although MSI
\* is not always there to take, and nothing but that and what was left before.
Probing ==
  phase = "probe" =>
    /\ at \in 1..Len(probe)
    /\ \A k \in 1..at - 1 : probe[k] \in held \cup {"msi"}
    /\ \A x \in held : x \in Left \/ \E k \in 1..at - 1 : probe[k] = x

Bound ==
  phase = "bound" =>
    /\ \A k \in 1..Len(probe) : probe[k] \in held \cup {"msi"}
    /\ \A x \in held : x \in Left \/ \E k \in 1..Len(probe) : probe[k] = x

\* What is held when a probe has failed is given back at the labels to come,
\* and the bus, if it is held, at the first of them.
Unwinding ==
  phase = "fail" =>
    /\ at \in 1..Len(labels)
    /\ \A x \in held :
         x \in Left \/ \E k \in at..Len(labels) : labels[k] = x
    /\ "irq" \notin held
    /\ "bus" \in held => labels[at] = "bus" /\ UserNeeds \subseteq held

\* What is held in remove is given back at its steps to come.
Going ==
  phase = "remove" =>
    /\ at \in 1..Len(remove)
    /\ \A k \in at..Len(remove) : remove[k] \in held \cup {"quiet", "msi"}
    /\ \A x \in held :
         x \in Left \/ \E k \in at..Len(remove) : remove[k] = x
    /\ Left \subseteq held /\ open = {}

Gone == phase = "unbound" => held \subseteq Left

\* Only a VME card is lost, and then no handler of it is left.
Lost == phase \in {"fail0", "lost"} => driver = "vme_wb" /\ "irq" \notin held

\* A user has the card open through a bus that is registered, but for the
\* failures that leave him alone with it.
Opened ==
  open # {} =>
    "bus" \in held \/ withdrawn \/ phase \in {"fail0", "lost"}

\* The legacy interrupt belongs to pcie_wb, which silences the card first
\* of all when it goes.
Enabled ==
  int_enable =>
    /\ driver = "pcie_wb"
    /\ phase = "remove" => at = 1
    /\ \/ withdrawn \/ "irq" \in held
       \/ phase \in {"probe", "fail"} /\ "bus" \in held

IInv == /\ TypeOK /\ Probing /\ Bound /\ Unwinding /\ Going /\ Gone /\ Lost
        /\ Opened /\ Enabled

(***************************************************************************)
(* What the tables of the drivers have in common.                          *)
(***************************************************************************)
\* Probe takes the users' windows before the bus and the handler's before the
\* interrupt.
LEMMA ProbeTable ==
  ASSUME driver \in {"pcie_wb", "spec_wb", "vme_wb"}
  PROVE  /\ Len(probe) \in Nat \ {0}
         /\ \A i \in 1..Len(probe) :
              /\ probe[i] = "bus" =>
                   \A n \in UserNeeds : \E k \in 1..i - 1 : probe[k] = n
              /\ probe[i] = "irq" =>
                   \A n \in HandlerNeeds : \E k \in 1..i - 1 : probe[k] = n
              /\ probe[i] = "irq" /\ driver = "pcie_wb" =>
                   i = Len(probe) /\ \E k \in 1..i - 1 : probe[k] = "bus"
         /\ \A x \in Left : \E k \in 1..Len(probe) : probe[k] = x
         /\ driver = "pcie_wb" => probe[Len(probe)] = "irq"
<1> USE DEF probe, pcie_probe, spec_probe, vme_probe, UserNeeds, HandlerNeeds,
            Left
<1>1. CASE driver = "pcie_wb"
  <2>1. probe = pcie_probe /\ Len(probe) = 8
    BY <1>1
  <2>2. ASSUME NEW i \in 1..8 PROVE probe[i] = "bus" => i = 7
    BY <1>1
  <2>3. ASSUME NEW i \in 1..8 PROVE probe[i] = "irq" => i = 8
    BY <1>1
  <2> QED BY <1>1, <2>1, <2>2, <2>3
<1>2. CASE driver = "spec_wb"
  <2>1. probe = spec_probe /\ Len(probe) = 8
    BY <1>2
  <2>2. ASSUME NEW i \in 1..8 PROVE probe[i] = "bus" => i = 8
    BY <1>2
  <2>3. ASSUME NEW i \in 1..8 PROVE probe[i] # "irq"
    BY <1>2
  <2> QED BY <1>2, <2>1, <2>2, <2>3
<1>3. CASE driver = "vme_wb"
  <2>1. probe = vme_probe /\ Len(probe) = 8
    BY <1>3
  <2>2. ASSUME NEW i \in 1..8 PROVE probe[i] = "bus" => i = 6
    BY <1>3
  <2>3. ASSUME NEW i \in 1..8 PROVE probe[i] = "irq" => i = 7
    BY <1>3
  <2> QED BY <1>3, <2>1, <2>2, <2>3
<1> QED BY <1>1, <1>2, <1>3

\* What was taken before a step that fails is given back from its label on,
\* or stays; a bus that was registered, at the label itself.
LEMMA FailTable ==
  ASSUME driver \in {"pcie_wb", "spec_wb", "vme_wb"}, NEW i \in 1..Len(probe)
  PROVE  /\ \/ probe[i] \in {"master", "msi", "init"} \cup DOMAIN fail
            \/ i = 1
         /\ probe[i] \in DOMAIN fail => fail[probe[i]] \in 1..Len(labels)
         /\ \A k \in 1..i - 1 : probe[k] = "irq" => probe[i] = "init"
         /\ probe[i] \in Swallowed => driver = "vme_wb"
         /\ probe[i] \in DOMAIN fail \ Swallowed =>
              \A k \in 1..i - 1 :
                /\ \/ probe[k] \in Left
                   \/ \E j \in fail[probe[i]]..Len(labels) : labels[j] = probe[k]
                /\ probe[k] = "bus" => labels[fail[probe[i]]] = "bus"
<1> USE DEF probe, pcie_probe, spec_probe, vme_probe, fail, pcie_fail,
            spec_fail, vme_fail, labels, pcie_labels, spec_labels, vme_labels,
            Left, Swallowed
<1>1. CASE driver = "pcie_wb"
  BY <1>1
<1>2. CASE driver = "spec_wb"
  BY <1>2
<1>3. CASE driver = "vme_wb"
  BY <1>3
<1> QED BY <1>1, <1>2, <1>3

\* Every driver has a label to go to.
LEMMA LabelTable ==
  ASSUME driver \in {"pcie_wb", "spec_wb", "vme_wb"}
  PROVE  Len(labels) \in Nat \ {0}
<1> USE DEF labels, pcie_labels, spec_labels, vme_labels
<1>1. CASE driver = "pcie_wb"
  BY <1>1
<1>2. CASE driver = "spec_wb"
  BY <1>2
<1>3. CASE driver = "vme_wb"
  BY <1>3
<1> QED BY <1>1, <1>2, <1>3

\* Remove gives back what probe took, each thing once and the handler before
\* what it needs; pcie_wb and spec_wb the bus before what its users need.
LEMMA RemoveTable ==
  ASSUME driver \in {"pcie_wb", "spec_wb", "vme_wb"}
  PROVE  /\ Len(remove) \in Nat \ {0}
         /\ \A i, j \in 1..Len(remove) : remove[i] = remove[j] => i = j
         /\ \A i \in 1..Len(remove) :
              /\ remove[i] \notin Left
              /\ \/ remove[i] = "quiet"
                 \/ \E k \in 1..Len(probe) : probe[k] = remove[i]
              /\ remove[i] = "irq" =>
                   \A n \in HandlerNeeds :
                     n \in Left \/ \E k \in i + 1..Len(remove) : remove[k] = n
              /\ remove[i] = "bus" /\ driver # "vme_wb" =>
                   \A n \in UserNeeds :
                     n \in Left \/ \E k \in i + 1..Len(remove) : remove[k] = n
         /\ \A k \in 1..Len(probe) :
              probe[k] \in Left \/ \E i \in 1..Len(remove) : remove[i] = probe[k]
         /\ driver = "pcie_wb" => remove[1] = "quiet" /\ Len(remove) # 1
<1> USE DEF probe, pcie_probe, spec_probe, vme_probe, remove, pcie_remove,
            spec_remove, vme_remove, Left, UserNeeds, HandlerNeeds
<1>1. CASE driver = "pcie_wb"
  BY <1>1
<1>2. CASE driver = "spec_wb"
  BY <1>2
<1>3. CASE driver = "vme_wb"
  BY <1>3
<1> QED BY <1>1, <1>2, <1>3

(***************************************************************************)
(* Each step keeps the invariant.                                          *)
(***************************************************************************)
LEMMA SameDriver ==
  ASSUME driver' = driver
  PROVE  /\ probe' = probe /\ labels' = labels /\ remove' = remove
         /\ Left' = Left /\ UserNeeds' = UserNeeds
BY DEF probe, labels, remove, Left, UserNeeds

LEMMA NeverLeft ==
  ASSUME driver \in {"pcie_wb", "spec_wb", "vme_wb"}
  PROVE  "bus" \notin Left /\ "irq" \notin Left
BY DEF Left

\* While a driver binds, a bus that is registered finds what its users need.
LEMMA UsersReach ==
  ASSUME TypeOK, Probing, phase = "probe", "bus" \in held
  PROVE  UserNeeds \subseteq held
<1>1. driver \in {"pcie_wb", "spec_wb", "vme_wb"} /\ at \in Nat \ {0}
  BY DEF TypeOK
<1>2. /\ at \in 1..Len(probe)
      /\ \A k \in 1..at - 1 : probe[k] \in held \cup {"msi"}
  BY DEF Probing
<1>3. PICK i \in 1..at - 1 : probe[i] = "bus"
  BY <1>1, NeverLeft DEF Probing
<1>4. i \in 1..Len(probe) /\ \A k \in 1..i - 1 : k \in 1..at - 1
  BY <1>1, <1>2, <1>3, ProbeTable
<1>5. \A n \in UserNeeds : \E k \in 1..at - 1 : probe[k] = n
  BY <1>1, <1>3, <1>4, ProbeTable
<1>6. "msi" \notin UserNeeds
  BY DEF UserNeeds
<1> QED BY <1>2, <1>5, <1>6

LEMMA BindStep ==
  ASSUME IInv, Bind
  PROVE  IInv'
<1>1. /\ phase = "unbound" /\ ~withdrawn /\ phase' = "probe" /\ at' = 1
      /\ legacy' = FALSE
      /\ UNCHANGED <<driver, held, int_enable, pending, open, withdrawn>>
  BY DEF Bind
<1>2. driver \in {"pcie_wb", "spec_wb", "vme_wb"}
  BY DEF IInv, TypeOK
<1>3. /\ probe' = probe /\ labels' = labels /\ remove' = remove
      /\ Left' = Left /\ UserNeeds' = UserNeeds
  BY <1>1, SameDriver
<1>4. held \subseteq Left /\ "bus" \notin held /\ "irq" \notin held
  BY <1>1, <1>2, NeverLeft DEF IInv, Gone
<1>5. TypeOK'
  <2>1. at' \in Nat \ {0}
    BY <1>1
  <2>2. legacy' \in BOOLEAN /\ int_enable' \in BOOLEAN /\ withdrawn' \in BOOLEAN
    BY <1>1, Zenon DEF IInv, TypeOK
  <2> QED BY <1>1, <1>2, <2>1, <2>2 DEF TypeOK
<1>6. Probing'
  BY <1>1, <1>2, <1>3, <1>4, ProbeTable DEF Probing
<1>7. Opened' /\ Enabled'
  BY <1>1, <1>4 DEF IInv, Opened, Enabled
<1>8. Bound' /\ Unwinding' /\ Going' /\ Gone' /\ Lost'
  BY <1>1 DEF Bound, Unwinding, Going, Gone, Lost
<1> QED BY <1>5, <1>6, <1>7, <1>8 DEF IInv

LEMMA ProbeStepStep ==
  ASSUME IInv, ProbeStep
  PROVE  IInv'
<1>1. /\ phase = "probe" /\ at' = at + 1
      /\ phase' = IF at = Len(probe) THEN "bound" ELSE "probe"
      /\ UNCHANGED <<driver, pending, open, withdrawn, binds>>
  BY DEF ProbeStep
<1>2. driver \in {"pcie_wb", "spec_wb", "vme_wb"} /\ at \in Nat \ {0}
  BY DEF IInv, TypeOK
<1>3. /\ probe' = probe /\ labels' = labels /\ remove' = remove
      /\ Left' = Left /\ UserNeeds' = UserNeeds
  BY <1>1, SameDriver
<1>4. /\ at \in 1..Len(probe)
      /\ \A k \in 1..at - 1 : probe[k] \in held \cup {"msi"}
      /\ \A x \in held : x \in Left \/ \E k \in 1..at - 1 : probe[k] = x
  BY <1>1 DEF IInv, Probing
<1>5. Len(probe) \in Nat
  BY <1>2, ProbeTable
<1>6. /\ legacy' \in BOOLEAN
      /\ held \subseteq held' /\ held' \subseteq held \cup {probe[at]}
      /\ probe[at] \in held' \cup {"msi"}
  BY DEF ProbeStep, Taken, IInv, TypeOK
<1>7. /\ \A k \in 1..at : probe[k] \in held' \cup {"msi"}
      /\ \A x \in held' : x \in Left \/ \E k \in 1..at : probe[k] = x
  <2>1. 1..at = (1..at - 1) \cup {at}
    BY <1>2
  <2> QED BY <1>4, <1>6, <2>1
<1>8. /\ int_enable' \in BOOLEAN
      /\ int_enable' => driver = "pcie_wb"
      /\ int_enable' => int_enable \/ probe[at] = "irq"
  BY DEF ProbeStep, pcie_int_enable, IInv, TypeOK, Enabled
<1>9. TypeOK'
  BY <1>1, <1>2, <1>6, <1>8 DEF IInv, TypeOK
<1>10. Probing'
  <2> SUFFICES ASSUME phase' = "probe"
               PROVE  /\ at' \in 1..Len(probe)
                      /\ \A k \in 1..at' - 1 : probe[k] \in held' \cup {"msi"}
                      /\ \A x \in held' :
                           x \in Left \/ \E k \in 1..at' - 1 : probe[k] = x
    BY <1>3 DEF Probing
  <2>1. at # Len(probe) /\ at' - 1 = at /\ at' \in 1..Len(probe)
    BY <1>1, <1>2, <1>4, <1>5
  <2> QED BY <1>7, <2>1
<1>11. Bound'
  <2> SUFFICES ASSUME phase' = "bound"
               PROVE  /\ \A k \in 1..Len(probe) : probe[k] \in held' \cup {"msi"}
                      /\ \A x \in held' :
                           x \in Left \/ \E k \in 1..Len(probe) : probe[k] = x
    BY <1>3 DEF Bound
  <2>1. at = Len(probe)
    BY <1>1
  <2> QED BY <1>7, <2>1
<1>12. Opened'
  BY <1>1, <1>6 DEF IInv, Opened
<1>13. Enabled'
  <2> SUFFICES ASSUME int_enable'
               PROVE  \/ withdrawn' \/ "irq" \in held'
                      \/ phase' \in {"probe", "fail"} /\ "bus" \in held'
    BY <1>1, <1>8 DEF Enabled
  <2>1. CASE probe[at] = "irq"
    BY <1>6, <2>1
  <2>2. CASE int_enable /\ phase' = "probe"
    BY <1>1, <1>6, <2>2 DEF IInv, Enabled
  <2>3. CASE int_enable /\ phase' = "bound"
    <3>1. driver = "pcie_wb" /\ at = Len(probe)
      BY <1>1, <1>8, <2>3
    <3>2. probe[at] = "irq"
      BY <1>2, <3>1, ProbeTable
    <3> QED BY <1>6, <3>2
  <2> QED BY <1>1, <1>8, <2>1, <2>2, <2>3
<1>14. Unwinding' /\ Going' /\ Gone' /\ Lost'
  BY <1>1 DEF Unwinding, Going, Gone, Lost
<1> QED BY <1>9, <1>10, <1>11, <1>12, <1>13, <1>14 DEF IInv

LEMMA ProbeFailsStep ==
  ASSUME IInv, ProbeFails
  PROVE  IInv'
<1>1. /\ phase = "probe" /\ probe[at] \notin {"master", "msi", "init"}
      /\ UNCHANGED <<driver, held, legacy, int_enable, pending, open, withdrawn>>
  BY DEF ProbeFails
<1>2. driver \in {"pcie_wb", "spec_wb", "vme_wb"} /\ at \in Nat \ {0}
  BY DEF IInv, TypeOK
<1>3. /\ probe' = probe /\ labels' = labels /\ remove' = remove
      /\ Left' = Left /\ UserNeeds' = UserNeeds
  BY <1>1, SameDriver
<1>4. /\ at \in 1..Len(probe)
      /\ \A k \in 1..at - 1 : probe[k] \in held \cup {"msi"}
      /\ \A x \in held : x \in Left \/ \E k \in 1..at - 1 : probe[k] = x
  BY <1>1 DEF IInv, Probing
<1>5. "irq" \notin held
  BY <1>1, <1>2, <1>4, FailTable, NeverLeft
<1>6. CASE probe[at] \in DOMAIN fail
  <2>1. /\ phase' = IF probe[at] \in Swallowed THEN "fail0" ELSE "fail"
        /\ at' = fail[probe[at]] /\ at' \in 1..Len(labels)
    BY <1>2, <1>4, <1>6, FailTable DEF ProbeFails
  <2>2. at' \in Nat \ {0}
    BY <1>2, <2>1, LabelTable
  <2>3. TypeOK'
    BY <1>1, <2>1, <2>2 DEF IInv, TypeOK
  <2>4. Unwinding'
    <3> SUFFICES ASSUME phase' = "fail"
                 PROVE  /\ \A x \in held : x \in Left \/
                             \E k \in at'..Len(labels) : labels[k] = x
                        /\ "bus" \in held =>
                             labels[at'] = "bus" /\ UserNeeds \subseteq held
      BY <1>1, <1>3, <1>5, <2>1 DEF Unwinding
    <3>1. probe[at] \in DOMAIN fail \ Swallowed
      BY <1>6, <2>1
    <3>2. \A x \in held :
            x \in Left \/ \E k \in at'..Len(labels) : labels[k] = x
      BY <1>2, <1>4, <2>1, <3>1, FailTable
    <3>3. ASSUME "bus" \in held
          PROVE  labels[at'] = "bus" /\ UserNeeds \subseteq held
      <4>1. PICK k \in 1..at - 1 : probe[k] = "bus"
        BY <1>2, <1>4, <3>3, NeverLeft
      <4>2. labels[at'] = "bus"
        BY <1>2, <1>4, <2>1, <3>1, <4>1, FailTable
      <4>3. UserNeeds \subseteq held
        BY <1>1, <1>2, <1>4, <4>1, UsersReach DEF IInv
      <4> QED BY <4>2, <4>3
    <3> QED BY <3>2, <3>3
  <2>5. Lost'
    BY <1>1, <1>2, <1>4, <1>5, <2>1, FailTable DEF Lost
  <2>6. Opened' /\ Enabled'
    BY <1>1, <1>5, <2>1, FailTable, <1>2, <1>4 DEF IInv, Opened, Enabled
  <2>7. Probing' /\ Bound' /\ Going' /\ Gone'
    BY <2>1 DEF Probing, Bound, Going, Gone
  <2> QED BY <2>3, <2>4, <2>5, <2>6, <2>7 DEF IInv
<1>7. CASE probe[at] \notin DOMAIN fail
  <2>1. phase' = "unbound" /\ at' = 1 /\ at = 1
    BY <1>1, <1>2, <1>4, <1>7, FailTable DEF ProbeFails
  <2>2. held \subseteq Left /\ "bus" \notin held
    BY <1>2, <1>4, <2>1, NeverLeft
  <2>3. TypeOK'
    BY <1>1, <2>1 DEF IInv, TypeOK
  <2>4. Gone'
    BY <1>1, <1>3, <2>2 DEF Gone
  <2>5. Opened' /\ Enabled'
    BY <1>1, <1>5, <2>1, <2>2 DEF IInv, Opened, Enabled
  <2>6. Probing' /\ Bound' /\ Unwinding' /\ Going' /\ Lost'
    BY <2>1 DEF Probing, Bound, Unwinding, Going, Lost
  <2> QED BY <2>3, <2>4, <2>5, <2>6 DEF IInv
<1> QED BY <1>6, <1>7

LEMMA FailStepStep ==
  ASSUME IInv, FailStep
  PROVE  IInv'
<1>1. /\ phase \in {"fail", "fail0"} /\ held' = held \ {labels[at]}
      /\ UNCHANGED <<driver, legacy, int_enable, pending, open, binds>>
  BY DEF FailStep, GivenBack
<1>2. driver \in {"pcie_wb", "spec_wb", "vme_wb"} /\ at \in Nat \ {0}
  BY DEF IInv, TypeOK
<1>3. /\ probe' = probe /\ labels' = labels /\ remove' = remove
      /\ Left' = Left /\ UserNeeds' = UserNeeds
  BY <1>1, SameDriver
<1>4. \/ /\ at = Len(labels) /\ at' = 1
         /\ phase' = IF phase = "fail" THEN "unbound" ELSE "lost"
      \/ at # Len(labels) /\ at' = at + 1 /\ phase' = phase
  BY DEF FailStep
<1>5. /\ withdrawn' \in BOOLEAN
      /\ withdrawn => withdrawn'
      /\ labels[at] = "bus" /\ (open # {} \/ int_enable) => withdrawn'
  BY DEF FailStep
<1>6. "irq" \notin held /\ Len(labels) \in Nat
  BY <1>1, <1>2, LabelTable DEF IInv, Unwinding, Lost
<1>7. phase = "fail" =>
        /\ at \in 1..Len(labels)
        /\ \A x \in held :
             x \in Left \/ \E k \in at..Len(labels) : labels[k] = x
        /\ "bus" \in held => labels[at] = "bus"
  BY DEF IInv, Unwinding
<1>8. phase = "fail" => "bus" \notin held'
  BY <1>1, <1>7
<1>9. TypeOK'
  <2>1. at' \in Nat \ {0}
    BY <1>2, <1>4
  <2>2. phase' \in {"unbound", "fail", "fail0", "lost"}
    BY <1>1, <1>4
  <2>3. legacy' \in BOOLEAN /\ int_enable' \in BOOLEAN
    BY <1>1, Zenon DEF IInv, TypeOK
  <2> QED BY <1>1, <1>2, <1>5, <2>1, <2>2, <2>3 DEF TypeOK
<1>10. Unwinding'
  <2> SUFFICES ASSUME phase' = "fail"
               PROVE  /\ at' \in 1..Len(labels)
                      /\ \A x \in held' : x \in Left \/
                           \E k \in at'..Len(labels) : labels[k] = x
    BY <1>1, <1>3, <1>4, <1>6, <1>8 DEF Unwinding
  <2>1. phase = "fail" /\ at # Len(labels) /\ at' = at + 1
    BY <1>1, <1>4
  <2>2. at' \in 1..Len(labels) /\ at..Len(labels) = {at} \cup (at'..Len(labels))
    BY <1>2, <1>6, <1>7, <2>1
  <2> QED BY <1>1, <1>7, <2>1, <2>2
<1>11. Gone'
  <2> SUFFICES ASSUME phase' = "unbound" PROVE held' \subseteq Left
    BY <1>3 DEF Gone
  <2>1. phase = "fail" /\ at = Len(labels)
    BY <1>1, <1>4
  <2> QED BY <1>1, <1>6, <1>7, <2>1
<1>12. Lost'
  BY <1>1, <1>4, <1>6 DEF IInv, Lost
<1>13. Opened'
  <2>1. CASE phase = "fail"
    BY <1>1, <1>5, <1>7, <2>1 DEF IInv, Opened
  <2>2. CASE phase = "fail0"
    BY <1>4, <2>2 DEF Opened
  <2> QED BY <1>1, <2>1, <2>2
<1>14. Enabled'
  <2> SUFFICES ASSUME int_enable PROVE driver = "pcie_wb" /\ withdrawn'
    BY <1>1, <1>4 DEF Enabled
  <2>1. driver = "pcie_wb" /\ (withdrawn \/ (phase = "fail" /\ "bus" \in held))
    BY <1>1, <1>6 DEF IInv, Enabled, Lost
  <2> QED BY <1>5, <1>7, <2>1
<1>15. Probing' /\ Bound' /\ Going'
  BY <1>1, <1>4 DEF Probing, Bound, Going
<1> QED BY <1>9, <1>10, <1>11, <1>12, <1>13, <1>14, <1>15 DEF IInv

LEMMA UnbindStep ==
  ASSUME IInv, Unbind
  PROVE  IInv'
<1>1. /\ phase = "bound" /\ open = {} /\ phase' = "remove" /\ at' = 1
      /\ UNCHANGED <<driver, held, legacy, int_enable, pending, open, withdrawn>>
  BY DEF Unbind
<1>2. driver \in {"pcie_wb", "spec_wb", "vme_wb"}
  BY DEF IInv, TypeOK
<1>3. /\ probe' = probe /\ labels' = labels /\ remove' = remove
      /\ Left' = Left /\ UserNeeds' = UserNeeds
  BY <1>1, SameDriver
<1>4. /\ \A k \in 1..Len(probe) : probe[k] \in held \cup {"msi"}
      /\ \A x \in held : x \in Left \/ \E k \in 1..Len(probe) : probe[k] = x
  BY <1>1 DEF IInv, Bound
<1>5. TypeOK'
  <2>1. at' \in Nat \ {0}
    BY <1>1
  <2>2. legacy' \in BOOLEAN /\ int_enable' \in BOOLEAN /\ withdrawn' \in BOOLEAN
    BY <1>1, Zenon DEF IInv, TypeOK
  <2> QED BY <1>1, <1>2, <2>1, <2>2 DEF TypeOK
<1>6. Going'
  <2>1. 1 \in 1..Len(remove)
    BY <1>2, RemoveTable
  <2>2. \A k \in 1..Len(remove) : remove[k] \in held \cup {"quiet", "msi"}
    BY <1>2, <1>4, RemoveTable
  <2>3. \A x \in held : x \in Left \/ \E k \in 1..Len(remove) : remove[k] = x
    BY <1>2, <1>4, RemoveTable
  <2>4. Left \subseteq held
    <3>1. "msi" \notin Left
      BY <1>2 DEF Left
    <3> QED BY <1>2, <1>4, <3>1, ProbeTable
  <2> QED BY <1>1, <1>3, <2>1, <2>2, <2>3, <2>4 DEF Going
<1>7. Opened' /\ Enabled'
  BY <1>1 DEF IInv, Opened, Enabled
<1>8. Probing' /\ Bound' /\ Unwinding' /\ Gone' /\ Lost'
  BY <1>1 DEF Probing, Bound, Unwinding, Gone, Lost
<1> QED BY <1>5, <1>6, <1>7, <1>8 DEF IInv

LEMMA RemoveStepStep ==
  ASSUME IInv, RemoveStep
  PROVE  IInv'
<1>1. /\ phase = "remove" /\ held' = held \ {remove[at]}
      /\ UNCHANGED <<driver, legacy, pending, open, withdrawn, binds>>
  BY DEF RemoveStep, GivenBack
<1>2. driver \in {"pcie_wb", "spec_wb", "vme_wb"} /\ at \in Nat \ {0}
  BY DEF IInv, TypeOK
<1>3. /\ probe' = probe /\ labels' = labels /\ remove' = remove
      /\ Left' = Left /\ UserNeeds' = UserNeeds
  BY <1>1, SameDriver
<1>4. \/ at = Len(remove) /\ at' = 1 /\ phase' = "unbound"
      \/ at # Len(remove) /\ at' = at + 1 /\ phase' = "remove"
  BY <1>1 DEF RemoveStep
<1>5. /\ at \in 1..Len(remove) /\ Len(remove) \in Nat
      /\ \A k \in at..Len(remove) : remove[k] \in held \cup {"quiet", "msi"}
      /\ \A x \in held :
           x \in Left \/ \E k \in at..Len(remove) : remove[k] = x
      /\ Left \subseteq held /\ open = {}
  BY <1>1, <1>2, RemoveTable DEF IInv, Going
<1>6. ~int_enable'
  <2>1. CASE int_enable
    <3>1. driver = "pcie_wb" /\ at = 1
      BY <1>1, <2>1 DEF IInv, Enabled
    <3>2. remove[at] = "quiet"
      BY <1>2, <3>1, RemoveTable
    <3> QED BY <3>2 DEF RemoveStep, pcie_int_enable
  <2>2. CASE ~int_enable
    BY <2>2 DEF RemoveStep, pcie_int_enable
  <2> QED BY <2>1, <2>2
<1>7. TypeOK'
  <2>1. at' \in Nat \ {0}
    BY <1>2, <1>4
  <2>2. legacy' \in BOOLEAN /\ int_enable' \in BOOLEAN /\ withdrawn' \in BOOLEAN
    <3>1. int_enable' \in BOOLEAN
      BY DEF RemoveStep, pcie_int_enable, IInv, TypeOK
    <3> QED BY <1>1, <3>1, Zenon DEF IInv, TypeOK
  <2> QED BY <1>1, <1>2, <1>4, <2>1, <2>2 DEF TypeOK
<1>8. Going'
  <2> SUFFICES ASSUME phase' = "remove"
               PROVE  /\ at' \in 1..Len(remove)
                      /\ \A k \in at'..Len(remove) :
                           remove[k] \in held' \cup {"quiet", "msi"}
                      /\ \A x \in held' : x \in Left \/
                           \E k \in at'..Len(remove) : remove[k] = x
                      /\ Left \subseteq held'
    BY <1>1, <1>3, <1>5 DEF Going
  <2>1. at # Len(remove) /\ at' = at + 1
    BY <1>4
  <2>2. at' \in 1..Len(remove) /\ at..Len(remove) = {at} \cup (at'..Len(remove))
    BY <1>2, <1>5, <2>1
  <2>3. \A k \in at'..Len(remove) : remove[k] # remove[at]
    <3>1. \A k \in at'..Len(remove) : k \in 1..Len(remove) /\ k # at
      BY <1>2, <1>5, <2>1
    <3> QED BY <1>2, <1>5, <3>1, RemoveTable
  <2>4. remove[at] \notin Left
    BY <1>2, <1>5, RemoveTable
  <2> QED BY <1>1, <1>5, <2>2, <2>3, <2>4
<1>9. Gone'
  <2> SUFFICES ASSUME phase' = "unbound" PROVE held' \subseteq Left
    BY <1>3 DEF Gone
  <2>1. at = Len(remove)
    BY <1>4
  <2> QED BY <1>1, <1>5, <2>1
<1>10. Opened' /\ Enabled'
  BY <1>1, <1>5, <1>6 DEF Opened, Enabled
<1>11. Probing' /\ Bound' /\ Unwinding' /\ Lost'
  BY <1>4 DEF Probing, Bound, Unwinding, Lost
<1> QED BY <1>7, <1>8, <1>9, <1>10, <1>11 DEF IInv

\* The steps of the card, of its handler and of its users leave the driver
\* where it is.
LEMMA OtherSteps ==
  ASSUME IInv,
         \/ CardRequest \/ irq_handler
         \/ \E u \in Users : Open(u) \/ wb_request(u) \/ Close(u)
  PROVE  IInv'
<1>1. UNCHANGED <<driver, phase, at, held, legacy, withdrawn>>
  BY DEF CardRequest, irq_handler, Open, wb_request, Close
<1>2. /\ probe' = probe /\ labels' = labels /\ remove' = remove
      /\ Left' = Left /\ UserNeeds' = UserNeeds
  BY <1>1, SameDriver
<1>3. open' # {} => open # {} \/ ("bus" \in held /\ phase # "remove")
  BY DEF CardRequest, irq_handler, Open, wb_request, Close
<1>4. /\ int_enable' \in BOOLEAN
      /\ int_enable' => int_enable \/
           /\ driver = "pcie_wb" /\ open # {} /\ ~withdrawn
           /\ phase \notin {"fail0", "lost"}
  <2>1. CASE CardRequest \/ \E u \in Users : Open(u) \/ Close(u)
    <3>1. int_enable' = int_enable
      BY <2>1 DEF CardRequest, Open, Close
    <3> QED BY <3>1 DEF IInv, TypeOK
  <2>2. CASE irq_handler
    BY <2>2 DEF irq_handler, pcie_int_enable
  <2>3. CASE \E u \in Users : wb_request(u)
    BY <2>3 DEF wb_request, pcie_int_enable
  <2> QED BY <2>1, <2>2, <2>3
<1>5. TypeOK'
  <2>1. legacy' \in BOOLEAN /\ withdrawn' \in BOOLEAN
    BY <1>1, Zenon DEF IInv, TypeOK
  <2> QED BY <1>1, <1>4, <2>1 DEF IInv, TypeOK
<1>6. Probing' /\ Bound' /\ Unwinding' /\ Gone' /\ Lost'
  BY <1>1, <1>2 DEF IInv, Probing, Bound, Unwinding, Gone, Lost
<1>7. Going'
  <2>1. phase = "remove" => open' = {}
    BY <1>3 DEF IInv, Going
  <2> QED BY <1>1, <1>2, <2>1 DEF IInv, Going
<1>8. Opened'
  BY <1>1, <1>3 DEF IInv, Opened
<1>9. Enabled'
  <2>1. CASE int_enable
    BY <1>1, <2>1 DEF IInv, Enabled
  <2>2. CASE /\ driver = "pcie_wb" /\ open # {} /\ ~withdrawn
             /\ phase \notin {"fail0", "lost"}
    <3>1. "bus" \in held
      BY <2>2 DEF IInv, Opened
    <3>2. phase # "remove"
      BY <2>2 DEF IInv, Going
    <3>3. phase # "unbound"
      BY <3>1, NeverLeft DEF IInv, TypeOK, Gone
    <3>4. phase = "bound" => "irq" \in held
      BY <2>2, ProbeTable DEF IInv, TypeOK, Bound
    <3> QED BY <1>1, <2>2, <3>1, <3>2, <3>3, <3>4 DEF IInv, TypeOK, Enabled
  <2>3. CASE ~int_enable'
    BY <2>3 DEF Enabled
  <2> QED BY <1>4, <2>1, <2>2, <2>3
<1> QED BY <1>5, <1>6, <1>7, <1>8, <1>9 DEF IInv

(***************************************************************************)
(* The theorems.                                                           *)
(***************************************************************************)
LEMMA Initially == Init => IInv
<1> SUFFICES ASSUME Init PROVE IInv
  OBVIOUS
<1>1. driver \in {"pcie_wb", "spec_wb", "vme_wb"}
  BY CardDriverAssumption DEF Init
<1>2. TypeOK
  <2>1. at \in Nat \ {0}
    BY DEF Init
  <2>2. legacy \in BOOLEAN /\ int_enable \in BOOLEAN /\ withdrawn \in BOOLEAN
    BY Zenon DEF Init
  <2> QED BY <1>1, <2>1, <2>2 DEF Init, TypeOK
<1>3. Probing /\ Bound /\ Unwinding /\ Going /\ Gone /\ Lost
  BY DEF Init, Probing, Bound, Unwinding, Going, Gone, Lost
<1>4. Opened /\ Enabled
  BY DEF Init, Opened, Enabled
<1> QED BY <1>2, <1>3, <1>4 DEF IInv

LEMMA Inductive == IInv /\ [Next]_vars => IInv'
<1> SUFFICES ASSUME IInv, [Next]_vars PROVE IInv'
  OBVIOUS
<1>1. CASE Bind
  BY <1>1, BindStep
<1>2. CASE ProbeStep
  BY <1>2, ProbeStepStep
<1>3. CASE ProbeFails
  BY <1>3, ProbeFailsStep
<1>4. CASE FailStep
  BY <1>4, FailStepStep
<1>5. CASE Unbind
  BY <1>5, UnbindStep
<1>6. CASE RemoveStep
  BY <1>6, RemoveStepStep
<1>7. CASE \/ CardRequest \/ irq_handler
           \/ \E u \in Users : Open(u) \/ wb_request(u) \/ Close(u)
  BY <1>7, OtherSteps
<1>8. CASE UNCHANGED vars
  <2>1. UNCHANGED <<driver, phase, at, held, legacy, int_enable, open, withdrawn>>
    BY <1>8 DEF vars
  <2>2. /\ probe' = probe /\ labels' = labels /\ remove' = remove
        /\ Left' = Left /\ UserNeeds' = UserNeeds
    BY <2>1, SameDriver
  <2> QED
    BY <2>1, <2>2 DEF IInv, TypeOK, Probing, Bound, Unwinding, Going, Gone,
       Lost, Opened, Enabled
<1> QED
  BY <1>1, <1>2, <1>3, <1>4, <1>5, <1>6, <1>7, <1>8 DEF Next

\* The tables of a driver fit together at every step of binding, failing and
\* going, for each of the three drivers.
THEOREM Invariance == Spec => []IInv
BY Initially, Inductive, PTL DEF Spec

\* A driver that is not bound holds nothing of the card but what no driver
\* ever gives back, whichever step of its probe failed.
THEOREM NothingLeftHeld == Spec => []NothingHeld
<1>1. IInv => NothingHeld
  BY DEF IInv, Gone, NothingHeld
<1> QED BY <1>1, Invariance, PTL

\* While the interrupt or the bus is registered, or a user has the card open,
\* the windows they need are mapped.
THEOREM CardStaysReachable == Spec => []CardReachable
<1>1. IInv => CardReachable
  <2> SUFFICES ASSUME IInv PROVE CardReachable
    OBVIOUS
  <2>0. /\ driver \in {"pcie_wb", "spec_wb", "vme_wb"} /\ at \in Nat \ {0}
        /\ phase \in {"unbound", "probe", "fail", "fail0", "lost", "bound",
                      "remove"}
    BY DEF IInv, TypeOK
  <2>1. {"msi", "quiet"} \cap (UserNeeds \cup HandlerNeeds) = {}
    BY DEF UserNeeds, HandlerNeeds
  <2>2. /\ "bus" \notin Left /\ "irq" \notin Left /\ Len(probe) \in Nat
    BY <2>0, NeverLeft, ProbeTable
  <2>3. ASSUME "irq" \in held PROVE HandlerNeeds \subseteq held
    <3>1. CASE phase = "probe"
      <4>1. PICK i \in 1..at - 1 : probe[i] = "irq"
        BY <2>2, <2>3, <3>1 DEF IInv, Probing
      <4>2. /\ i \in 1..Len(probe) /\ \A k \in 1..i - 1 : k \in 1..at - 1
        BY <2>0, <2>2, <3>1, <4>1 DEF IInv, Probing
      <4>3. \A n \in HandlerNeeds : \E k \in 1..at - 1 : probe[k] = n
        BY <2>0, <4>1, <4>2, ProbeTable
      <4> QED BY <2>1, <3>1, <4>3 DEF IInv, Probing
    <3>2. CASE phase = "bound"
      <4>1. PICK i \in 1..Len(probe) : probe[i] = "irq"
        BY <2>2, <2>3, <3>2 DEF IInv, Bound
      <4>2. \A k \in 1..i - 1 : k \in 1..Len(probe)
        BY <2>2, <4>1
      <4>3. \A n \in HandlerNeeds : \E k \in 1..Len(probe) : probe[k] = n
        BY <2>0, <4>1, <4>2, ProbeTable
      <4> QED BY <2>1, <3>2, <4>3 DEF IInv, Bound
    <3>3. CASE phase = "remove"
      <4>1. PICK i \in at..Len(remove) : remove[i] = "irq"
        BY <2>2, <2>3, <3>3 DEF IInv, Going
      <4>2. /\ i \in 1..Len(remove)
            /\ \A k \in i + 1..Len(remove) : k \in at..Len(remove)
        BY <2>0, <4>1, RemoveTable
      <4>3. \A n \in HandlerNeeds :
              n \in Left \/ \E k \in at..Len(remove) : remove[k] = n
        BY <2>0, <4>1, <4>2, RemoveTable
      <4> QED BY <2>1, <3>3, <4>3 DEF IInv, Going
    <3>4. CASE phase \in {"unbound", "fail", "fail0", "lost"}
      BY <2>2, <2>3, <3>4 DEF IInv, Gone, Unwinding, Lost
    <3> QED BY <2>0, <3>1, <3>2, <3>3, <3>4
  <2>4. ASSUME "bus" \in held, ~Excepted PROVE UserNeeds \subseteq held
    <3>1. CASE phase = "probe"
      BY <2>4, <3>1, UsersReach DEF IInv
    <3>2. CASE phase = "bound"
      <4>1. PICK i \in 1..Len(probe) : probe[i] = "bus"
        BY <2>2, <2>4, <3>2 DEF IInv, Bound
      <4>2. \A k \in 1..i - 1 : k \in 1..Len(probe)
        BY <2>2, <4>1
      <4>3. \A n \in UserNeeds : \E k \in 1..Len(probe) : probe[k] = n
        BY <2>0, <4>1, <4>2, ProbeTable
      <4> QED BY <2>1, <3>2, <4>3 DEF IInv, Bound
    <3>3. CASE phase = "remove"
      <4>0. driver # "vme_wb"
        BY <2>4, <3>3 DEF Excepted
      <4>1. PICK i \in at..Len(remove) : remove[i] = "bus"
        BY <2>2, <2>4, <3>3 DEF IInv, Going
      <4>2. /\ i \in 1..Len(remove)
            /\ \A k \in i + 1..Len(remove) : k \in at..Len(remove)
        BY <2>0, <4>1, RemoveTable
      <4>3. \A n \in UserNeeds :
              n \in Left \/ \E k \in at..Len(remove) : remove[k] = n
        BY <2>0, <4>0, <4>1, <4>2, RemoveTable
      <4> QED BY <2>1, <3>3, <4>3 DEF IInv, Going
    <3>4. CASE phase \in {"unbound", "fail"}
      BY <2>2, <2>4, <3>4 DEF IInv, Gone, Unwinding
    <3>5. CASE phase \in {"fail0", "lost"}
      BY <2>4, <3>5 DEF IInv, Lost, Excepted
    <3> QED BY <2>0, <3>1, <3>2, <3>3, <3>4, <3>5
  <2>5. open # {} /\ ~withdrawn /\ ~Excepted => "bus" \in held
    BY DEF IInv, Opened, Lost, Excepted
  <2> QED BY <2>3, <2>4, <2>5 DEF CardReachable
<1> QED BY <1>1, Invariance, PTL

\* A card that may raise its legacy interrupt has a handler for it, but for
\* the request of a user who came before the handler.
THEOREM InterruptIsHandled == Spec => []InterruptHandled
<1>1. IInv => InterruptHandled
  BY DEF IInv, Enabled, InterruptHandled
<1> QED BY <1>1, Invariance, PTL
===============================================================================
