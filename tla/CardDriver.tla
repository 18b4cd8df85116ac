------------------------------ MODULE CardDriver ------------------------------
(***************************************************************************)
(* How the drivers pcie_wb, spec_wb and vme_wb bind to a card and let it   *)
(* go: what probe takes in which order, what its fail labels and remove    *)
(* give back, and the interrupt handler and the users that run meanwhile.  *)
(***************************************************************************)
EXTENDS Integers, Sequences, FiniteSets, SequencesExt

CONSTANTS
  Drivers,  \* the drivers to consider: "pcie_wb", "spec_wb", "vme_wb"
  Users,    \* processes that open the card
  MaxBinds  \* bound on the times the driver is bound to the card

ASSUME CardDriverAssumption ==
  Drivers \subseteq {"pcie_wb", "spec_wb", "vme_wb"} /\ MaxBinds \in Nat

VARIABLES
  driver,     \* the driver of the card
  phase,      \* "unbound", "probe", "fail", "bound" or "remove"; "fail0" and
              \* "lost" if probe fails but returns 0
  at,         \* the step that comes next in probe, fail or remove
  held,       \* what the driver has taken and not given back
  legacy,     \* ~dev->msi
  int_enable, \* the card may raise its legacy interrupt
  pending,    \* the card has a request for the host
  open,       \* the users that have the card open
  withdrawn,  \* ghost: the bus went from under a user, or from an enabled
              \* interrupt, when a probe failed
  binds

vars == <<driver, phase, at, held, legacy, int_enable, pending, open, withdrawn, binds>>

Init ==
  /\ driver \in Drivers
  /\ phase = "unbound" /\ at = 1 /\ held = {} /\ legacy = FALSE
  /\ int_enable = FALSE /\ pending = FALSE /\ open = {} /\ withdrawn = FALSE
  /\ binds = 0

(***************************************************************************)
(* What each driver's probe takes, step by step; what its fail labels give *)
(* back, from the first label to the last; the label that the failure of a *)
(* step goes to, as a place in them; and what remove does.                 *)
(***************************************************************************)
pcie_probe  == <<"enabled", "dev", "bar0", "bar1", "master", "msi", "bus", "irq">>
pcie_labels == <<"bus", "msi", "master", "bar1", "bar0", "dev", "enabled">>

\* Mutant: request_irq goes one label too far.
pcie_fail_late == [irq |-> 2, bus |-> 2, bar1 |-> 5, bar0 |-> 6, dev |-> 7]

pcie_fail   == [irq |-> 1, bus |-> 2, bar1 |-> 5, bar0 |-> 6, dev |-> 7]

\* Mutant: the card is unmapped before anything is told.
pcie_remove_unmap ==
  <<"quiet", "bar1", "bar0", "irq", "bus", "msi", "master", "dev", "enabled">>

\* Mutant: pcie_int_enable(dev, 0) is missing.
pcie_remove_loud ==
  <<"irq", "bus", "msi", "master", "bar1", "bar0", "dev", "enabled">>

\* "quiet" is pcie_int_enable(dev, 0).
pcie_remove ==
  <<"quiet", "irq", "bus", "msi", "master", "bar1", "bar0", "dev", "enabled">>

spec_probe  == <<"dev", "enabled", "master", "msi", "bar0", "bar1", "bar2", "bus">>
spec_labels == <<"bar2", "bar1", "bar0", "msi", "dev">>
spec_fail   == [bus |-> 1, bar2 |-> 2, bar1 |-> 3, bar0 |-> 4, enabled |-> 5]
spec_remove == <<"bus", "bar2", "bar1", "bar0", "msi", "dev">>

\* A VME card is looked for, set up and enabled ("core") before its other
\* windows are mapped, and its registers are reset once all is done ("init"):
\* both are there to stay.  Each of the label blocks runs on into the next.
vme_probe  == <<"dev", "crcsr", "core", "reg", "ctrl", "bus", "irq", "init">>
vme_labels == <<"irq", "reg", "crcsr", "reg", "crcsr", "crcsr", "dev">>
vme_fail   == [irq |-> 1, bus |-> 4, ctrl |-> 4, reg |-> 4, core |-> 6, crcsr |-> 7]
vme_remove == <<"crcsr", "reg", "ctrl", "bus", "irq", "dev">>

\* The failures after which vme_probe returns 0.
Swallowed == IF driver = "vme_wb" THEN {"bus", "irq"} ELSE {}

probe  == [pcie_wb |-> pcie_probe, spec_wb |-> spec_probe,
           vme_wb |-> vme_probe][driver]
labels == [pcie_wb |-> pcie_labels, spec_wb |-> spec_labels,
           vme_wb |-> vme_labels][driver]
fail   == [pcie_wb |-> pcie_fail, spec_wb |-> spec_fail,
           vme_wb |-> vme_fail][driver]
remove == [pcie_wb |-> pcie_remove, spec_wb |-> spec_remove,
           vme_wb |-> vme_remove][driver]

\* setup_bar and vme_map_window, and what they and the other calls take.
Taken(what) == held' = held \cup {what}

\* destroy_bar and vme_unmap_window: what was not taken is not given back.
GivenBack(what) == held' = held \ {what}

\* pcie_int_enable: there is no legacy interrupt to enable under MSI.
pcie_int_enable(on) ==
  int_enable' = (driver = "pcie_wb" /\ on /\ legacy)

Bind ==
  /\ phase = "unbound" /\ ~withdrawn /\ binds < MaxBinds
  /\ phase' = "probe" /\ at' = 1 /\ legacy' = FALSE /\ binds' = binds + 1
  /\ UNCHANGED <<driver, held, int_enable, pending, open, withdrawn>>

\* A step of probe that succeeds.  MSI may not be had: then the interrupts are
\* legacy ones.  The registers are set before the master bit (pcie_wb), and
\* the interrupt is enabled once all is done.
ProbeStep ==
  /\ phase = "probe"
  /\ legacy' \in (IF probe[at] = "msi" THEN BOOLEAN ELSE {legacy})
  /\ IF probe[at] = "msi" /\ legacy' THEN held' = held ELSE Taken(probe[at])
  /\ at' = at + 1
  /\ phase' = IF at = Len(probe) THEN "bound" ELSE "probe"
  /\ CASE probe[at] = "irq"    -> pcie_int_enable(TRUE)
       [] probe[at] = "master" -> int_enable' = FALSE
       [] OTHER                -> int_enable' = int_enable
  /\ UNCHANGED <<driver, pending, open, withdrawn, binds>>

\* A step that fails goes to its label, or out if there is nothing to undo.
ProbeFails ==
  /\ phase = "probe" /\ probe[at] \notin {"master", "msi", "init"}
  /\ IF probe[at] \in DOMAIN fail
       THEN /\ phase' = IF probe[at] \in Swallowed THEN "fail0" ELSE "fail"
            /\ at' = fail[probe[at]]
       ELSE phase' = "unbound" /\ at' = 1
  /\ UNCHANGED <<driver, held, legacy, int_enable, pending, open, withdrawn, binds>>

\* A step of the way out.  After a failure that returns 0 Linux takes the card
\* for bound, although the driver's structure is freed.
FailStep ==
  /\ phase \in {"fail", "fail0"}
  /\ GivenBack(labels[at])
  /\ IF at = Len(labels)
     THEN phase' = (IF phase = "fail" THEN "unbound" ELSE "lost") /\ at' = 1
     ELSE phase' = phase /\ at' = at + 1
  /\ withdrawn' = (withdrawn \/ (labels[at] = "bus" /\ (open # {} \/ int_enable)))
  /\ UNCHANGED <<driver, legacy, int_enable, pending, open, binds>>

\* The module is held by every open file, so it goes when there is none.
Unbind ==
  /\ phase = "bound" /\ open = {} /\ phase' = "remove" /\ at' = 1
  /\ UNCHANGED <<driver, held, legacy, int_enable, pending, open, withdrawn, binds>>

RemoveStep ==
  /\ phase = "remove"
  /\ GivenBack(remove[at])
  /\ IF remove[at] = "quiet" THEN pcie_int_enable(FALSE) ELSE int_enable' = int_enable
  /\ IF at = Len(remove) THEN phase' = "unbound" /\ at' = 1
     ELSE phase' = phase /\ at' = at + 1
  /\ UNCHANGED <<driver, legacy, pending, open, withdrawn, binds>>

\* The card has a request and may interrupt: by a legacy interrupt while it is
\* enabled, by a message while MSI is on and the card may master the bus.
CardRequest ==
  /\ driver # "spec_wb" /\ ~pending /\ pending' = TRUE
  /\ held \cap {"enabled", "core"} # {}
  /\ UNCHANGED <<driver, phase, at, held, legacy, int_enable, open, withdrawn,
                 binds>>

irq_handler ==
  /\ "irq" \in held /\ pending
  /\ IF legacy THEN int_enable
     ELSE driver = "vme_wb" \/ {"msi", "master"} \subseteq held
  /\ pcie_int_enable(FALSE)
  /\ UNCHANGED <<driver, phase, at, held, legacy, pending, open, withdrawn, binds>>

\* Users open the card as soon as it is registered.
Open(u) ==
  /\ u \notin open /\ "bus" \in held /\ phase \notin {"remove", "fail0", "lost"}
  /\ open' = open \union {u}
  /\ UNCHANGED <<driver, phase, at, held, legacy, int_enable, pending, withdrawn,
                 binds>>

\* wb_request: takes what is pending and enables the interrupt again.  What it
\* does after the bus went from under the user is not modelled.
wb_request(u) ==
  /\ u \in open /\ ~withdrawn /\ phase \notin {"fail0", "lost"}
  /\ pending' = FALSE /\ pcie_int_enable(TRUE)
  /\ UNCHANGED <<driver, phase, at, held, legacy, open, withdrawn, binds>>

Close(u) ==
  /\ u \in open /\ open' = open \ {u}
  /\ UNCHANGED <<driver, phase, at, held, legacy, int_enable, pending, withdrawn,
                 binds>>

Next ==
  \/ Bind \/ ProbeStep \/ ProbeFails \/ FailStep \/ Unbind \/ RemoveStep
  \/ CardRequest \/ irq_handler
  \/ \E u \in Users : Open(u) \/ wb_request(u) \/ Close(u)

Spec == Init /\ [][Next]_vars

(***************************************************************************)
(* Properties.                                                             *)
(***************************************************************************)
\* What the drivers never give back.  spec_wb calls neither pci_clear_master
\* nor pci_disable_device, and no driver tells a VME card to stop: the card
\* stays enabled when the driver is gone.
Left == CASE driver = "pcie_wb" -> {}
          [] driver = "spec_wb" -> {"enabled", "master"}
          [] driver = "vme_wb"  -> {"core", "init"}

\* A driver that is not bound, because its probe failed at any step or because
\* it was removed, holds nothing of the card but that.  A VME probe that fails
\* but returns 0 is the exception.
NothingHeld == phase = "unbound" => held \subseteq Left

\* What the interrupt handler and what an operation of a user touches.
HandlerNeeds == IF driver = "vme_wb" THEN {"dev"} ELSE {"dev", "enabled", "bar0"}
UserNeeds == IF driver = "vme_wb" THEN {"dev", "reg", "ctrl"}
             ELSE {"dev", "enabled", "bar0", "bar1"}

\* vme_remove unmaps the windows before it unregisters the bus, when nobody
\* can open it any more.  After a probe that fails but returns 0 nothing can
\* be said.
Excepted == driver = "vme_wb" /\ phase \in {"remove", "fail0", "lost"}

\* The interrupt handler and the users of the card always find the driver's
\* structure and the card's registers, while the driver binds, fails or goes.
\* A probe that fails after the bus was opened by a user is the exception.
CardReachable ==
  /\ "irq" \in held => HandlerNeeds \subseteq held
  /\ ("bus" \in held \/ (open # {} /\ ~withdrawn)) /\ ~Excepted =>
       UserNeeds \subseteq held

\* The card may raise a legacy interrupt only when there is a handler for it,
\* but for a user's request between the registration of the bus and that of the
\* handler, or in a probe that fails there.
InterruptHandled ==
  int_enable => \/ "irq" \in held \/ withdrawn
                \/ phase \in {"probe", "fail"} /\ "bus" \in held
===============================================================================
