--------------------------- MODULE WishboneRegistry ---------------------------
(***************************************************************************)
(* The registry of Wishbone hardware (pcie-wb/wishbone.c): loading and     *)
(* unloading of the module, and wishbone_register and wishbone_unregister, *)
(* which the card drivers call when cards come and go.  A card takes the   *)
(* first minor number that is free, found as a gap in a list that is kept  *)
(* in order, and publishes two character devices and two sysfs entries,    *)
(* step by step; any step may fail and undoes those before it.             *)
(***************************************************************************)
EXTENDS Integers, Sequences, SequencesExt

CONSTANTS
  Cards,        \* struct wishbone of each card
  NoCard,
  max_devices,  \* module parameter: how many minor numbers there are
  MINORS        \* minor numbers that a dev_t can hold; 2^20 in the kernel

ASSUME RegistryAssumption ==
  /\ max_devices \in Nat \ {0} /\ MINORS \in Nat \ {0}
  /\ NoCard \notin Cards

Minors == 0..max_devices - 1

\* What a card publishes, and what the module itself allocates.
Nodes     == {"master_cdev", "slave_cdev", "master_device", "slave_device"}
Resources == {"master_class", "slave_class", "master_region", "slave_region"}

VARIABLES
  module, held,  \* next step of wishbone_init or _exit; what the module holds
  holder,        \* holder of wishbone_mutex
  pc,            \* of each card: next step of its driver
  wishbone_list,
  linked,        \* of each card: wb->list is in a list; list_empty is false
  minor,         \* of each card: minor number of master_dev and slave_dev
  published      \* of each node and minor number: the card behind it

registry == <<wishbone_list, linked, minor, published>>
vars     == <<module, held, holder, pc, registry>>

Init ==
  /\ module = "out" /\ held = {} /\ holder = NoCard
  /\ pc = [d \in Cards |-> "absent"]
  /\ wishbone_list = <<>>
  /\ linked = [d \in Cards |-> FALSE] /\ minor = [d \in Cards |-> 0]
  /\ published = [n \in Nodes |-> [m \in Minors |-> NoCard]]

(***************************************************************************)
(* wishbone_init and wishbone_exit.                                        *)
(***************************************************************************)
ModuleStep(at, now) ==
  module' = at /\ held' = now /\ UNCHANGED <<holder, pc, registry>>

\* The last minor number must fit in a dev_t.
wishbone_init ==
  /\ module = "out" /\ max_devices - 1 < MINORS
  /\ ModuleStep("master_class", held)

\* The order of allocation.
Allocated(r) == CASE r = "master_class"  -> "slave_class"
                  [] r = "slave_class"   -> "master_region"
                  [] r = "master_region" -> "slave_region"
                  [] r = "slave_region"  -> "in"

\* Mutant: the exit taken undoes the step that has just failed.
NotAllocated_self(r) == CASE r = "master_class"  -> "fail_master_class"
                          [] r = "slave_class"   -> "fail_slave_class"
                          [] r = "master_region" -> "fail_master_dev"
                          [] r = "slave_region"  -> "fail_master_dev"

\* The exit that the failure of each allocation jumps to.
NotAllocated(r) == CASE r = "master_class"  -> "fail_last"
                     [] r = "slave_class"   -> "fail_master_class"
                     [] r = "master_region" -> "fail_slave_class"
                     [] r = "slave_region"  -> "fail_master_dev"

\* Each allocation succeeds or fails.
wishbone_init_step(r) ==
  /\ module = r
  /\ \/ ModuleStep(Allocated(r), held \cup {r})
     \/ ModuleStep(NotAllocated(r), held)

\* The exits of wishbone_init and the lines of wishbone_exit, and what each
\* of them frees.
FailLabels == {"fail_master_dev", "fail_slave_class", "fail_master_class"}
ExitSteps  == {"exit_slave_region", "exit_master_region", "exit_slave_class",
               "exit_master_class"}

Frees(at) ==
  CASE at = "exit_slave_region"                          -> "slave_region"
    [] at \in {"fail_master_dev", "exit_master_region"}  -> "master_region"
    [] at \in {"fail_slave_class", "exit_slave_class"}   -> "slave_class"
    [] at \in {"fail_master_class", "exit_master_class"} -> "master_class"

\* Each falls through to the next.
Onward(at) ==
  CASE at = "fail_master_dev"    -> "fail_slave_class"
    [] at = "fail_slave_class"   -> "fail_master_class"
    [] at = "fail_master_class"  -> "fail_last"
    [] at = "exit_slave_region"  -> "exit_master_region"
    [] at = "exit_master_region" -> "exit_slave_class"
    [] at = "exit_slave_class"   -> "exit_master_class"
    [] at = "exit_master_class"  -> "out"

wishbone_free(at) ==
  module = at /\ ModuleStep(Onward(at), held \ {Frees(at)})

\* Loading has failed.
wishbone_init_fail_last ==
  module = "fail_last" /\ ModuleStep("out", held)

\* No driver is loaded that uses the module.
wishbone_exit ==
  /\ module = "in" /\ \A d \in Cards : pc[d] = "absent"
  /\ ModuleStep("exit_slave_region", held)

(***************************************************************************)
(* wishbone_register                                                       *)
(***************************************************************************)
Goto(d, at) == pc' = [pc EXCEPT ![d] = at]

\* INIT_LIST_HEAD comes before the lock.
wishbone_register(d) ==
  /\ module = "in" /\ pc[d] = "absent"
  /\ linked' = [linked EXCEPT ![d] = FALSE]
  /\ Goto(d, "register")
  /\ UNCHANGED <<module, held, holder, wishbone_list, minor, published>>

\* Place p of the list holds the card of minor p - 1.
InPlace(p) == minor[wishbone_list[p]] = p - 1

\* The first place whose card does not have the number of the place.
Gap ==
  CHOOSE p \in 1..Len(wishbone_list) + 1 :
    /\ p <= Len(wishbone_list) => ~InPlace(p)
    /\ \A q \in 1..p - 1 : InPlace(q)

\* Mutant: the test for the last number is off by one.
RunOut_early(place) == place >= max_devices

\* The card before place had the last number.
RunOut(place) == place > max_devices

\* Under the mutex: walk the list up to the first gap.  A list without gaps
\* that reaches the last minor number refuses the card.
register_search(d) ==
  /\ pc[d] = "register" /\ holder = NoCard
  /\ IF RunOut(Gap)
     THEN Goto(d, "absent") /\ UNCHANGED <<holder, minor>>
     ELSE /\ holder' = d
          /\ minor' = [minor EXCEPT ![d] = Gap - 1]
          /\ Goto(d, "master_cdev")
  /\ UNCHANGED <<module, held, wishbone_list, linked, published>>

Publish(node, d)  == published' = [published EXCEPT ![node][minor[d]] = d]
Withdraw(node, d) == published' = [published EXCEPT ![node][minor[d]] = NoCard]

\* The nodes in the order they are published, and what follows each.
After(node) == CASE node = "master_cdev"   -> "slave_cdev"
                 [] node = "slave_cdev"    -> "master_device"
                 [] node = "master_device" -> "slave_device"
                 [] node = "slave_device"  -> "insert"

\* Where a failure to publish goes: fail_out, fail_master_cdev,
\* fail_slave_cdev or fail_master_sys.
Undo(node) == CASE node = "master_cdev"   -> "fail_out"
                [] node = "slave_cdev"    -> "fail_master_cdev"
                [] node = "master_device" -> "fail_slave_cdev"
                [] node = "slave_device"  -> "fail_master_device"

\* cdev_add twice, device_create twice; each may run out of memory.
register_publish(d, node) ==
  /\ pc[d] = node
  /\ \/ Publish(node, d) /\ Goto(d, After(node))
     \/ Goto(d, Undo(node)) /\ UNCHANGED published
  /\ UNCHANGED <<module, held, holder, wishbone_list, linked, minor>>

\* Mutant: the new card goes to the end of the list.
register_insert_last(d) ==
  /\ pc[d] = "insert"
  /\ wishbone_list' = Append(wishbone_list, d)
  /\ linked' = [linked EXCEPT ![d] = TRUE]
  /\ holder' = NoCard
  /\ Goto(d, "present")
  /\ UNCHANGED <<module, held, minor, published>>

\* list_add_tail before list_pos, the entry after the gap.
register_insert(d) ==
  /\ pc[d] = "insert"
  /\ wishbone_list' = InsertAt(wishbone_list, minor[d] + 1, d)
  /\ linked' = [linked EXCEPT ![d] = TRUE]
  /\ holder' = NoCard
  /\ Goto(d, "present")
  /\ UNCHANGED <<module, held, minor, published>>

\* Each exit undoes one step and falls through to the next.
register_undo(d, at, node, next) ==
  /\ pc[d] = at
  /\ Withdraw(node, d)
  /\ Goto(d, next)
  /\ UNCHANGED <<module, held, holder, wishbone_list, linked, minor>>

\* Mutant: the last exit jumps over the one before it.
register_fail_skip(d) ==
  \/ register_undo(d, "fail_master_device", "master_device", "fail_master_cdev")
  \/ register_undo(d, "fail_slave_cdev", "slave_cdev", "fail_master_cdev")
  \/ register_undo(d, "fail_master_cdev", "master_cdev", "fail_out")

register_fail(d) ==
  \/ register_undo(d, "fail_master_device", "master_device", "fail_slave_cdev")
  \/ register_undo(d, "fail_slave_cdev", "slave_cdev", "fail_master_cdev")
  \/ register_undo(d, "fail_master_cdev", "master_cdev", "fail_out")

register_fail_out(d) ==
  /\ pc[d] = "fail_out"
  /\ holder' = NoCard
  /\ Goto(d, "absent")
  /\ UNCHANGED <<module, held, registry>>

(***************************************************************************)
(* wishbone_unregister                                                     *)
(***************************************************************************)
\* The driver removes its card, with list_empty looked at before the lock;
\* for a card that is not registered the call warns and changes nothing.
wishbone_unregister(d) ==
  /\ pc[d] = "present" /\ linked[d]
  /\ Goto(d, "unregister")
  /\ UNCHANGED <<module, held, holder, registry>>

unregister_del(d) ==
  /\ pc[d] = "unregister" /\ holder = NoCard
  /\ holder' = d
  /\ \E p \in 1..Len(wishbone_list) :
       wishbone_list[p] = d /\ wishbone_list' = RemoveAt(wishbone_list, p)
  /\ Goto(d, "del_slave_device")
  /\ UNCHANGED <<module, held, linked, minor, published>>

unregister_step(d) ==
  \/ register_undo(d, "del_slave_device", "slave_device", "del_master_device")
  \/ register_undo(d, "del_master_device", "master_device", "del_slave_cdev")
  \/ register_undo(d, "del_slave_cdev", "slave_cdev", "del_master_cdev")
  \/ register_undo(d, "del_master_cdev", "master_cdev", "unregistered")

unregister_done(d) ==
  /\ pc[d] = "unregistered"
  /\ holder' = NoCard
  /\ Goto(d, "absent")
  /\ UNCHANGED <<module, held, registry>>

Next ==
  \/ wishbone_init \/ wishbone_init_fail_last \/ wishbone_exit
  \/ \E r \in Resources : wishbone_init_step(r)
  \/ \E at \in FailLabels \cup ExitSteps : wishbone_free(at)
  \/ \E d \in Cards :
       \/ wishbone_register(d) \/ register_search(d)
       \/ \E node \in Nodes : register_publish(d, node)
       \/ register_insert(d) \/ register_fail(d) \/ register_fail_out(d)
       \/ wishbone_unregister(d) \/ unregister_del(d)
       \/ unregister_step(d) \/ unregister_done(d)

Spec == Init /\ [][Next]_vars

(***************************************************************************)
(* Properties.                                                             *)
(***************************************************************************)
\* Wherever wishbone_init fails, and in wishbone_exit, exactly what was got is
\* freed: nothing is left when the module is out, no exit frees what is not
\* there (never got, or freed already), and a card is registered only while
\* all of it is there.
ModuleClean ==
  /\ module = "out" => held = {}
  /\ \A at \in FailLabels \cup ExitSteps : module = at => Frees(at) \in held
  /\ (\E d \in Cards : pc[d] # "absent") => held = Resources

\* The search for a gap relies on a list in strictly ascending order of
\* minor numbers, all of them of the region that was reserved, however cards
\* came, failed and went.
InOrder ==
  /\ \A p, q \in 1..Len(wishbone_list) :
       p < q => minor[wishbone_list[p]] < minor[wishbone_list[q]]
  /\ \A p \in 1..Len(wishbone_list) : minor[wishbone_list[p]] \in Minors

Listed(d) == \E p \in 1..Len(wishbone_list) : wishbone_list[p] = d

\* When nobody holds the mutex every card in the list is published under its
\* number, in all four places, and nothing else is: a registration that
\* failed at any step, and an unregistration, left nothing behind.
Published ==
  holder = NoCard =>
    \A node \in Nodes, m \in Minors, d \in Cards :
      published[node][m] = d <=> Listed(d) /\ minor[d] = m

\* A card is refused for lack of numbers only if all are taken: numbers
\* that were given back are found again.
RefusedOnlyWhenFull ==
  [][\A d \in Cards : pc[d] = "register" /\ pc'[d] = "absent"
                      => Len(wishbone_list) = max_devices]_vars
=============================================================================
