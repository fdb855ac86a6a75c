-------------------------------- MODULE Pci --------------------------------
(***************************************************************************)
(* The search for a PCI device (lab 4, k-pci.hh and k-hardware.cc):        *)
(* pcistate::next, pcistate::find and the use that poweroff makes of them. *)
(***************************************************************************)
EXTENDS Integers, Sequences, FiniteSets, FiniteSetsExt

CONSTANTS Slots, Funcs        \* 8 * 32 slots of 8 functions in the code

VARIABLES
  functions,            \* the functions that are there, as addresses
  multi,                \* the slots whose device says that it has more than one
  acpi                  \* the functions that poweroff looks for

vars == <<functions, multi, acpi>>

make_addr(slot, func) == slot * Funcs + func
addr_slot(addr) == addr \div Funcs
addr_func(addr) == addr % Funcs
addr_end == make_addr(Slots, 0)

\* mutant: the other functions of a device are looked for when function 0 is absent
Step_all(addr) == IF addr \in functions /\ addr_slot(addr) \notin multi /\ addr_func(addr) = 0
                    THEN addr + make_addr(1, 0) ELSE addr + make_addr(0, 2)

\* the next address to look at
Step(addr) == IF addr_func(addr) = 0 /\ (addr \notin functions \/ addr_slot(addr) \notin multi)
                THEN addr + make_addr(1, 0) ELSE addr + make_addr(0, 1)

next(addr) ==
  LET at[a \in 0..addr_end] ==
        IF a >= addr_end THEN -1
        ELSE IF a \in functions THEN a
        ELSE IF Step(a) > addr_end THEN -1 ELSE at[Step(a)]
  IN at[Step(addr)]

\* find(predicate, 0), as the sequence of functions that the predicate sees
RECURSIVE Seen(_)
Seen(addr) ==
  IF addr < 0 \/ addr \in acpi THEN <<addr>> ELSE <<addr>> \o Seen(next(addr))

find == LET s == Seen(0) IN s[Len(s)]

\* poweroff writes to the device it finds, or spins
poweroff == find >= 0

\* Devices as the bus allows them: a device has a function 0, and other functions
\* only when it says so.
Init ==
  /\ functions \in SUBSET (0..(addr_end - 1))
  /\ multi \in SUBSET (0..(Slots - 1))
  /\ \A s \in multi : make_addr(s, 0) \in functions
  /\ \A a \in functions : addr_func(a) # 0 =>
       addr_slot(a) \in multi /\ make_addr(addr_slot(a), 0) \in functions
  /\ acpi = {}

\* the power management controller is somewhere, or nowhere
Plug == \E a \in functions : acpi = {} /\ acpi' = {a} /\ UNCHANGED <<functions, multi>>

Next == Plug
Spec == Init /\ [][Next]_vars

-----------------------------------------------------------------------------
\* The search sees the functions of the bus once each and in order, up to the one
\* it looks for, and so poweroff works whenever the machine has a controller.
SeesAll ==
  LET s == Seen(0)
      seen == {s[k] : k \in 1..Len(s)} \ {-1}
      first == IF acpi = {} THEN addr_end ELSE Min(acpi)
  IN /\ \A j, k \in 1..Len(s) : j < k /\ s[k] # -1 => s[j] < s[k]
     /\ seen \ {0} = {a \in functions : a <= first} \ {0}
     /\ poweroff <=> acpi # {}
=============================================================================
